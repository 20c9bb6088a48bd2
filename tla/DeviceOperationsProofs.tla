----------------------- MODULE DeviceOperationsProofs -----------------------
(***************************************************************************)
(* Theorems about DeviceOperations, for any devices, callers, keys and     *)
(* requests and any retention and channel bounds.                          *)
(***************************************************************************)
EXTENDS DeviceOperations, SequenceTheorems, TLAPS

(* TypeOK in three parts, each left alone by most steps; a call past its    *)
(* first replay also carries a key and a request.                          *)
HistoryTyped ==
  /\ ticket \in Nat
  /\ DOMAIN ops \subseteq 1 .. ticket
  /\ ops \in [DOMAIN ops -> [key : Keys, req : Requests, status : Statuses]]
  /\ DOMAIN idem \subseteq Keys
  /\ idem \in [DOMAIN idem -> [req : Requests, op : 1 .. ticket]]
  /\ artifacts \subseteq 1 .. ticket
  /\ files \subseteq 1 .. ticket

DevicesTyped ==
  /\ running \in BOOLEAN
  /\ lanes \in [Devices -> [busy : BOOLEAN, app : BOOLEAN, input : BOOLEAN, discard : BOOLEAN]]
  /\ queue \in [Devices -> Seq(1 .. ticket)]
  /\ worker \in [Devices -> {"loop", "leaving", "gone"}]
  /\ claimed \in [Devices -> SUBSET (1 .. ticket)]

CallsTyped ==
  /\ calls \in [Callers -> [pc : {"idle", "checked", "answered"}, key : Keys \cup {NoKey},
                            req : Requests \cup {NoRequest}, op : 0 .. ticket]]
  /\ \A c \in Callers :
       calls[c].pc # "idle" => calls[c].key \in Keys /\ calls[c].req \in Requests

Typed == HistoryTyped /\ DevicesTyped /\ CallsTyped

-----------------------------------------------------------------------------
(* Types, action by action. *)

LEMMA InitTyped == Init => Typed
  BY BoundsAssumption
     DEF Init, InitStore, Typed, HistoryTyped, DevicesTyped, CallsTyped, IdleCall, OpenLanes, NoOp

(* Answering, refusing and checking a call keep the calls well typed.       *)
LEMMA AnswerTyped ==
  ASSUME Typed, NEW c \in Callers, NEW k \in Keys, NEW r \in Requests, NEW i \in 0 .. ticket',
         ticket' \in Nat, ticket' >= ticket, Answer(c, k, r, i)
  PROVE  CallsTyped'
  BY DEF Typed, HistoryTyped, CallsTyped, Answer

LEMMA RefuseTyped ==
  ASSUME Typed, NEW c \in Callers, ticket' \in Nat, ticket' >= ticket, Refuse(c)
  PROVE  CallsTyped'
  BY DEF Typed, HistoryTyped, CallsTyped, Refuse, IdleCall, NoOp

(* A call's step that leaves the store alone.                               *)
LEMMA StoreKept ==
  ASSUME Typed, UNCHANGED <<running, storeVars, worker, claimed>>
  PROVE  HistoryTyped' /\ DevicesTyped' /\ ticket' \in Nat /\ ticket' = ticket
  BY DEF Typed, HistoryTyped, DevicesTyped, storeVars, historyVars

LEMMA ReplayTyped ==
  ASSUME Typed, NEW c \in Callers, NEW k \in DOMAIN idem, NEW r \in Requests, Replay(c, k, r),
         ticket' = ticket
  PROVE  CallsTyped'
<1>1. idem[k].op \in 0 .. ticket' /\ ticket' \in Nat /\ k \in Keys
  BY DEF Typed, HistoryTyped
<1>2. CASE Answer(c, k, r, idem[k].op)
  BY <1>1, <1>2, AnswerTyped DEF Typed, HistoryTyped
<1>3. CASE Refuse(c)
  BY <1>1, <1>3, RefuseTyped DEF Typed, HistoryTyped
<1>4. QED
  BY <1>2, <1>3 DEF Replay

LEMMA BeginTyped ==
  ASSUME Typed, NEW c \in Callers, NEW k \in Keys, NEW r \in Requests, Begin(c, k, r),
         UNCHANGED claimed
  PROVE  Typed'
<1>1. HistoryTyped' /\ DevicesTyped' /\ ticket' = ticket
  BY StoreKept DEF Begin
<1>2. CASE k \in DOMAIN idem /\ Replay(c, k, r)
  BY <1>1, <1>2, ReplayTyped DEF Typed
<1>3. CASE calls' = [calls EXCEPT ![c] = [pc |-> "checked", key |-> k, req |-> r, op |-> NoOp]]
  <2>1. CallsTyped'
    BY <1>1, <1>3 DEF Typed, HistoryTyped, CallsTyped, NoOp
  <2>2. QED
    BY <1>1, <2>1 DEF Typed
<1>4. QED
  BY <1>2, <1>3 DEF Begin

(* The admission's part of the history, sent or not.                        *)
LEMMA AdmissionTyped ==
  ASSUME Typed, NEW c \in Callers, Admissible(c), Issue, claimed' = claimed,
         running' = running, worker' = worker,
         \/ /\ ops' = [i \in Kept |-> ops[i]]
            /\ idem' = IdemKept
         \/ /\ ops' = [i \in Kept \cup {ticket + 1} |->
                       IF i = ticket + 1
                       THEN [key |-> calls[c].key, req |-> calls[c].req, status |-> "running"]
                       ELSE ops[i]]
            /\ idem' = [x \in DOMAIN IdemKept \cup {calls[c].key} |->
                        IF x = calls[c].key
                        THEN [req |-> calls[c].req, op |-> ticket + 1]
                        ELSE IdemKept[x]],
         artifacts' = artifacts \ Expired,
         files' = FilesKept
  PROVE  HistoryTyped'
<1> USE DEF Typed
<1>1. /\ ticket \in Nat /\ ticket' = ticket + 1
      /\ calls[c].key \in Keys /\ calls[c].req \in Requests
      /\ "running" \in Statuses
  BY DEF HistoryTyped, CallsTyped, Admissible, Fresh, Issue, Statuses
<1>2. 1 .. ticket \subseteq 1 .. ticket' /\ ticket + 1 \in 1 .. ticket'
  BY <1>1
<1>3. /\ DOMAIN ops' \subseteq 1 .. ticket'
      /\ ops' \in [DOMAIN ops' -> [key : Keys, req : Requests, status : Statuses]]
  BY <1>1, <1>2 DEF HistoryTyped, Kept
<1>4. /\ DOMAIN IdemKept \subseteq Keys
      /\ \A k \in DOMAIN IdemKept : IdemKept[k] \in [req : Requests, op : 1 .. ticket']
  BY <1>2 DEF HistoryTyped, IdemKept
<1>5. /\ DOMAIN idem' \subseteq Keys
      /\ idem' \in [DOMAIN idem' -> [req : Requests, op : 1 .. ticket']]
  <2>1. CASE idem' = IdemKept
    BY <1>4, <2>1 DEF IdemKept
  <2>2. CASE idem' = [x \in DOMAIN IdemKept \cup {calls[c].key} |->
                      IF x = calls[c].key
                      THEN [req |-> calls[c].req, op |-> ticket + 1]
                      ELSE IdemKept[x]]
    BY <1>1, <1>2, <1>4, <2>2
  <2>3. QED
    BY <2>1, <2>2
<1>6. artifacts' \subseteq 1 .. ticket' /\ files' \subseteq 1 .. ticket'
  BY <1>2 DEF HistoryTyped, FilesKept
<1>7. QED
  BY <1>1, <1>3, <1>5, <1>6 DEF HistoryTyped

(* The flags stay Booleans.                                                 *)
LEMMA LanesTyped ==
  ASSUME Typed, NEW d \in Devices, NEW kind, NEW done
  PROVE  /\ LanesAdmitted(lanes[d], kind) \in
              [busy : BOOLEAN, app : BOOLEAN, input : BOOLEAN, discard : BOOLEAN]
         /\ LanesUnsent(lanes[d], kind) \in
              [busy : BOOLEAN, app : BOOLEAN, input : BOOLEAN, discard : BOOLEAN]
         /\ LanesStreamDone(lanes[d], done) \in
              [busy : BOOLEAN, app : BOOLEAN, input : BOOLEAN, discard : BOOLEAN]
         /\ LanesHardwareDone(lanes[d]) \in
              [busy : BOOLEAN, app : BOOLEAN, input : BOOLEAN, discard : BOOLEAN]
  BY DEF Typed, DevicesTyped, LanesAdmitted, LanesUnsent, LanesStreamDone, LanesHardwareDone

LEMMA AdmitTyped ==
  ASSUME Typed, NEW c \in Callers, Admit(c), UNCHANGED claimed
  PROVE  Typed'
<1>1. /\ ticket \in Nat /\ ticket' = ticket + 1
      /\ calls[c].key \in Keys /\ calls[c].req \in Requests
      /\ calls[c].req.dev \in Devices
  BY RequestsAssumption DEF Typed, HistoryTyped, CallsTyped, Admit, Admissible, Fresh, Issue
<1>2. HistoryTyped'
  BY AdmissionTyped DEF Admit, Issue
<1>3. ticket + 1 \in 1 .. ticket' /\ 1 .. ticket \subseteq 1 .. ticket'
  BY <1>1
<1>4. DevicesTyped'
  <2>1. lanes' \in [Devices -> [busy : BOOLEAN, app : BOOLEAN, input : BOOLEAN, discard : BOOLEAN]]
    BY <1>1, LanesTyped DEF Admit, Typed, DevicesTyped
  <2>2. queue' \in [Devices -> Seq(1 .. ticket')]
    <3>1. \A d \in Devices : queue[d] \in Seq(1 .. ticket')
      BY <1>3, SeqMonotonic DEF Typed, DevicesTyped
    <3>2. Append(queue[calls[c].req.dev], ticket + 1) \in Seq(1 .. ticket')
      BY <1>1, <1>3, <3>1, AppendProperties
    <3>3. QED
      BY <3>1, <3>2 DEF Admit, Typed, DevicesTyped
  <2>3. running' \in BOOLEAN /\ worker' \in [Devices -> {"loop", "leaving", "gone"}]
    BY DEF Admit, Typed, DevicesTyped
  <2>4. claimed' \in [Devices -> SUBSET (1 .. ticket')]
    BY <1>3 DEF Typed, DevicesTyped
  <2>5. QED
    BY <2>1, <2>2, <2>3, <2>4 DEF DevicesTyped
<1>5. CallsTyped'
  <2>1. Answer(c, calls[c].key, calls[c].req, ticket + 1) /\ ticket + 1 \in 0 .. ticket'
        /\ ticket' \in Nat /\ ticket' >= ticket
    BY <1>1 DEF Admit
  <2>2. QED
    BY <1>1, <2>1, AnswerTyped
<1>6. QED
  BY <1>2, <1>4, <1>5 DEF Typed

LEMMA AdmitUnsentTyped ==
  ASSUME Typed, NEW c \in Callers, AdmitUnsent(c), UNCHANGED claimed
  PROVE  Typed'
<1>1. /\ ticket \in Nat /\ ticket' = ticket + 1
      /\ calls[c].req.dev \in Devices
  BY RequestsAssumption DEF Typed, HistoryTyped, CallsTyped, AdmitUnsent, Admissible, Fresh, Issue
<1>2. HistoryTyped'
  BY AdmissionTyped DEF AdmitUnsent
<1>3. 1 .. ticket \subseteq 1 .. ticket' /\ ticket' \in Nat /\ ticket' >= ticket
  BY <1>1
<1>4. DevicesTyped'
  <2>1. lanes' \in [Devices -> [busy : BOOLEAN, app : BOOLEAN, input : BOOLEAN, discard : BOOLEAN]]
    BY <1>1, LanesTyped DEF AdmitUnsent, Typed, DevicesTyped
  <2>2. queue' \in [Devices -> Seq(1 .. ticket')]
    BY <1>3, SeqMonotonic DEF AdmitUnsent, Typed, DevicesTyped
  <2>3. running' \in BOOLEAN /\ worker' \in [Devices -> {"loop", "leaving", "gone"}]
    BY DEF AdmitUnsent, Typed, DevicesTyped
  <2>4. claimed' \in [Devices -> SUBSET (1 .. ticket')]
    BY <1>3 DEF Typed, DevicesTyped
  <2>5. QED
    BY <2>1, <2>2, <2>3, <2>4 DEF DevicesTyped
<1>5. CallsTyped'
  BY <1>3, RefuseTyped DEF AdmitUnsent
<1>6. QED
  BY <1>2, <1>4, <1>5 DEF Typed

LEMMA CallerTyped ==
  ASSUME Typed, CallerStep, UNCHANGED claimed
  PROVE  Typed'
<1>1. PICK c \in Callers :
        \/ \E k \in Keys, r \in Requests : Begin(c, k, r)
        \/ Reject(c) \/ LateReplay(c) \/ DeviceBusy(c) \/ Admit(c) \/ AdmitUnsent(c) \/ Return(c)
  BY DEF CallerStep
<1>2. CASE \E k \in Keys, r \in Requests : Begin(c, k, r)
  BY <1>2, BeginTyped
<1>3. CASE Reject(c) \/ DeviceBusy(c) \/ Return(c)
  <2>1. Refuse(c) /\ UNCHANGED <<running, storeVars, worker>>
    BY <1>3 DEF Reject, DeviceBusy, Return
  <2>2. HistoryTyped' /\ DevicesTyped' /\ ticket' \in Nat /\ ticket' = ticket
    BY <2>1, StoreKept
  <2>3. CallsTyped'
    BY <2>1, <2>2, RefuseTyped
  <2>4. QED
    BY <2>2, <2>3 DEF Typed
<1>4. CASE LateReplay(c)
  <2>1. /\ calls[c].key \in DOMAIN idem /\ calls[c].req \in Requests
        /\ Replay(c, calls[c].key, calls[c].req)
        /\ UNCHANGED <<running, storeVars, worker>>
    BY <1>4 DEF LateReplay, Typed, CallsTyped
  <2>2. HistoryTyped' /\ DevicesTyped' /\ ticket' = ticket
    BY <2>1, StoreKept
  <2>3. CallsTyped'
    BY <2>1, <2>2, ReplayTyped
  <2>4. QED
    BY <2>2, <2>3 DEF Typed
<1>5. CASE Admit(c)
  BY <1>5, AdmitTyped
<1>6. CASE AdmitUnsent(c)
  BY <1>6, AdmitUnsentTyped
<1>7. QED
  BY <1>1, <1>2, <1>3, <1>4, <1>5, <1>6

LEMMA SetStatusTyped ==
  ASSUME Typed, NEW done, NEW good, SetStatus(done, good), ticket' = ticket, idem' = idem,
         artifacts' \subseteq 1 .. ticket, files' \subseteq 1 .. ticket
  PROVE  HistoryTyped'
<1>1. /\ DOMAIN ops' = DOMAIN ops
      /\ ops' \in [DOMAIN ops' -> [key : Keys, req : Requests, status : Statuses]]
  BY DEF Typed, HistoryTyped, SetStatus, Statuses
<1>2. QED
  BY <1>1 DEF Typed, HistoryTyped

LEMMA CallsKept ==
  ASSUME Typed, UNCHANGED <<calls, ticket>>
  PROVE  CallsTyped'
  BY DEF Typed, CallsTyped

LEMMA WorkerTyped ==
  ASSUME Typed, NEW d \in Devices, WorkerStep(d)
  PROVE  Typed'
<1>1. CASE Take(d)
  <2>1. CallsTyped' /\ HistoryTyped'
    BY <1>1, CallsKept DEF Take, Typed, HistoryTyped, historyVars
  <2>2. Head(queue[d]) \in 1 .. ticket /\ Tail(queue[d]) \in Seq(1 .. ticket)
    BY <1>1, HeadTailProperties DEF Take, Typed, DevicesTyped
  <2>3. DevicesTyped'
    BY <1>1, <2>2 DEF Take, Typed, DevicesTyped, historyVars
  <2>4. QED
    BY <2>1, <2>3 DEF Typed
<1>2. CASE EndStream(d)
  <2>1. PICK done \in SUBSET claimed[d], good \in SUBSET claimed[d] :
          /\ FinishStream(d, done, good)
          /\ claimed' = [claimed EXCEPT ![d] = @ \ done]
          /\ UNCHANGED <<running, queue, worker, calls>>
    BY <1>2 DEF EndStream
  <2>2. CallsTyped' /\ HistoryTyped'
    BY <2>1, CallsKept, SetStatusTyped DEF FinishStream, Typed, HistoryTyped
  <2>3. DevicesTyped'
    BY <2>1, LanesTyped DEF FinishStream, Typed, DevicesTyped
  <2>4. QED
    BY <2>2, <2>3 DEF Typed
<1>3. CASE BeginFile(d)
  <2>1. PICK i \in claimed[d] : CreateFile(i)
    BY <1>3 DEF BeginFile
  <2>2. UNCHANGED <<running, ticket, ops, idem, artifacts, lanes, queue, worker, calls, claimed>>
    BY <1>3 DEF BeginFile
  <2>3. files' \subseteq 1 .. ticket
    BY <2>1 DEF CreateFile, Typed, DevicesTyped, HistoryTyped
  <2>4. CallsTyped' /\ HistoryTyped' /\ DevicesTyped'
    BY <2>2, <2>3, CallsKept DEF Typed, HistoryTyped, DevicesTyped
  <2>5. QED
    BY <2>4 DEF Typed
<1>4. CASE EndHardware(d)
  <2>1. PICK i \in claimed[d], ok \in BOOLEAN :
          /\ FinishHardware(d, i, ok)
          /\ claimed' = [claimed EXCEPT ![d] = @ \ {i}]
          /\ UNCHANGED <<running, queue, worker, calls>>
    BY <1>4 DEF EndHardware
  <2>2. artifacts' \subseteq 1 .. ticket /\ files' \subseteq 1 .. ticket
    BY <2>1 DEF FinishHardware, Typed, HistoryTyped, DevicesTyped
  <2>3. CallsTyped' /\ HistoryTyped'
    BY <2>1, <2>2, CallsKept, SetStatusTyped DEF FinishHardware
  <2>4. DevicesTyped'
    BY <2>1, LanesTyped DEF FinishHardware, Typed, DevicesTyped
  <2>5. QED
    BY <2>3, <2>4 DEF Typed
<1>5. CASE (WorkerLeaves(d) \/ WorkerGone(d)) /\ UNCHANGED claimed
  <2>1. /\ UNCHANGED <<running, historyVars, lanes, calls, claimed>>
        /\ queue' = queue \/ queue' = [queue EXCEPT ![d] = <<>>]
        /\ worker' = [worker EXCEPT ![d] = "leaving"] \/ worker' = [worker EXCEPT ![d] = "gone"]
    BY Zenon, <1>5 DEF WorkerLeaves, WorkerGone, storeVars
  <2>2. CallsTyped' /\ HistoryTyped' /\ ticket' = ticket
    BY <2>1, CallsKept DEF Typed, HistoryTyped, historyVars
  <2>3. queue' \in [Devices -> Seq(1 .. ticket)]
    <3>1. <<>> \in Seq(1 .. ticket)
      BY EmptySeq
    <3>2. QED
      BY <2>1, <3>1 DEF Typed, DevicesTyped
  <2>4. worker' \in [Devices -> {"loop", "leaving", "gone"}]
    BY <2>1 DEF Typed, DevicesTyped
  <2>5. DevicesTyped'
    BY <2>1, <2>2, <2>3, <2>4 DEF Typed, DevicesTyped
  <2>6. QED
    BY <2>2, <2>5 DEF Typed
<1>6. QED
  BY <1>1, <1>2, <1>3, <1>4, <1>5 DEF WorkerStep

LEMMA NextTyped == Typed /\ [Next]_vars => Typed'
<1> SUFFICES ASSUME Typed, [Next]_vars
             PROVE  Typed'
  OBVIOUS
<1>1. CASE CallerStep /\ UNCHANGED claimed
  BY <1>1, CallerTyped
<1>2. CASE Shutdown /\ UNCHANGED claimed
  <2>1. CallsTyped' /\ HistoryTyped' /\ DevicesTyped'
    BY <1>2, CallsKept
       DEF Shutdown, Typed, HistoryTyped, DevicesTyped, storeVars, historyVars
  <2>2. QED
    BY <2>1 DEF Typed
<1>3. CASE \E d \in Devices : WorkerStep(d)
  BY <1>3, WorkerTyped
<1>4. CASE UNCHANGED vars
  <2>1. CallsTyped' /\ HistoryTyped' /\ DevicesTyped'
    BY <1>4, CallsKept
       DEF vars, sharedVars, Typed, HistoryTyped, DevicesTyped, storeVars, historyVars
  <2>2. QED
    BY <2>1 DEF Typed
<1>5. QED
  BY <1>1, <1>2, <1>3, <1>4 DEF Next

LEMMA AlwaysTyped == Spec => []Typed
  BY InitTyped, NextTyped, PTL DEF Spec

(* Type correctness: the shapes of Store and DeviceState are kept by every  *)
(* step of the callers and of the workers.                                  *)
THEOREM TypeCorrect == Spec => []TypeOK
<1>1. Typed => TypeOK
  BY DEF Typed, HistoryTyped, DevicesTyped, CallsTyped, TypeOK
<1>2. QED
  BY <1>1, AlwaysTyped, PTL

-----------------------------------------------------------------------------
(* One operation per key.  The keys of the retained operations and the keys *)
(* of the idempotency records are in bijection; eviction keeps it because   *)
(* both drop exactly the expired, admission because its key is fresh.       *)

LEMMA EvictionKeepsKeys ==
  ASSUME Typed, OneOperationPerKey
  PROVE  /\ \A k \in DOMAIN IdemKept :
              /\ IdemKept[k] = idem[k]
              /\ IdemKept[k].op \in Kept
              /\ ops[IdemKept[k].op].key = k
              /\ ops[IdemKept[k].op].req = IdemKept[k].req
         /\ \A i \in Kept : ops[i].key \in DOMAIN IdemKept /\ IdemKept[ops[i].key].op = i
         /\ Kept \subseteq DOMAIN ops
         /\ DOMAIN IdemKept \subseteq DOMAIN idem
  BY DEF OneOperationPerKey, IdemKept, Kept

LEMMA AdmitKeepsKeys ==
  ASSUME Typed, OneOperationPerKey, NEW c \in Callers, Admit(c)
  PROVE  OneOperationPerKey'
<1> DEFINE k == calls[c].key
           r == calls[c].req
           id == ticket + 1
<1>1. k \notin DOMAIN idem /\ id \notin DOMAIN ops
  BY DEF Admit, Admissible, Fresh, Typed, HistoryTyped
<1>2. /\ DOMAIN ops' = Kept \cup {id}
      /\ ops'[id].key = k /\ ops'[id].req = r
      /\ \A i \in Kept : ops'[i] = ops[i]
  BY <1>1, EvictionKeepsKeys DEF Admit
<1>3. /\ DOMAIN idem' = DOMAIN IdemKept \cup {k}
      /\ idem'[k].op = id /\ idem'[k].req = r
      /\ \A x \in DOMAIN IdemKept : idem'[x] = IdemKept[x]
  BY <1>1, EvictionKeepsKeys DEF Admit
<1> HIDE DEF k, r, id
<1>4. ASSUME NEW x \in DOMAIN idem'
      PROVE  /\ idem'[x].op \in DOMAIN ops'
             /\ ops'[idem'[x].op].key = x
             /\ ops'[idem'[x].op].req = idem'[x].req
  BY <1>2, <1>3, EvictionKeepsKeys
<1>5. ASSUME NEW i \in DOMAIN ops'
      PROVE  ops'[i].key \in DOMAIN idem' /\ idem'[ops'[i].key].op = i
  BY <1>2, <1>3, EvictionKeepsKeys
<1>6. QED
  BY <1>4, <1>5 DEF OneOperationPerKey

LEMMA AdmitUnsentKeepsKeys ==
  ASSUME Typed, OneOperationPerKey, NEW c \in Callers, AdmitUnsent(c)
  PROVE  OneOperationPerKey'
<1>1. /\ DOMAIN ops' = Kept /\ \A i \in Kept : ops'[i] = ops[i]
      /\ idem' = IdemKept
  BY DEF AdmitUnsent
<1>2. QED
  BY <1>1, EvictionKeepsKeys DEF OneOperationPerKey

(* Ending an operation touches neither its key nor its request.             *)
LEMMA SetStatusKeepsKeys ==
  ASSUME Typed, OneOperationPerKey, NEW done, NEW good, SetStatus(done, good), idem' = idem
  PROVE  OneOperationPerKey'
<1>1. /\ DOMAIN ops' = DOMAIN ops
      /\ \A i \in DOMAIN ops : ops'[i].key = ops[i].key /\ ops'[i].req = ops[i].req
  BY DEF SetStatus, Typed, HistoryTyped
<1>2. QED
  BY <1>1 DEF OneOperationPerKey

LEMMA NextKeepsKeys == Typed /\ OneOperationPerKey /\ [Next]_vars => OneOperationPerKey'
<1> SUFFICES ASSUME Typed, OneOperationPerKey, [Next]_vars
             PROVE  OneOperationPerKey'
  OBVIOUS
<1>1. CASE UNCHANGED <<ops, idem>>
  BY <1>1 DEF OneOperationPerKey
<1>2. CASE CallerStep
  <2>1. PICK c \in Callers :
          \/ UNCHANGED <<ops, idem>>
          \/ Admit(c)
          \/ AdmitUnsent(c)
    BY <1>2 DEF CallerStep, Begin, Reject, LateReplay, DeviceBusy, Return, storeVars, historyVars
  <2>2. QED
    BY <1>1, <2>1, AdmitKeepsKeys, AdmitUnsentKeepsKeys
<1>3. CASE \E d \in Devices : WorkerStep(d)
  <2>1. \/ UNCHANGED <<ops, idem>>
        \/ \E done, good : SetStatus(done, good) /\ idem' = idem
    BY <1>3 DEF WorkerStep, Take, EndStream, FinishStream, BeginFile, EndHardware, FinishHardware,
                WorkerLeaves, WorkerGone, storeVars, historyVars
  <2>2. QED
    BY <1>1, <2>1, SetStatusKeepsKeys
<1>4. CASE Shutdown \/ UNCHANGED vars
  BY <1>1, <1>4 DEF Shutdown, vars, sharedVars, storeVars, historyVars
<1>5. QED
  BY <1>2, <1>3, <1>4 DEF Next

(* Idempotency records and retained operations name each other, so no key   *)
(* ever has two retained operations, whatever interleaving of the calls'    *)
(* two looks at the key (submit's replay before and after its await).       *)
THEOREM KeysAreUnique == Spec => []OneOperationPerKey
<1>1. Init => OneOperationPerKey
  BY DEF Init, InitStore, OneOperationPerKey
<1>2. QED
  BY <1>1, AlwaysTyped, NextKeepsKeys, PTL DEF Spec

-----------------------------------------------------------------------------
(* Jobs and flags.  The operators take the state they look at as arguments, *)
(* so that the facts about them serve before and after a step.              *)

RunningIn(o, d) == {i \in DOMAIN o : o[i].status = "running" /\ o[i].req.dev = d}

Members(q) == {q[n] : n \in 1 .. Len(q)}

Distinct(q) == \A m, n \in 1 .. Len(q) : q[m] = q[n] => m = n

(* The jobs of a device, in the channel q or in the worker's hands, are     *)
(* running operations R, and all of them while the worker w is there.       *)
JobsFit(R, q, hands, w) ==
  /\ Members(q) \cup hands \subseteq R
  /\ Members(q) \cap hands = {}
  /\ Distinct(q)
  /\ w # "gone" => R \subseteq Members(q) \cup hands
  /\ w = "gone" => q = <<>>

(* The flags l say what is running.                                         *)
FlagsFit(R, o, l) ==
  /\ l.busy <=> R # {}
  /\ l.app <=> \E i \in R : o[i].req.kind = "command"
  /\ l.input <=> \E i \in R : o[i].req.kind = "input"
  /\ l.discard <=> \E i \in R : o[i].req.kind \in HardwareKinds
  /\ \A i, j \in R : i # j => {o[i].req.kind, o[j].req.kind} = {"command", "input"}

Accounted ==
  \A d \in Devices :
    /\ JobsFit(RunningIn(ops, d), queue[d], claimed[d], worker[d])
    /\ FlagsFit(RunningIn(ops, d), ops, lanes[d])

LEMMA AccountedMeans == Accounted <=> LanesMatchOperations /\ JobsAreAccountedFor
<1>1. \A d : RunningIn(ops, d) = Running(d) /\ Members(queue[d]) = Queued(d)
  BY DEF RunningIn, Running, Members, Queued
<1>2. LanesMatchOperations <=> \A d \in Devices : FlagsFit(RunningIn(ops, d), ops, lanes[d])
  BY DEF LanesMatchOperations, FlagsFit, Running, RunningIn, Kind
<1>3. ASSUME NEW d \in Devices
      PROVE  JobsFit(RunningIn(ops, d), queue[d], claimed[d], worker[d]) <=>
               /\ Queued(d) \cup claimed[d] \subseteq Running(d)
               /\ Queued(d) \cap claimed[d] = {}
               /\ \A m, n \in 1 .. Len(queue[d]) : queue[d][m] = queue[d][n] => m = n
               /\ worker[d] # "gone" => Lost(d) = {}
               /\ worker[d] = "gone" => queue[d] = <<>>
  <2>1. Lost(d) = {} <=> Running(d) \subseteq Queued(d) \cup claimed[d]
    BY DEF Lost
  <2>2. QED
    BY <1>1, <2>1 DEF JobsFit, Distinct
<1>4. QED
  BY <1>2, <1>3 DEF Accounted, JobsAreAccountedFor

LEMMA AppendMembers ==
  ASSUME NEW S, NEW q \in Seq(S), NEW e \in S, Distinct(q), e \notin Members(q)
  PROVE  Members(Append(q, e)) = Members(q) \cup {e} /\ Distinct(Append(q, e))
  BY AppendProperties, LenProperties DEF Members, Distinct

LEMMA TailMembers ==
  ASSUME NEW S, NEW q \in Seq(S), q # <<>>, Distinct(q)
  PROVE  /\ Head(q) \in Members(q)
         /\ Members(Tail(q)) = Members(q) \ {Head(q)}
         /\ Distinct(Tail(q))
<1>1. /\ Len(q) \in Nat \ {0} /\ Head(q) = q[1]
      /\ Len(Tail(q)) = Len(q) - 1
      /\ \A n \in 1 .. Len(q) - 1 : Tail(q)[n] = q[n + 1]
  BY HeadTailProperties, LenProperties, EmptySeq
<1>2. Head(q) \in Members(q)
  BY <1>1 DEF Members
<1>3. Members(Tail(q)) \subseteq Members(q) \ {Head(q)}
  BY <1>1 DEF Members, Distinct
<1>4. ASSUME NEW n \in 1 .. Len(q), q[n] # Head(q)
      PROVE  q[n] \in Members(Tail(q))
  <2>1. n - 1 \in 1 .. Len(Tail(q)) /\ Tail(q)[n - 1] = q[n]
    BY <1>1, <1>4
  <2>2. QED
    BY <2>1 DEF Members
<1>5. Members(Tail(q)) = Members(q) \ {Head(q)}
  BY <1>3, <1>4 DEF Members
<1>6. Distinct(Tail(q))
  BY <1>1 DEF Distinct
<1>7. QED
  BY <1>2, <1>5, <1>6

(* What a step that keeps the records of the operations in R keeps.         *)
LEMMA FlagsFitSame ==
  ASSUME NEW R, NEW o, NEW o2, NEW l, FlagsFit(R, o, l), \A i \in R : o2[i].req = o[i].req
  PROVE  FlagsFit(R, o2, l)
  BY SMTT(30) DEF FlagsFit

Flags == [busy : BOOLEAN, app : BOOLEAN, input : BOOLEAN, discard : BOOLEAN]

(* Who can be admitted beside what is running.                              *)
LEMMA Beside ==
  ASSUME NEW R, NEW o, NEW l \in Flags, NEW kind, FlagsFit(R, o, l),
         ~l.busy \/ Compatible(l, kind)
  PROVE  \/ R = {}
         \/ kind = "command" /\ \A i \in R : o[i].req.kind = "input"
         \/ kind = "input" /\ \A i \in R : o[i].req.kind = "command"
<1>1. CASE ~l.busy
  BY <1>1 DEF FlagsFit
<1>2. CASE kind = "command" /\ l.input /\ ~l.app
  <2>1. PICK j \in R : o[j].req.kind = "input"
    BY <1>2 DEF FlagsFit
  <2>2. ASSUME NEW i \in R
        PROVE  o[i].req.kind = "input"
    <3>1. o[i].req.kind # "command"
      BY <1>2 DEF FlagsFit
    <3>2. i # j => o[i].req.kind \in {"command", "input"}
      BY DEF FlagsFit
    <3>3. QED
      BY <2>1, <3>1, <3>2
  <2>3. QED
    BY <1>2, <2>2
<1>3. CASE kind = "input" /\ l.app /\ ~l.input
  <2>1. PICK j \in R : o[j].req.kind = "command"
    BY <1>3 DEF FlagsFit
  <2>2. ASSUME NEW i \in R
        PROVE  o[i].req.kind = "command"
    <3>1. o[i].req.kind # "input"
      BY <1>3 DEF FlagsFit
    <3>2. i # j => o[i].req.kind \in {"command", "input"}
      BY DEF FlagsFit
    <3>3. QED
      BY <2>1, <3>1, <3>2
  <2>3. QED
    BY <1>3, <2>2
<1>4. QED
  BY <1>1, <1>2, <1>3 DEF Compatible

LEMMA AtMostOneBeside ==
  ASSUME NEW R, NEW o, NEW l, FlagsFit(R, o, l), NEW i \in R, NEW j \in R, i # j
  PROVE  o[i].req.kind # o[j].req.kind /\ o[i].req.kind \in {"command", "input"}
<1>1. {o[i].req.kind, o[j].req.kind} = {"command", "input"}
  BY DEF FlagsFit
<1>2. QED
  BY <1>1

LEMMA FlagsAdmitted ==
  ASSUME NEW R, NEW o, NEW o2, NEW l \in Flags, NEW kind \in Kinds, NEW id,
         FlagsFit(R, o, l), ~l.busy \/ Compatible(l, kind), id \notin R,
         \A i \in R : o2[i].req = o[i].req, o2[id].req.kind = kind
  PROVE  FlagsFit(R \cup {id}, o2, LanesAdmitted(l, kind))
<1>1. CASE R = {}
  BY <1>1 DEF FlagsFit, LanesAdmitted, Kinds, StreamKinds, HardwareKinds
<1>2. CASE kind = "command" /\ R # {} /\ \A i \in R : o[i].req.kind = "input"
  <2>1. \A i, j \in R : i = j
    BY <1>2, AtMostOneBeside
  <2>2. \A i, j \in R \cup {id} :
          i # j => {o2[i].req.kind, o2[j].req.kind} = {"command", "input"}
    BY <1>2, <2>1
  <2>3. QED
    BY <1>2, <2>2 DEF FlagsFit, LanesAdmitted, StreamKinds, HardwareKinds
<1>3. CASE kind = "input" /\ R # {} /\ \A i \in R : o[i].req.kind = "command"
  <2>1. \A i, j \in R : i = j
    BY <1>3, AtMostOneBeside
  <2>2. \A i, j \in R \cup {id} :
          i # j => {o2[i].req.kind, o2[j].req.kind} = {"command", "input"}
    BY <1>3, <2>1
  <2>3. QED
    BY <1>3, <2>2 DEF FlagsFit, LanesAdmitted, StreamKinds, HardwareKinds
<1>4. QED
  BY SMTT(30), <1>1, <1>2, <1>3, Beside

LEMMA FlagsUnsent ==
  ASSUME NEW R, NEW o, NEW l \in Flags, NEW kind \in Kinds,
         FlagsFit(R, o, l), ~l.busy \/ Compatible(l, kind)
  PROVE  FlagsFit(R, o, LanesUnsent(l, kind))
<1>1. CASE R = {}
  BY <1>1 DEF FlagsFit, LanesUnsent
<1>2. CASE kind = "command" /\ R # {} /\ \A i \in R : o[i].req.kind = "input"
  BY <1>2 DEF FlagsFit, LanesUnsent, HardwareKinds
<1>3. CASE kind = "input" /\ R # {} /\ \A i \in R : o[i].req.kind = "command"
  BY <1>3 DEF FlagsFit, LanesUnsent, HardwareKinds
<1>4. QED
  BY <1>1, <1>2, <1>3, Beside

(* The completions of one stream step clear their own lanes and no other.   *)
LEMMA FlagsStreamDone ==
  ASSUME NEW R, NEW l \in Flags, NEW done \in SUBSET R, done # {}, FlagsFit(R, ops, l),
         \A i \in done : Kind(i) \in StreamKinds,
         \A i \in R : Kind(i) \in Kinds
  PROVE  FlagsFit(R \ done, ops, LanesStreamDone(l, done))
<1>1. PICK i \in done : TRUE
  OBVIOUS
<1>2. \A j \in R \ done : Kind(j) \in {"command", "input"} /\ Kind(i) \in {"command", "input"}
                         /\ Kind(j) # Kind(i)
  BY <1>1, AtMostOneBeside DEF Kind
<1>3. LanesStreamDone(l, done).discard = FALSE
  BY DEF LanesStreamDone
<1>4. LanesStreamDone(l, done).app <=> \E j \in R \ done : Kind(j) = "command"
  <2>1. LanesStreamDone(l, done).app <=>
          l.app /\ ~\E x \in done : Kind(x) \in {"command", "connect"}
    BY DEF LanesStreamDone
  <2>2. l.app <=> \E j \in R : Kind(j) = "command"
    BY DEF FlagsFit, Kind
  <2>3. ASSUME NEW j \in R \ done, Kind(j) = "command", NEW x \in done
        PROVE  Kind(x) \in {"command", "input"} /\ Kind(x) # "command"
    BY <2>3, AtMostOneBeside DEF Kind
  <2>4. QED
    BY <2>1, <2>2, <2>3
<1>5. LanesStreamDone(l, done).input <=> \E j \in R \ done : Kind(j) = "input"
  <2>1. LanesStreamDone(l, done).input <=>
          l.input /\ ~\E x \in done : Kind(x) = "input"
    BY DEF LanesStreamDone
  <2>2. l.input <=> \E j \in R : Kind(j) = "input"
    BY DEF FlagsFit, Kind
  <2>3. ASSUME NEW j \in R \ done, Kind(j) = "input", NEW x \in done
        PROVE  Kind(x) \in {"command", "input"} /\ Kind(x) # "input"
    BY <2>3, AtMostOneBeside DEF Kind
  <2>4. QED
    BY <2>1, <2>2, <2>3
<1>6. LanesStreamDone(l, done).busy <=> R \ done # {}
  <2>1. LanesStreamDone(l, done).busy <=>
          LanesStreamDone(l, done).app \/ LanesStreamDone(l, done).input
    BY DEF LanesStreamDone
  <2>2. QED
    BY <1>2, <1>4, <1>5, <2>1
<1>7. \A j, k \in R \ done : j # k => {Kind(j), Kind(k)} = {"command", "input"}
  BY DEF FlagsFit, Kind
<1>8. ~\E j \in R \ done : Kind(j) \in HardwareKinds
  BY <1>2 DEF HardwareKinds
<1>9. QED
  BY <1>3, <1>4, <1>5, <1>6, <1>7, <1>8 DEF FlagsFit, Kind

LEMMA FlagsHardwareDone ==
  ASSUME NEW R, NEW o, NEW l \in Flags, NEW i \in R, FlagsFit(R, o, l),
         o[i].req.kind \in HardwareKinds
  PROVE  FlagsFit(R \ {i}, o, LanesHardwareDone(l))
<1>1. R \ {i} = {}
  BY AtMostOneBeside DEF HardwareKinds
<1>2. ~l.app /\ ~l.input
  BY <1>1 DEF FlagsFit, HardwareKinds
<1>3. QED
  BY <1>1, <1>2 DEF FlagsFit, LanesHardwareDone, Flags

(* A device that a step does not concern.                                   *)
Untouched(d) ==
  /\ RunningIn(ops', d) = RunningIn(ops, d)
  /\ \A i \in RunningIn(ops, d) : ops'[i].req = ops[i].req
  /\ lanes'[d] = lanes[d] /\ queue'[d] = queue[d] /\ claimed'[d] = claimed[d]
  /\ worker'[d] = worker[d]

LEMMA UntouchedFits ==
  ASSUME Accounted, NEW d \in Devices, Untouched(d)
  PROVE  /\ JobsFit(RunningIn(ops', d), queue'[d], claimed'[d], worker'[d])
         /\ FlagsFit(RunningIn(ops', d), ops', lanes'[d])
  BY FlagsFitSame DEF Accounted, Untouched

(* Eviction never touches a running operation.                              *)
LEMMA KeptRunning ==
  /\ Kept \subseteq DOMAIN ops
  /\ \A d : RunningIn(ops, d) \subseteq Kept
  BY DEF RunningIn, Kept, Expired, Finished

(* What the caller of an admission step brings.                             *)
LEMMA AdmissibleCall ==
  ASSUME Typed, NEW c \in Callers, Admissible(c)
  PROVE  /\ calls[c].req.dev \in Devices /\ calls[c].req.kind \in Kinds
         /\ \/ ~lanes[calls[c].req.dev].busy
            \/ Compatible(lanes[calls[c].req.dev], calls[c].req.kind)
  BY RequestsAssumption DEF Admissible, Fresh, Typed, CallsTyped

(* What an admission adds to the running operations, sent or not.           *)
LEMMA AdmitRunning ==
  ASSUME Typed, NEW c \in Callers, Admit(c)
  PROVE  /\ ticket + 1 \notin DOMAIN ops
         /\ ops'[ticket + 1].req = calls[c].req
         /\ RunningIn(ops', calls[c].req.dev) = RunningIn(ops, calls[c].req.dev) \cup {ticket + 1}
         /\ \A d \in Devices \ {calls[c].req.dev} : RunningIn(ops', d) = RunningIn(ops, d)
         /\ \A d \in Devices : \A i \in RunningIn(ops, d) : ops'[i].req = ops[i].req
<1>1. ticket + 1 \notin DOMAIN ops
  BY DEF Typed, HistoryTyped
<1>2. /\ DOMAIN ops' = Kept \cup {ticket + 1}
      /\ ops'[ticket + 1].req = calls[c].req /\ ops'[ticket + 1].status = "running"
      /\ \A i \in Kept : ops'[i] = ops[i]
  BY <1>1, KeptRunning DEF Admit
<1>3. QED
  BY <1>1, <1>2, KeptRunning DEF RunningIn

LEMMA AdmitUnsentRunning ==
  ASSUME NEW c, AdmitUnsent(c), NEW d
  PROVE  /\ RunningIn(ops', d) = RunningIn(ops, d)
         /\ \A i \in RunningIn(ops, d) : ops'[i].req = ops[i].req
<1>1. DOMAIN ops' = Kept /\ \A i \in Kept : ops'[i] = ops[i]
  BY DEF AdmitUnsent
<1>2. QED
  BY <1>1, KeptRunning DEF RunningIn

LEMMA AdmitAccounted ==
  ASSUME Typed, Accounted, NEW c \in Callers, Admit(c), UNCHANGED claimed
  PROVE  Accounted'
<1> DEFINE dev == calls[c].req.dev
           kind == calls[c].req.kind
           id == ticket + 1
<1>1. /\ dev \in Devices /\ kind \in Kinds
      /\ ~lanes[dev].busy \/ Compatible(lanes[dev], kind)
  BY AdmissibleCall DEF Admit
<1>2. id \notin DOMAIN ops /\ ops'[id].req = calls[c].req
  BY AdmitRunning
<1>3. /\ RunningIn(ops', dev) = RunningIn(ops, dev) \cup {id}
      /\ \A d \in Devices \ {dev} : RunningIn(ops', d) = RunningIn(ops, d)
      /\ \A d \in Devices : \A i \in RunningIn(ops, d) : ops'[i].req = ops[i].req
  BY AdmitRunning
<1>4. /\ lanes'[dev] = LanesAdmitted(lanes[dev], kind)
      /\ queue'[dev] = Append(queue[dev], id)
      /\ \A d \in Devices \ {dev} : lanes'[d] = lanes[d] /\ queue'[d] = queue[d]
      /\ worker' = worker /\ worker[dev] # "gone"
  BY Zenon, <1>1 DEF Admit, SendFails, Typed, DevicesTyped
<1>5. /\ JobsFit(RunningIn(ops, dev), queue[dev], claimed[dev], worker[dev])
      /\ FlagsFit(RunningIn(ops, dev), ops, lanes[dev])
      /\ lanes[dev] \in Flags
  BY <1>1 DEF Accounted, Typed, DevicesTyped, Flags
<1>6. JobsFit(RunningIn(ops', dev), queue'[dev], claimed'[dev], worker'[dev])
  <2>1. queue[dev] \in Seq(1 .. id) /\ id \in 1 .. id
    BY <1>1, SeqMonotonic DEF Typed, HistoryTyped, DevicesTyped
  <2>2. id \notin RunningIn(ops, dev)
    BY <1>2 DEF RunningIn
  <2>3. id \notin Members(queue[dev]) /\ id \notin claimed[dev] /\ Distinct(queue[dev])
    BY <1>5, <2>2 DEF JobsFit
  <2>4. /\ Members(queue'[dev]) = Members(queue[dev]) \cup {id}
        /\ Distinct(queue'[dev])
    BY <1>4, <2>1, <2>3, AppendMembers
  <2>5. QED
    BY Zenon, <1>3, <1>4, <1>5, <2>3, <2>4 DEF JobsFit
<1>7. FlagsFit(RunningIn(ops', dev), ops', lanes'[dev])
  <2>1. id \notin RunningIn(ops, dev) /\ ops'[id].req.kind = kind
    BY <1>2 DEF RunningIn
  <2>2. FlagsFit(RunningIn(ops, dev) \cup {id}, ops', LanesAdmitted(lanes[dev], kind))
    BY <1>1, <1>3, <1>5, <2>1, FlagsAdmitted
  <2>3. QED
    BY <1>3, <1>4, <2>2
<1>8. ASSUME NEW d \in Devices \ {dev}
      PROVE  Untouched(d)
  BY <1>3, <1>4 DEF Untouched
<1>9. QED
  BY <1>6, <1>7, <1>8, UntouchedFits DEF Accounted

LEMMA AdmitUnsentAccounted ==
  ASSUME Typed, Accounted, NEW c \in Callers, AdmitUnsent(c), UNCHANGED claimed
  PROVE  Accounted'
<1> DEFINE dev == calls[c].req.dev
           kind == calls[c].req.kind
<1>1. /\ dev \in Devices /\ kind \in Kinds
      /\ ~lanes[dev].busy \/ Compatible(lanes[dev], kind)
  BY AdmissibleCall DEF AdmitUnsent
<1>2. \A d \in Devices :
        /\ RunningIn(ops', d) = RunningIn(ops, d)
        /\ \A i \in RunningIn(ops, d) : ops'[i].req = ops[i].req
  BY AdmitUnsentRunning
<1>3. /\ lanes'[dev] = LanesUnsent(lanes[dev], kind)
      /\ queue' = queue /\ worker' = worker
      /\ \A d \in Devices \ {dev} : lanes'[d] = lanes[d]
  BY <1>1 DEF AdmitUnsent, Typed, DevicesTyped
<1>4. /\ JobsFit(RunningIn(ops, dev), queue[dev], claimed[dev], worker[dev])
      /\ FlagsFit(RunningIn(ops, dev), ops, lanes[dev])
      /\ lanes[dev] \in Flags
  BY <1>1 DEF Accounted, Typed, DevicesTyped, Flags
<1>5. JobsFit(RunningIn(ops', dev), queue'[dev], claimed'[dev], worker'[dev])
  BY <1>1, <1>2, <1>3, <1>4
<1>6. FlagsFit(RunningIn(ops', dev), ops', lanes'[dev])
  <2>1. FlagsFit(RunningIn(ops, dev), ops, lanes'[dev])
    BY <1>1, <1>3, <1>4, FlagsUnsent
  <2>2. QED
    BY <1>1, <1>2, <2>1, FlagsFitSame
<1>7. ASSUME NEW d \in Devices \ {dev}
      PROVE  Untouched(d)
  BY <1>2, <1>3 DEF Untouched
<1>8. QED
  BY <1>5, <1>6, <1>7, UntouchedFits DEF Accounted

(* What the end of the operations in done does to the running operations.   *)
LEMMA SetStatusRunning ==
  ASSUME NEW d \in Devices, NEW done \in SUBSET RunningIn(ops, d), NEW good, SetStatus(done, good),
         Typed
  PROVE  /\ RunningIn(ops', d) = RunningIn(ops, d) \ done
         /\ \A e \in Devices \ {d} : RunningIn(ops', e) = RunningIn(ops, e)
         /\ \A i \in DOMAIN ops : ops'[i].req = ops[i].req
<1>1. /\ DOMAIN ops' = DOMAIN ops
      /\ \A i \in DOMAIN ops :
           /\ ops'[i].req = ops[i].req
           /\ i \in done => ops'[i].status # "running"
           /\ i \notin done => ops'[i].status = ops[i].status
  BY DEF SetStatus, Typed, HistoryTyped
<1>2. QED
  BY <1>1 DEF RunningIn

LEMMA RunningKinds ==
  ASSUME Typed, NEW d, NEW i \in RunningIn(ops, d)
  PROVE  Kind(i) \in Kinds /\ i \in DOMAIN ops
  BY RequestsAssumption DEF Typed, HistoryTyped, RunningIn, Kind

LEMMA EndStreamAccounted ==
  ASSUME Typed, Accounted, NEW d \in Devices, EndStream(d)
  PROVE  Accounted'
<1>1. PICK done \in SUBSET claimed[d], good \in SUBSET claimed[d] :
        /\ \A i \in done : Kind(i) \in StreamKinds
        /\ done # {}
        /\ FinishStream(d, done, good)
        /\ claimed' = [claimed EXCEPT ![d] = @ \ done]
        /\ queue' = queue /\ worker' = worker
  BY DEF EndStream
<1>2. /\ JobsFit(RunningIn(ops, d), queue[d], claimed[d], worker[d])
      /\ FlagsFit(RunningIn(ops, d), ops, lanes[d])
      /\ lanes[d] \in Flags
  BY DEF Accounted, Typed, DevicesTyped, Flags
<1>3. done \in SUBSET RunningIn(ops, d)
  BY <1>2 DEF JobsFit
<1>4. /\ RunningIn(ops', d) = RunningIn(ops, d) \ done
      /\ \A e \in Devices \ {d} : RunningIn(ops', e) = RunningIn(ops, e)
      /\ \A i \in DOMAIN ops : ops'[i].req = ops[i].req
  BY <1>1, <1>3, SetStatusRunning DEF FinishStream
<1>5. /\ lanes'[d] = LanesStreamDone(lanes[d], done)
      /\ claimed'[d] = claimed[d] \ done
      /\ \A e \in Devices \ {d} : lanes'[e] = lanes[e] /\ claimed'[e] = claimed[e]
  BY <1>1 DEF FinishStream, Typed, DevicesTyped
<1>6. JobsFit(RunningIn(ops', d), queue'[d], claimed'[d], worker'[d])
  BY <1>1, <1>2, <1>4, <1>5 DEF JobsFit
<1>7. FlagsFit(RunningIn(ops', d), ops', lanes'[d])
  <2>1. FlagsFit(RunningIn(ops, d) \ done, ops, lanes'[d])
    BY <1>1, <1>2, <1>3, <1>5, FlagsStreamDone, RunningKinds
  <2>2. \A i \in RunningIn(ops, d) \ done : ops'[i].req = ops[i].req
    BY <1>4 DEF RunningIn
  <2>3. QED
    BY <1>4, <2>1, <2>2, FlagsFitSame
<1>8. ASSUME NEW e \in Devices \ {d}
      PROVE  Untouched(e)
  BY <1>1, <1>4, <1>5 DEF Untouched, RunningIn
<1>9. QED
  BY <1>6, <1>7, <1>8, UntouchedFits DEF Accounted

LEMMA EndHardwareAccounted ==
  ASSUME Typed, Accounted, NEW d \in Devices, EndHardware(d)
  PROVE  Accounted'
<1>1. PICK i \in claimed[d], ok \in BOOLEAN :
        /\ Kind(i) \in HardwareKinds
        /\ FinishHardware(d, i, ok)
        /\ claimed' = [claimed EXCEPT ![d] = @ \ {i}]
        /\ queue' = queue /\ worker' = worker
  BY DEF EndHardware
<1>2. /\ JobsFit(RunningIn(ops, d), queue[d], claimed[d], worker[d])
      /\ FlagsFit(RunningIn(ops, d), ops, lanes[d])
      /\ lanes[d] \in Flags
  BY DEF Accounted, Typed, DevicesTyped, Flags
<1>3. {i} \in SUBSET RunningIn(ops, d)
  BY <1>2 DEF JobsFit
<1>4. /\ RunningIn(ops', d) = RunningIn(ops, d) \ {i}
      /\ \A e \in Devices \ {d} : RunningIn(ops', e) = RunningIn(ops, e)
      /\ \A j \in DOMAIN ops : ops'[j].req = ops[j].req
  BY <1>1, <1>3, SetStatusRunning DEF FinishHardware
<1>5. /\ lanes'[d] = LanesHardwareDone(lanes[d])
      /\ claimed'[d] = claimed[d] \ {i}
      /\ \A e \in Devices \ {d} : lanes'[e] = lanes[e] /\ claimed'[e] = claimed[e]
  BY <1>1 DEF FinishHardware, Typed, DevicesTyped
<1>6. JobsFit(RunningIn(ops', d), queue'[d], claimed'[d], worker'[d])
  BY <1>1, <1>2, <1>4, <1>5 DEF JobsFit
<1>7. FlagsFit(RunningIn(ops', d), ops', lanes'[d])
  <2>1. FlagsFit(RunningIn(ops, d) \ {i}, ops, lanes'[d])
    BY <1>1, <1>2, <1>3, <1>5, FlagsHardwareDone DEF Kind
  <2>2. \A j \in RunningIn(ops, d) \ {i} : ops'[j].req = ops[j].req
    BY <1>4 DEF RunningIn
  <2>3. QED
    BY <1>4, <2>1, <2>2, FlagsFitSame
<1>8. ASSUME NEW e \in Devices \ {d}
      PROVE  Untouched(e)
  BY <1>1, <1>4, <1>5 DEF Untouched, RunningIn
<1>9. QED
  BY <1>6, <1>7, <1>8, UntouchedFits DEF Accounted

(* The worker takes the first job: it moves from the channel to its hands.  *)
LEMMA TakeAccounted ==
  ASSUME Typed, Accounted, NEW d \in Devices, Take(d)
  PROVE  Accounted'
<1>1. /\ queue[d] # <<>> /\ queue[d] \in Seq(1 .. ticket)
      /\ queue'[d] = Tail(queue[d]) /\ claimed'[d] = claimed[d] \cup {Head(queue[d])}
      /\ ops' = ops /\ lanes' = lanes /\ worker' = worker /\ worker[d] # "gone"
      /\ \A e \in Devices \ {d} : queue'[e] = queue[e] /\ claimed'[e] = claimed[e]
  BY DEF Take, Typed, DevicesTyped, historyVars
<1>2. JobsFit(RunningIn(ops, d), queue[d], claimed[d], worker[d])
  BY DEF Accounted
<1>3. /\ Head(queue[d]) \in Members(queue[d])
      /\ Members(Tail(queue[d])) = Members(queue[d]) \ {Head(queue[d])}
      /\ Distinct(Tail(queue[d]))
  BY <1>1, <1>2, TailMembers DEF JobsFit
<1>4. JobsFit(RunningIn(ops, d), queue'[d], claimed'[d], worker'[d])
  BY <1>1, <1>2, <1>3 DEF JobsFit
<1>5. ASSUME NEW e \in Devices \ {d}
      PROVE  Untouched(e)
  BY <1>1 DEF Untouched
<1>6. QED
  BY <1>1, <1>4, <1>5, UntouchedFits DEF Accounted

(* The worker leaves its loop, or returns and drops its channel.            *)
LEMMA ExitAccounted ==
  ASSUME Typed, Accounted, NEW d \in Devices, WorkerLeaves(d) \/ WorkerGone(d), UNCHANGED claimed
  PROVE  Accounted'
<1>1. /\ ops' = ops /\ lanes' = lanes /\ worker[d] # "gone"
      /\ \/ queue'[d] = queue[d] /\ worker'[d] # "gone"
         \/ queue'[d] = <<>> /\ worker'[d] = "gone"
      /\ \A e \in Devices \ {d} : queue'[e] = queue[e] /\ worker'[e] = worker[e]
  BY DEF WorkerLeaves, WorkerGone, Typed, DevicesTyped, storeVars, historyVars
<1>2. JobsFit(RunningIn(ops, d), queue[d], claimed[d], worker[d])
  BY DEF Accounted
<1>3. Members(<<>>) = {} /\ Distinct(<<>>)
  BY EmptySeq DEF Members, Distinct
<1>4. JobsFit(RunningIn(ops, d), queue'[d], claimed'[d], worker'[d])
  BY <1>1, <1>2, <1>3 DEF JobsFit
<1>5. ASSUME NEW e \in Devices \ {d}
      PROVE  Untouched(e)
  BY <1>1 DEF Untouched
<1>6. QED
  BY <1>1, <1>4, <1>5, UntouchedFits DEF Accounted

LEMMA NextAccounted == Typed /\ Accounted /\ [Next]_vars => Accounted'
<1> SUFFICES ASSUME Typed, Accounted, [Next]_vars
             PROVE  Accounted'
  OBVIOUS
<1>1. CASE UNCHANGED <<ops, lanes, queue, worker, claimed>>
  BY <1>1 DEF Accounted
<1>2. CASE CallerStep /\ UNCHANGED claimed
  <2>1. PICK c \in Callers :
          \/ UNCHANGED <<ops, lanes, queue, worker>>
          \/ Admit(c)
          \/ AdmitUnsent(c)
    BY <1>2 DEF CallerStep, Begin, Reject, LateReplay, DeviceBusy, Return, storeVars, historyVars
  <2>2. QED
    BY <1>1, <1>2, <2>1, AdmitAccounted, AdmitUnsentAccounted
<1>3. CASE \E d \in Devices : WorkerStep(d)
  <2>1. PICK d \in Devices :
          \/ UNCHANGED <<ops, lanes, queue, worker, claimed>>
          \/ Take(d) \/ EndStream(d) \/ EndHardware(d)
          \/ (WorkerLeaves(d) \/ WorkerGone(d)) /\ UNCHANGED claimed
    BY <1>3 DEF WorkerStep, BeginFile
  <2>2. QED
    BY <1>1, <2>1, TakeAccounted, EndStreamAccounted, EndHardwareAccounted, ExitAccounted
<1>4. CASE Shutdown /\ UNCHANGED claimed
  BY <1>1, <1>4 DEF Shutdown, storeVars, historyVars
<1>5. CASE UNCHANGED vars
  BY <1>1, <1>5 DEF vars, sharedVars, storeVars, historyVars
<1>6. QED
  BY <1>2, <1>3, <1>4, <1>5 DEF Next

LEMMA InitAccounted == Init => Accounted
<1> SUFFICES ASSUME Init
             PROVE  Accounted
  OBVIOUS
<1>1. /\ DOMAIN ops = {} /\ queue = [d \in Devices |-> <<>>]
      /\ claimed = [d \in Devices |-> {}] /\ lanes = [d \in Devices |-> OpenLanes]
      /\ worker = [d \in Devices |-> "loop"]
  BY DEF Init, InitStore
<1>2. Members(<<>>) = {} /\ Distinct(<<>>)
  BY EmptySeq DEF Members, Distinct
<1>3. \A d \in Devices : RunningIn(ops, d) = {}
  BY <1>1 DEF RunningIn
<1>4. QED
  BY <1>1, <1>2, <1>3 DEF Accounted, JobsFit, FlagsFit, OpenLanes

LEMMA AlwaysAccounted == Spec => []Accounted
  BY InitAccounted, NextAccounted, AlwaysTyped, PTL DEF Spec

(* The admission flags of every device say exactly what runs there, and at  *)
(* most one request and one console input run beside each other             *)
(* (submit's flag updates, its undo, finish_stream and the final lock of an *)
(* exclusive operation).                                                    *)
THEOREM FlagsAreExact == Spec => []LanesMatchOperations
  BY AlwaysAccounted, AccountedMeans, PTL

(* No job is taken twice or ended while it waits in the channel, and none   *)
(* is lost as long as its worker has not returned (submit, Worker).         *)
THEOREM JobsAreSafe == Spec => []JobsAreAccountedFor
  BY AlwaysAccounted, AccountedMeans, PTL

-----------------------------------------------------------------------------
(* Consequences.                                                            *)

(* A worker passes its exit check only when no operation runs, and takes no *)
(* job afterwards: shutdown never abandons an operation already begun.      *)
HandsEmpty == \A d \in Devices : worker[d] # "loop" => claimed[d] = {}

LEMMA HandsEmptied == Spec => []HandsEmpty
<1>1. Init => HandsEmpty
  BY DEF Init, InitStore, HandsEmpty
<1>2. Typed /\ Accounted /\ HandsEmpty /\ [Next]_vars => HandsEmpty'
  <2> SUFFICES ASSUME Typed, Accounted, HandsEmpty, [Next]_vars, NEW e \in Devices,
                      worker'[e] # "loop"
               PROVE  claimed'[e] = {}
    BY DEF HandsEmpty
  <2>1. CASE worker[e] # "loop" /\ \A x \in claimed'[e] : x \in claimed[e]
    BY <2>1 DEF HandsEmpty
  <2>2. CASE UNCHANGED <<worker, claimed>>
    BY <2>2 DEF HandsEmpty
  <2>3. CASE CallerStep /\ UNCHANGED claimed
    BY <2>2, <2>3
       DEF CallerStep, Begin, Reject, LateReplay, DeviceBusy, Admit, AdmitUnsent, Return
  <2>4. ASSUME NEW d \in Devices, WorkerStep(d)
        PROVE  claimed'[e] = {}
    <3>1. CASE Take(d)
      <4>1. worker' = worker /\ worker[d] = "loop"
            /\ claimed' = [claimed EXCEPT ![d] = @ \cup {Head(queue[d])}]
        BY <3>1 DEF Take
      <4>2. e # d
        BY <4>1
      <4>3. QED
        BY <2>1, <4>1, <4>2 DEF Typed, DevicesTyped
    <3>2. CASE EndStream(d) \/ EndHardware(d)
      <4>1. /\ worker' = worker
            /\ \E gone : claimed' = [claimed EXCEPT ![d] = @ \ gone]
        BY <3>2 DEF EndStream, EndHardware
      <4>2. QED
        BY <2>1, <4>1 DEF Typed, DevicesTyped
    <3>3. CASE BeginFile(d)
      BY <2>2, <3>3 DEF BeginFile
    <3>4. CASE WorkerLeaves(d) /\ UNCHANGED claimed
      <4>1. RunningIn(ops, d) = {}
        BY <3>4 DEF WorkerLeaves, Accounted, FlagsFit
      <4>2. claimed[d] = {}
        BY <4>1 DEF Accounted, JobsFit
      <4>3. \A x \in Devices \ {d} : worker'[x] = worker[x]
        BY <3>4 DEF WorkerLeaves, Typed, DevicesTyped
      <4>4. QED
        BY <3>4, <4>2, <4>3 DEF HandsEmpty
    <3>5. CASE WorkerGone(d) /\ UNCHANGED claimed
      <4>1. worker[d] # "loop" /\ \A x \in Devices \ {d} : worker'[x] = worker[x]
        BY <3>5 DEF WorkerGone, Typed, DevicesTyped
      <4>2. QED
        BY <3>5, <4>1 DEF HandsEmpty
    <3>6. QED
      BY <2>4, <3>1, <3>2, <3>3, <3>4, <3>5 DEF WorkerStep
  <2>5. CASE Shutdown /\ UNCHANGED claimed
    BY <2>2, <2>5 DEF Shutdown
  <2>6. CASE UNCHANGED vars
    BY <2>2, <2>6 DEF vars, sharedVars
  <2>7. QED
    BY <2>3, <2>4, <2>5, <2>6 DEF Next
<1>3. QED
  BY <1>1, <1>2, AlwaysTyped, AlwaysAccounted, PTL DEF Spec

(* What a step does to a worker.                                            *)
LEMMA WorkerMoves ==
  ASSUME Typed, [Next]_vars, NEW d \in Devices
  PROVE  \/ worker'[d] = worker[d]
         \/ (WorkerLeaves(d) \/ WorkerGone(d)) /\ UNCHANGED claimed
<1>1. CASE CallerStep
  BY <1>1 DEF CallerStep, Begin, Reject, LateReplay, DeviceBusy, Admit, AdmitUnsent, Return
<1>2. ASSUME NEW e \in Devices, WorkerStep(e)
      PROVE  \/ worker'[d] = worker[d]
             \/ (WorkerLeaves(d) \/ WorkerGone(d)) /\ UNCHANGED claimed
  <2>1. CASE (WorkerLeaves(e) \/ WorkerGone(e)) /\ UNCHANGED claimed
    <3>1. e # d => worker'[d] = worker[d]
      BY <2>1 DEF WorkerLeaves, WorkerGone, Typed, DevicesTyped
    <3>2. QED
      BY <2>1, <3>1
  <2>2. CASE Take(e) \/ EndStream(e) \/ BeginFile(e) \/ EndHardware(e)
    BY <2>2 DEF Take, EndStream, BeginFile, EndHardware
  <2>3. QED
    BY <1>2, <2>1, <2>2 DEF WorkerStep
<1>3. CASE Shutdown \/ UNCHANGED vars
  BY <1>3 DEF Shutdown, vars, sharedVars
<1>4. QED
  BY <1>1, <1>2, <1>3 DEF Next

(* A worker that has returned ends nothing, and nothing new runs there.     *)
LEMMA GoneKeeps ==
  ASSUME Typed, Accounted, HandsEmpty, [Next]_vars, NEW d \in Devices, worker[d] = "gone"
  PROVE  RunningIn(ops', d) = RunningIn(ops, d)
<1>1. claimed[d] = {}
  BY DEF HandsEmpty
<1>2. CASE ops' = ops
  BY <1>2
<1>3. ASSUME NEW c \in Callers, Admit(c)
      PROVE  RunningIn(ops', d) = RunningIn(ops, d)
  <2>1. d # calls[c].req.dev
    BY <1>3 DEF Admit, SendFails
  <2>2. QED
    BY <1>3, <2>1, AdmitRunning
<1>4. CASE CallerStep
  <2>1. PICK c \in Callers : ops' = ops \/ Admit(c) \/ AdmitUnsent(c)
    BY <1>4 DEF CallerStep, Begin, Reject, LateReplay, DeviceBusy, Return, storeVars, historyVars
  <2>2. QED
    BY <1>2, <1>3, <2>1, AdmitUnsentRunning
<1>5. ASSUME NEW e \in Devices, NEW done \in SUBSET claimed[e], done # {}, NEW good,
             SetStatus(done, good)
      PROVE  RunningIn(ops', d) = RunningIn(ops, d)
  <2>1. d # e
    BY <1>1, <1>5
  <2>2. done \in SUBSET RunningIn(ops, e)
    BY DEF Accounted, JobsFit
  <2>3. QED
    BY <1>5, <2>1, <2>2, SetStatusRunning
<1>6. ASSUME NEW e \in Devices, WorkerStep(e)
      PROVE  RunningIn(ops', d) = RunningIn(ops, d)
  <2>1. CASE EndStream(e)
    BY <1>5, <2>1 DEF EndStream, FinishStream
  <2>2. CASE EndHardware(e)
    <3>1. PICK i \in claimed[e], ok \in BOOLEAN : SetStatus({i}, IF ok THEN {i} ELSE {})
      BY <2>2 DEF EndHardware, FinishHardware
    <3>2. {i} \in SUBSET claimed[e] /\ {i} # {}
      OBVIOUS
    <3>3. QED
      BY <1>5, <3>1, <3>2
  <2>3. QED
    BY <1>2, <1>6, <2>1, <2>2
       DEF WorkerStep, Take, BeginFile, WorkerLeaves, WorkerGone, storeVars, historyVars
<1>7. CASE Shutdown \/ UNCHANGED vars
  BY <1>2, <1>7 DEF Shutdown, vars, sharedVars, storeVars, historyVars
<1>8. QED
  BY <1>4, <1>6, <1>7 DEF Next

(* Jobs are lost by the return of their worker only, and only such as were  *)
(* sent after the look at the busy flag that ended its loop; what is lost   *)
(* runs forever (Worker, submit).                                           *)
THEOREM LateJobsOnly == Spec => OnlyLateJobsAreLost
<1> DEFINE Late ==
      \A d \in Devices :
        /\ Lost(d)' # Lost(d) =>
             worker[d] = "leaving" /\ worker'[d] = "gone" /\ Lost(d)' = Queued(d)
        /\ worker[d] = "loop" /\ worker'[d] # "loop" => Running(d) = {}
<1>1. ASSUME Typed, Accounted, HandsEmpty, [Next]_vars, Accounted', HandsEmpty'
      PROVE  Late
  <2> SUFFICES ASSUME NEW d \in Devices
               PROVE  /\ Lost(d)' # Lost(d) =>
                           worker[d] = "leaving" /\ worker'[d] = "gone" /\ Lost(d)' = Queued(d)
                      /\ worker[d] = "loop" /\ worker'[d] # "loop" => Running(d) = {}
    OBVIOUS
  <2>1. RunningIn(ops, d) = Running(d) /\ RunningIn(ops', d) = Running(d)'
    BY DEF RunningIn, Running
  <2>2. /\ worker[d] # "gone" => Lost(d) = {}
        /\ worker[d] = "gone" => Lost(d) = Running(d) /\ claimed[d] = {}
    <3>1. worker[d] # "gone" => Running(d) \subseteq Queued(d) \cup claimed[d]
      BY <1>1, <2>1 DEF Accounted, JobsFit, Queued, Members
    <3>2. worker[d] = "gone" => queue[d] = <<>> /\ claimed[d] = {}
      BY <1>1 DEF Accounted, JobsFit, HandsEmpty
    <3>3. queue[d] = <<>> => Queued(d) = {}
      BY EmptySeq DEF Queued
    <3>4. QED
      BY <3>1, <3>2, <3>3 DEF Lost
  <2>3. /\ worker'[d] # "gone" => Lost(d)' = {}
        /\ worker'[d] = "gone" => Lost(d)' = Running(d)'
    <3>1. worker'[d] # "gone" => Running(d)' \subseteq Queued(d)' \cup claimed'[d]
      BY <1>1, <2>1 DEF Accounted, JobsFit, Queued, Members
    <3>2. worker'[d] = "gone" => queue'[d] = <<>> /\ claimed'[d] = {}
      BY <1>1 DEF Accounted, JobsFit, HandsEmpty
    <3>3. queue'[d] = <<>> => Queued(d)' = {}
      BY EmptySeq DEF Queued
    <3>4. QED
      BY <3>1, <3>2, <3>3 DEF Lost
  <2>4. CASE worker'[d] = worker[d]
    BY <1>1, <2>1, <2>2, <2>3, <2>4, GoneKeeps
  <2>5. CASE WorkerLeaves(d)
    <3>1. worker[d] = "loop" /\ worker'[d] = "leaving"
      BY <1>1, <2>5 DEF WorkerLeaves, Typed, DevicesTyped
    <3>2. Running(d) = {}
      BY <1>1, <2>1, <2>5 DEF WorkerLeaves, Accounted, FlagsFit
    <3>3. QED
      BY <2>2, <2>3, <3>1, <3>2
  <2>6. CASE WorkerGone(d)
    <3>1. worker[d] = "leaving" /\ worker'[d] = "gone" /\ ops' = ops
      BY <1>1, <2>6 DEF WorkerGone, Typed, DevicesTyped, historyVars
    <3>2. claimed[d] = {}
      BY <1>1, <3>1 DEF HandsEmpty
    <3>3. Running(d) = Queued(d)
      BY <1>1, <2>1, <3>1, <3>2 DEF Accounted, JobsFit, Queued, Members
    <3>4. Lost(d)' = Queued(d)
      BY <2>1, <2>3, <3>1, <3>3
    <3>5. QED
      BY <3>1, <3>4
  <2>7. QED
    BY <1>1, <2>4, <2>5, <2>6, WorkerMoves
<1>2. QED
  <2>1. Typed /\ Accounted /\ HandsEmpty /\ [Next]_vars /\ Accounted' /\ HandsEmpty' =>
          [Late]_vars
    BY <1>1
  <2>2. QED
    BY <2>1, AlwaysTyped, AlwaysAccounted, HandsEmptied, PTL DEF Spec, OnlyLateJobsAreLost

(* What one step can do to the history: evict finished operations, perhaps  *)
(* add the operation of the new ticket, or end operations that run.         *)
Evicts ==
  /\ DOMAIN ops' = Kept
  /\ \A i \in Kept : ops'[i] = ops[i]

Adds ==
  /\ ticket' = ticket + 1
  /\ DOMAIN ops' = Kept \cup {ticket'}
  /\ \A i \in Kept : ops'[i] = ops[i]

Ends ==
  \E d \in Devices : \E done \in SUBSET RunningIn(ops, d) :
    /\ DOMAIN ops' = DOMAIN ops
    /\ \A i \in DOMAIN ops \ done : ops'[i] = ops[i]

LEMMA HistorySteps ==
  ASSUME Typed, Accounted, [Next]_vars
  PROVE  ops' = ops \/ Evicts \/ Adds \/ Ends
<1>1. CASE CallerStep
  <2>1. PICK c \in Callers : ops' = ops \/ Admit(c) \/ AdmitUnsent(c)
    BY <1>1 DEF CallerStep, Begin, Reject, LateReplay, DeviceBusy, Return, storeVars, historyVars
  <2>2. CASE Admit(c)
    <3>1. ticket + 1 \notin DOMAIN ops
      BY DEF Typed, HistoryTyped
    <3>2. QED
      BY <2>2, <3>1, KeptRunning DEF Admit, Issue, Adds
  <2>3. CASE AdmitUnsent(c)
    BY <2>3 DEF AdmitUnsent, Evicts
  <2>4. QED
    BY <2>1, <2>2, <2>3
<1>2. ASSUME NEW d \in Devices, WorkerStep(d)
      PROVE  ops' = ops \/ Ends
  <2>1. claimed[d] \subseteq RunningIn(ops, d)
    BY DEF Accounted, JobsFit
  <2>2. CASE EndStream(d)
    <3>1. PICK done \in SUBSET claimed[d], good \in SUBSET claimed[d] : SetStatus(done, good)
      BY <2>2 DEF EndStream, FinishStream
    <3>2. QED
      BY <2>1, <3>1 DEF SetStatus, Ends
  <2>3. CASE EndHardware(d)
    <3>1. PICK i \in claimed[d], ok \in BOOLEAN : SetStatus({i}, IF ok THEN {i} ELSE {})
      BY <2>3 DEF EndHardware, FinishHardware
    <3>2. {i} \in SUBSET RunningIn(ops, d)
      BY <2>1
    <3>3. QED
      BY <3>1, <3>2 DEF SetStatus, Ends
  <2>4. QED
    BY <1>2, <2>2, <2>3
       DEF WorkerStep, Take, BeginFile, WorkerLeaves, WorkerGone, storeVars, historyVars
<1>3. CASE Shutdown \/ UNCHANGED vars
  BY <1>3 DEF Shutdown, vars, sharedVars, storeVars, historyVars
<1>4. QED
  BY <1>1, <1>2, <1>3 DEF Next

(* A step keeps the request of what runs, and starts nothing but the        *)
(* operation of the new ticket.                                             *)
LEMMA RunningSteps ==
  ASSUME Typed, Accounted, [Next]_vars
  PROVE  /\ \A d \in Devices : \A i \in RunningIn(ops, d) :
              i \in DOMAIN ops' /\ ops'[i].req = ops[i].req
         /\ \A d \in Devices : RunningIn(ops', d) \subseteq RunningIn(ops, d) \cup {ticket + 1}
         /\ ticket' >= ticket
<1>1. CASE ops' = ops /\ ticket' >= ticket
  BY <1>1 DEF RunningIn
<1>2. ASSUME NEW c \in Callers, Admit(c) \/ AdmitUnsent(c)
      PROVE  /\ ticket' = ticket + 1
             /\ Kept \subseteq DOMAIN ops' /\ DOMAIN ops' \subseteq Kept \cup {ticket + 1}
             /\ \A i \in Kept : ops'[i] = ops[i]
  <2>1. ticket + 1 \notin Kept
    BY DEF Typed, HistoryTyped, Kept
  <2>2. QED
    BY <1>2, <2>1 DEF Admit, AdmitUnsent, Issue
<1>3. CASE CallerStep
  <2>1. PICK c \in Callers : (ops' = ops /\ ticket' = ticket) \/ Admit(c) \/ AdmitUnsent(c)
    BY <1>3 DEF CallerStep, Begin, Reject, LateReplay, DeviceBusy, Return, storeVars, historyVars
  <2>2. CASE Admit(c) \/ AdmitUnsent(c)
    BY <1>2, <2>2, KeptRunning DEF RunningIn, Typed, HistoryTyped
  <2>3. QED
    BY <1>1, <2>1, <2>2 DEF Typed, HistoryTyped
<1>4. ASSUME NEW done, NEW good, SetStatus(done, good), ticket' = ticket
      PROVE  /\ \A i \in DOMAIN ops : i \in DOMAIN ops' /\ ops'[i].req = ops[i].req
             /\ \A i \in DOMAIN ops' : i \in DOMAIN ops
             /\ \A i \in DOMAIN ops : ops'[i].status = "running" => ops[i].status = "running"
  BY <1>4 DEF SetStatus, Typed, HistoryTyped
<1>5. ASSUME NEW d \in Devices, WorkerStep(d)
      PROVE  \/ ops' = ops /\ ticket' = ticket
             \/ \E done, good : SetStatus(done, good) /\ ticket' = ticket
  BY <1>5 DEF WorkerStep, Take, EndStream, FinishStream, BeginFile, EndHardware, FinishHardware,
              WorkerLeaves, WorkerGone, storeVars, historyVars
<1>6. CASE \E d \in Devices : WorkerStep(d)
  BY <1>1, <1>4, <1>5, <1>6 DEF RunningIn, Typed, HistoryTyped
<1>7. CASE Shutdown \/ UNCHANGED vars
  BY <1>1, <1>7 DEF Shutdown, vars, sharedVars, storeVars, historyVars, Typed, HistoryTyped
<1>8. QED
  BY <1>3, <1>6, <1>7 DEF Next

(* Exactly once: a finished operation never changes, and only finished ones *)
(* are evicted, so no ending can be reported twice or lost.                 *)
THEOREM EndingsAreFinal == Spec => OperationsAreFinal
<1> DEFINE Final ==
      /\ \A i \in DOMAIN ops \cap DOMAIN ops' :
           ops[i].status # "running" => ops'[i] = ops[i]
      /\ \A i \in DOMAIN ops \ DOMAIN ops' : ops[i].status # "running"
      /\ \A i \in DOMAIN ops' \ DOMAIN ops : i = ticket'
<1>1. ASSUME Typed, Accounted, [Next]_vars
      PROVE  Final
  <2>1. CASE ops' = ops
    BY <2>1
  <2>2. CASE Evicts \/ Adds
    <3>1. \A i \in DOMAIN ops \ Kept : ops[i].status # "running"
      BY DEF Kept, Expired, Finished
    <3>2. Kept \subseteq DOMAIN ops /\ ticket + 1 \notin DOMAIN ops
      BY <1>1, KeptRunning DEF Typed, HistoryTyped
    <3>3. QED
      BY <2>2, <3>1, <3>2 DEF Evicts, Adds
  <2>3. CASE Ends
    BY <2>3 DEF Ends, RunningIn
  <2>4. QED
    BY <1>1, <2>1, <2>2, <2>3, HistorySteps
<1>2. Typed /\ Accounted /\ [Next]_vars => [Final]_vars
  BY <1>1
<1>3. QED
  BY <1>2, AlwaysTyped, AlwaysAccounted, PTL DEF Spec, OperationsAreFinal

-----------------------------------------------------------------------------
(* Replays.  The operation a call was answered with keeps its key and       *)
(* request while it is retained, and no later operation takes its name.     *)

AnswerFits(i, k, r) == i \in DOMAIN ops => ops[i].key = k /\ ops[i].req = r

(* A step that keeps key and request of what stays, and names what it adds  *)
(* by the new ticket, makes no answer wrong.                                *)
Faithful ==
  /\ \A i \in DOMAIN ops' \cap DOMAIN ops : ops'[i].key = ops[i].key /\ ops'[i].req = ops[i].req
  /\ \A i \in DOMAIN ops' \ DOMAIN ops : i = ticket + 1

LEMMA AnswersStay ==
  ASSUME Typed, ReplayIsFaithful, Faithful, NEW c \in Callers, calls'[c] = calls[c]
  PROVE  AnswerFits(calls[c].op, calls[c].key, calls[c].req)'
<1>1. calls[c].op \in 0 .. ticket /\ ticket \in Nat
  BY DEF Typed, HistoryTyped, CallsTyped
<1>2. calls[c].op # ticket + 1
  BY <1>1
<1>3. QED
  BY <1>2 DEF ReplayIsFaithful, Faithful, AnswerFits

LEMMA AnswerFaithful ==
  ASSUME Typed, ReplayIsFaithful, Faithful, NEW c \in Callers, NEW k, NEW r, NEW i,
         Answer(c, k, r, i), i \in DOMAIN ops' => ops'[i].key = k /\ ops'[i].req = r
  PROVE  ReplayIsFaithful'
<1>1. calls'[c].op = i /\ calls'[c].key = k /\ calls'[c].req = r
  BY DEF Answer, Typed, CallsTyped
<1>2. \A x \in Callers \ {c} : calls'[x] = calls[x]
  BY DEF Answer, Typed, CallsTyped
<1>3. QED
  BY <1>1, <1>2, AnswersStay DEF AnswerFits, ReplayIsFaithful

LEMMA NoAnswerFaithful ==
  ASSUME Typed, ReplayIsFaithful, Faithful, NEW c \in Callers, calls'[c].op \notin DOMAIN ops',
         \A x \in Callers \ {c} : calls'[x] = calls[x]
  PROVE  ReplayIsFaithful'
  BY AnswersStay DEF AnswerFits, ReplayIsFaithful

LEMMA RefuseFaithful ==
  ASSUME Typed, ReplayIsFaithful, Faithful, NEW c \in Callers, Refuse(c), 0 \notin DOMAIN ops'
  PROVE  ReplayIsFaithful'
<1>1. calls'[c].op = 0 /\ \A x \in Callers \ {c} : calls'[x] = calls[x]
  BY DEF Typed, CallsTyped, Refuse, IdleCall, NoOp
<1>2. QED
  BY <1>1, NoAnswerFaithful

LEMMA ReplayFaithful ==
  ASSUME Typed, OneOperationPerKey, ReplayIsFaithful, NEW c \in Callers, NEW k \in DOMAIN idem,
         NEW r, Replay(c, k, r), ops' = ops
  PROVE  ReplayIsFaithful'
<1>1. Faithful /\ 0 \notin DOMAIN ops'
  BY DEF Faithful, Typed, HistoryTyped
<1>2. CASE idem[k].req = r /\ Answer(c, k, r, idem[k].op)
  <2>1. ops[idem[k].op].key = k /\ ops[idem[k].op].req = r
    BY <1>2 DEF OneOperationPerKey
  <2>2. QED
    BY <1>1, <1>2, <2>1, AnswerFaithful
<1>3. CASE Refuse(c)
  BY <1>1, <1>3, RefuseFaithful
<1>4. QED
  BY <1>2, <1>3 DEF Replay

LEMMA CallerFaithful ==
  ASSUME Typed, OneOperationPerKey, ReplayIsFaithful, CallerStep
  PROVE  ReplayIsFaithful'
<1>1. PICK c \in Callers :
        \/ \E k \in Keys, r \in Requests : Begin(c, k, r)
        \/ Reject(c) \/ LateReplay(c) \/ DeviceBusy(c) \/ Admit(c) \/ AdmitUnsent(c) \/ Return(c)
  BY DEF CallerStep
<1>2. 0 \notin DOMAIN ops /\ ticket + 1 \notin DOMAIN ops /\ ticket + 1 # 0
  BY DEF Typed, HistoryTyped
<1>3. ops' = ops => Faithful
  BY DEF Faithful
<1>4. ASSUME NEW k \in Keys, NEW r \in Requests, Begin(c, k, r)
      PROVE  ReplayIsFaithful'
  <2>1. ops' = ops
    BY <1>4 DEF Begin, storeVars, historyVars
  <2>2. CASE k \in DOMAIN idem /\ Replay(c, k, r)
    BY <2>1, <2>2, ReplayFaithful
  <2>3. CASE calls' = [calls EXCEPT ![c] = [pc |-> "checked", key |-> k, req |-> r, op |-> NoOp]]
    <3>1. calls'[c].op = 0 /\ \A x \in Callers \ {c} : calls'[x] = calls[x]
      BY <2>3 DEF Typed, CallsTyped, NoOp
    <3>2. QED
      BY <1>2, <1>3, <2>1, <3>1, NoAnswerFaithful
  <2>4. QED
    BY <1>4, <2>2, <2>3 DEF Begin
<1>5. CASE Reject(c) \/ DeviceBusy(c) \/ Return(c)
  <2>1. Refuse(c) /\ ops' = ops
    BY <1>5 DEF Reject, DeviceBusy, Return, storeVars, historyVars
  <2>2. QED
    BY <1>2, <1>3, <2>1, RefuseFaithful
<1>6. CASE LateReplay(c)
  <2>1. calls[c].key \in DOMAIN idem /\ Replay(c, calls[c].key, calls[c].req) /\ ops' = ops
    BY <1>6 DEF LateReplay, storeVars, historyVars
  <2>2. QED
    BY <2>1, ReplayFaithful
<1>7. CASE Admit(c)
  <2>1. /\ DOMAIN ops' = Kept \cup {ticket + 1}
        /\ ops'[ticket + 1].key = calls[c].key /\ ops'[ticket + 1].req = calls[c].req
        /\ \A i \in Kept : ops'[i] = ops[i]
        /\ Answer(c, calls[c].key, calls[c].req, ticket + 1)
    BY <1>2, <1>7 DEF Admit, Kept
  <2>2. Faithful
    BY <1>2, <2>1 DEF Faithful, Kept
  <2>3. QED
    BY <2>1, <2>2, AnswerFaithful
<1>8. CASE AdmitUnsent(c)
  <2>1. DOMAIN ops' = Kept /\ (\A i \in Kept : ops'[i] = ops[i]) /\ Refuse(c)
    BY <1>8 DEF AdmitUnsent
  <2>2. Faithful /\ 0 \notin DOMAIN ops'
    BY <1>2, <2>1 DEF Faithful, Kept
  <2>3. QED
    BY <2>1, <2>2, RefuseFaithful
<1>9. QED
  BY <1>1, <1>4, <1>5, <1>6, <1>7, <1>8

(* A call answered with an operation gets the one its own key and request   *)
(* made, whether the key was known before its await or recorded during it   *)
(* (the two replays of submit).                                             *)
THEOREM ReplaysAreFaithful == Spec => []ReplayIsFaithful
<1>1. Init => ReplayIsFaithful
  BY DEF Init, InitStore, ReplayIsFaithful
<1>2. Typed /\ OneOperationPerKey /\ ReplayIsFaithful /\ [Next]_vars => ReplayIsFaithful'
  <2> SUFFICES ASSUME Typed, OneOperationPerKey, ReplayIsFaithful, [Next]_vars
               PROVE  ReplayIsFaithful'
    OBVIOUS
  <2>1. CASE CallerStep
    BY <2>1, CallerFaithful
  <2>2. CASE calls' = calls /\ Faithful
    BY <2>2, AnswersStay DEF AnswerFits, ReplayIsFaithful
  <2>3. CASE \E d \in Devices : WorkerStep(d)
    <3>1. calls' = calls
      BY <2>3 DEF WorkerStep, Take, EndStream, BeginFile, EndHardware, WorkerLeaves, WorkerGone
    <3>2. ops' = ops \/ \E done, good : SetStatus(done, good)
      BY <2>3 DEF WorkerStep, Take, EndStream, FinishStream, BeginFile, EndHardware,
                  FinishHardware, WorkerLeaves, WorkerGone, storeVars, historyVars
    <3>3. Faithful
      BY <3>2 DEF Faithful, SetStatus, Typed, HistoryTyped
    <3>4. QED
      BY <2>2, <3>1, <3>3
  <2>4. CASE Shutdown \/ UNCHANGED vars
    BY <2>2, <2>4 DEF Faithful, Shutdown, vars, sharedVars, storeVars, historyVars
  <2>5. QED
    BY <2>1, <2>3, <2>4 DEF Next
<1>3. QED
  BY <1>1, <1>2, AlwaysTyped, KeysAreUnique, PTL DEF Spec

-----------------------------------------------------------------------------
(* Artifacts.  Files are created by a running read, published or removed    *)
(* when it ends, and removed again with the operation's record.             *)

LEMMA ArtifactsAdmission ==
  ASSUME Typed, ArtifactsMatchFiles, artifacts' = artifacts \ Expired, files' = FilesKept,
         Kept \subseteq DOMAIN ops', \A i \in Kept : ops'[i] = ops[i]
  PROVE  ArtifactsMatchFiles'
<1>1. \A i \in DOMAIN ops : i \in Kept \/ (i \in Expired /\ ops[i].status # "running")
  BY DEF Kept, Expired, Finished
<1>2. ASSUME NEW i \in artifacts'
      PROVE  /\ i \in DOMAIN ops' /\ ops'[i].status = "succeeded" /\ ops'[i].req.kind = "read"
             /\ i \in files'
  BY <1>1, <1>2 DEF ArtifactsMatchFiles, FilesKept, Kind
<1>3. ASSUME NEW i \in files' \ artifacts'
      PROVE  i \in DOMAIN ops' /\ ops'[i].status = "running" /\ ops'[i].req.kind = "read"
  BY <1>1, <1>3 DEF ArtifactsMatchFiles, FilesKept, Kind
<1>4. QED
  BY <1>2, <1>3 DEF ArtifactsMatchFiles, Kind

LEMMA EndStreamArtifacts ==
  ASSUME Typed, Accounted, ArtifactsMatchFiles, NEW d \in Devices, EndStream(d)
  PROVE  ArtifactsMatchFiles'
<1>1. PICK done \in SUBSET claimed[d], good \in SUBSET claimed[d] :
        /\ \A i \in done : Kind(i) \in StreamKinds
        /\ FinishStream(d, done, good)
  BY DEF EndStream
<1>2. \A i \in done : i \in RunningIn(ops, d)
  BY DEF Accounted, JobsFit
<1>3. \A i \in done : i \notin artifacts /\ i \notin files
  BY <1>1, <1>2 DEF ArtifactsMatchFiles, RunningIn, StreamKinds
<1>4. /\ DOMAIN ops' = DOMAIN ops
      /\ \A i \in DOMAIN ops \ done : ops'[i] = ops[i]
      /\ artifacts' = artifacts /\ files' = files
  BY <1>1 DEF FinishStream, SetStatus
<1>5. QED
  BY <1>3, <1>4 DEF ArtifactsMatchFiles, Kind

LEMMA EndHardwareArtifacts ==
  ASSUME Typed, Accounted, ArtifactsMatchFiles, NEW d \in Devices, EndHardware(d)
  PROVE  ArtifactsMatchFiles'
<1>1. PICK i \in claimed[d], ok \in BOOLEAN :
        /\ ok /\ Kind(i) = "read" => i \in files
        /\ FinishHardware(d, i, ok)
  BY DEF EndHardware
<1>2. i \in DOMAIN ops /\ ops[i].status = "running"
  BY DEF Accounted, JobsFit, RunningIn
<1>3. i \notin artifacts /\ (i \in files => Kind(i) = "read")
  BY <1>2 DEF ArtifactsMatchFiles
<1>4. /\ DOMAIN ops' = DOMAIN ops
      /\ \A j \in DOMAIN ops \ {i} : ops'[j] = ops[j]
      /\ ops'[i].req = ops[i].req
      /\ ok => ops'[i].status = "succeeded"
  BY <1>1, <1>2 DEF FinishHardware, SetStatus, Typed, HistoryTyped
<1>5. CASE ok /\ Kind(i) = "read"
  <2>1. artifacts' = artifacts \cup {i} /\ files' = files /\ i \in files
    BY <1>1, <1>5 DEF FinishHardware
  <2>2. QED
    BY <1>2, <1>4, <1>5, <2>1 DEF ArtifactsMatchFiles, Kind
<1>6. CASE ~(ok /\ Kind(i) = "read")
  <2>1. artifacts' = artifacts /\ files' \subseteq files /\ files \subseteq files' \cup {i}
        /\ i \notin files'
    BY <1>1, <1>3, <1>6 DEF FinishHardware
  <2>2. QED
    BY <1>3, <1>4, <2>1 DEF ArtifactsMatchFiles, Kind
<1>7. QED
  BY <1>5, <1>6

LEMMA BeginFileArtifacts ==
  ASSUME Accounted, ArtifactsMatchFiles, NEW d \in Devices, BeginFile(d)
  PROVE  ArtifactsMatchFiles'
<1>1. PICK i \in claimed[d] : Kind(i) = "read" /\ files' = files \cup {i}
  BY DEF BeginFile, CreateFile
<1>2. i \in DOMAIN ops /\ ops[i].status = "running"
  BY DEF Accounted, JobsFit, RunningIn
<1>3. ops' = ops /\ artifacts' = artifacts
  BY DEF BeginFile
<1>4. QED
  BY <1>1, <1>2, <1>3 DEF ArtifactsMatchFiles, Kind

(* A published artifact is a retained, successful read with its file on     *)
(* disk, and every other file is of a read still running: retention and     *)
(* failure leave nothing behind (push_operation and the end of a read).     *)
THEOREM ArtifactsAreKept == Spec => []ArtifactsMatchFiles
<1>1. Init => ArtifactsMatchFiles
  BY DEF Init, InitStore, ArtifactsMatchFiles
<1>2. Typed /\ Accounted /\ ArtifactsMatchFiles /\ [Next]_vars => ArtifactsMatchFiles'
  <2> SUFFICES ASSUME Typed, Accounted, ArtifactsMatchFiles, [Next]_vars
               PROVE  ArtifactsMatchFiles'
    OBVIOUS
  <2>1. CASE UNCHANGED <<ops, artifacts, files>>
    BY <2>1 DEF ArtifactsMatchFiles, Kind
  <2>2. CASE CallerStep
    <3>1. PICK c \in Callers :
            UNCHANGED <<ops, artifacts, files>> \/ Admit(c) \/ AdmitUnsent(c)
      BY <2>2 DEF CallerStep, Begin, Reject, LateReplay, DeviceBusy, Return, storeVars, historyVars
    <3>2. CASE Admit(c)
      <4>1. Kept \subseteq DOMAIN ops /\ ticket + 1 \notin DOMAIN ops
        BY DEF Kept, Typed, HistoryTyped
      <4>2. QED
        BY <3>2, <4>1, ArtifactsAdmission DEF Admit
    <3>3. CASE AdmitUnsent(c)
      BY <3>3, ArtifactsAdmission DEF AdmitUnsent
    <3>4. QED
      BY <2>1, <3>1, <3>2, <3>3
  <2>3. ASSUME NEW d \in Devices, WorkerStep(d)
        PROVE  ArtifactsMatchFiles'
    <3>1. CASE Take(d) \/ WorkerLeaves(d) \/ WorkerGone(d)
      BY <2>1, <3>1 DEF Take, WorkerLeaves, WorkerGone, storeVars, historyVars
    <3>2. QED
      BY <2>3, <3>1, EndStreamArtifacts, EndHardwareArtifacts, BeginFileArtifacts DEF WorkerStep
  <2>4. CASE Shutdown \/ UNCHANGED vars
    BY <2>1, <2>4 DEF Shutdown, vars, sharedVars, storeVars, historyVars
  <2>5. QED
    BY <2>2, <2>3, <2>4 DEF Next
<1>3. QED
  BY <1>1, <1>2, AlwaysTyped, AlwaysAccounted, PTL DEF Spec

-----------------------------------------------------------------------------
(* The channel.  What is admitted beside finds at most one operation        *)
(* running, hence at most one job waiting.                                  *)

LEMMA OneAtMost ==
  ASSUME NEW R, NEW o, NEW l \in Flags, NEW kind, FlagsFit(R, o, l),
         ~l.busy \/ Compatible(l, kind), NEW i \in R, NEW j \in R
  PROVE  i = j
<1>1. o[i].req.kind = o[j].req.kind
  BY Beside
<1>2. QED
  BY <1>1, AtMostOneBeside

(* A channel of two never refuses an admissible job (the sync_channel(2) of *)
(* a worker and the flags that guard it): its send fails only after the     *)
(* worker has gone.                                                         *)
THEOREM ChannelHasRoom ==
  ASSUME QueueCap >= 2
  PROVE  Spec => []QueueHasRoom
<1>1. ASSUME Typed, Accounted, NEW c \in Callers, Admissible(c)
      PROVE  Len(queue[calls[c].req.dev]) < QueueCap
  <2> DEFINE d == calls[c].req.dev
  <2>1. /\ d \in Devices /\ lanes[d] \in Flags /\ queue[d] \in Seq(1 .. ticket)
        /\ ~lanes[d].busy \/ Compatible(lanes[d], calls[c].req.kind)
    BY <1>1, AdmissibleCall, RequestsAssumption
       DEF Admissible, Fresh, Typed, CallsTyped, DevicesTyped, Flags
  <2>2. /\ JobsFit(RunningIn(ops, d), queue[d], claimed[d], worker[d])
        /\ FlagsFit(RunningIn(ops, d), ops, lanes[d])
    BY <1>1, <2>1 DEF Accounted
  <2>3. \A i, j \in RunningIn(ops, d) : i = j
    BY <2>1, <2>2, OneAtMost
  <2>4. Len(queue[d]) \in Nat
    BY <2>1, LenProperties
  <2>5. ~(Len(queue[d]) >= 2)
    <3> SUFFICES ASSUME Len(queue[d]) >= 2
                 PROVE  FALSE
      OBVIOUS
    <3>1. 1 \in 1 .. Len(queue[d]) /\ 2 \in 1 .. Len(queue[d])
      BY <2>4
    <3>2. queue[d][1] \in RunningIn(ops, d) /\ queue[d][2] \in RunningIn(ops, d)
      BY Zenon, <2>2, <3>1 DEF JobsFit, Members
    <3>3. queue[d][1] = queue[d][2]
      BY <2>3, <3>2
    <3>4. QED
      BY <2>2, <3>1, <3>3 DEF JobsFit, Distinct
  <2>6. QED
    BY <2>4, <2>5, BoundsAssumption
<1>2. Typed /\ Accounted => QueueHasRoom
  BY <1>1 DEF QueueHasRoom
<1>3. QED
  BY <1>2, AlwaysTyped, AlwaysAccounted, PTL

=============================================================================
