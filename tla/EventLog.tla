------------------------------ MODULE EventLog ------------------------------
(***************************************************************************)
(* The event log of one device and the three handlers that read it         *)
(* (src/src/server.rs: `Store::emit`, `Store::events_after`, the handlers  *)
(* `events`, `stream` and `wait`), across restarts of the daemon.          *)
(*                                                                         *)
(* The log is a ring: the events from some number on, bounded in number    *)
(* and in bytes.  Readers hold cursors; a cursor the ring can no longer    *)
(* serve is an error, after which a reader starts again from the cursor of *)
(* a fresh device list.  An event is its number, its size and whether it   *)
(* is a log line that matches the waiters' pattern.                        *)
(***************************************************************************)
EXTENDS Integers, SequencesExt

CONSTANTS
  Readers,    \* clients, each with at most one request in progress
  Sizes,      \* serialized sizes of events
  MaxEvents,  \* MAX_EVENTS
  MaxBytes,   \* MAX_EVENT_BYTES
  MaxSeq,     \* bound on events per run of the daemon, for model checking only
  MaxEpoch    \* bound on runs of the daemon, for model checking only

(* No event fills the ring alone: reads are at most 4 KiB, results small.   *)
ASSUME RingAssumption ==
  /\ MaxEvents \in Nat \ {0}
  /\ MaxBytes \in Nat
  /\ Sizes \subseteq 1 .. MaxBytes
  /\ MaxSeq \in Nat /\ MaxEpoch \in Nat

VARIABLES
  running,    \* the AtomicBool that shutdown clears
  epoch,      \* Store::epoch, the run of the daemon
  seq,        \* DeviceState::seq
  ring,       \* DeviceState::events: retained number -> size
  bytes,      \* DeviceState::event_bytes
  matching,   \* numbers of this run's events that match the pattern
  pc,         \* where each reader's request is
  cursor,     \* the cursor of the request, or of the reader between two
  late,       \* readers whose deadline has passed
  listening,  \* long polls registered with the device's Notify
  woken,      \* long polls a notification has reached since they registered
  out,        \* events a stream has fetched and not yet yielded
  match,      \* the event a wait was answered with, or 0
  from,       \* where each reader's present account starts
  heard       \* the events each reader was given since then

logVars == <<epoch, seq, ring, bytes, matching>>
readerVars == <<pc, cursor, late, listening, woken, out, match, from, heard>>
vars == <<running, logVars, readerVars>>

Start == [epoch |-> 1, after |-> 0]

Init ==
  /\ running = TRUE
  /\ epoch = 1 /\ seq = 0 /\ ring = [n \in {} |-> 0] /\ bytes = 0 /\ matching = {}
  /\ pc = [r \in Readers |-> "idle"]
  /\ cursor = [r \in Readers |-> Start]
  /\ from = [r \in Readers |-> Start]
  /\ late = {} /\ listening = {} /\ woken = {}
  /\ out = [r \in Readers |-> <<>>]
  /\ match = [r \in Readers |-> 0]
  /\ heard = [r \in Readers |-> <<>>]

-----------------------------------------------------------------------------
(* emit. *)

(* The sizes of the events up to number last, added up.                     *)
Total(sizes, last) ==
  LET upto[n \in 0 .. last] ==
        IF n = 0 THEN 0 ELSE upto[n - 1] + (IF n \in DOMAIN sizes THEN sizes[n] ELSE 0)
  IN upto[last]

Before(sizes, first) == [n \in {n \in DOMAIN sizes : n < first} |-> sizes[n]]
Onward(sizes, first) == [n \in {n \in DOMAIN sizes : n >= first} |-> sizes[n]]

\* Mutant: only what is evicted changes the count.
CountedWithoutNew(grown, first) == bytes - Total(Before(grown, first), seq + 1)

(* event_bytes with the new event counted and the ones before first popped. *)
Counted(grown, first) == bytes + grown[seq + 1] - Total(Before(grown, first), seq + 1)

(* The oldest events go until both limits hold.                             *)
First(grown) ==
  Min({first \in DOMAIN grown \cup {seq + 2} :
        /\ Cardinality(DOMAIN Onward(grown, first)) <= MaxEvents
        /\ Counted(grown, first) <= MaxBytes})

(* notify_waiters reaches the pollers registered now, and no other.         *)
Emit(size, matches) ==
  LET grown == [n \in DOMAIN ring \cup {seq + 1} |-> IF n = seq + 1 THEN size ELSE ring[n]]
      first == First(grown)
  IN /\ seq < MaxSeq
     /\ seq' = seq + 1
     /\ ring' = Onward(grown, first)
     /\ bytes' = Counted(grown, first)
     /\ matching' = IF matches THEN matching \cup {seq + 1} ELSE matching
     /\ woken' = woken \cup listening
     /\ UNCHANGED <<running, epoch, pc, cursor, late, listening, out, match, from, heard>>

-----------------------------------------------------------------------------
(* events_after. *)

\* Mutant: a cursor of an earlier run of the daemon is served.
RestartedNever(c) == FALSE

Restarted(c) == c.epoch # epoch

Ahead(c) == c.after > seq

\* Mutant: the first evicted event is not missed.
EvictedOffByOne(c) == DOMAIN ring # {} /\ c.after + 2 < Min(DOMAIN ring)

Evicted(c) == DOMAIN ring # {} /\ c.after + 1 < Min(DOMAIN ring)

Refused(c) == Restarted(c) \/ Ahead(c) \/ Evicted(c)

\* Mutant: the event right behind the cursor is left out.
AfterSkipsOne(c) == {n \in DOMAIN ring : n > c.after + 1}

After(c) == {n \in DOMAIN ring : n > c.after}

(* The events of a batch, oldest first, as a reader remembers them.         *)
Batch(c) ==
  LET first == Min(After(c)) IN
  IF After(c) = {} THEN <<>>
  ELSE [i \in 1 .. Cardinality(After(c)) |-> [epoch |-> epoch, seq |-> first + i - 1]]

Now == [epoch |-> epoch, after |-> seq]

Goto(r, p) == pc' = [pc EXCEPT ![r] = p]

(* The reader is given a batch and the cursor behind it.                    *)
Given(r) ==
  /\ heard' = [heard EXCEPT ![r] = @ \o Batch(cursor[r])]
  /\ cursor' = [cursor EXCEPT ![r] = Now]

(* An error ends the request; the reader asks for the present cursor.       *)
Lost(r) ==
  /\ Refused(cursor[r])
  /\ Goto(r, "resync")
  /\ listening' = listening \ {r}
  /\ woken' = woken \ {r}
  /\ UNCHANGED <<running, logVars, cursor, late, out, match, from, heard>>

Resync(r) ==
  /\ pc[r] = "resync"
  /\ running
  /\ Goto(r, "idle")
  /\ cursor' = [cursor EXCEPT ![r] = Now]
  /\ from' = [from EXCEPT ![r] = Now]
  /\ heard' = [heard EXCEPT ![r] = <<>>]
  /\ UNCHANGED <<running, logVars, late, listening, woken, out, match>>

(* A long poll, a stream or a wait begins, with a new deadline.             *)
Ask(r) ==
  /\ pc[r] = "idle"
  /\ running
  /\ \E request \in {"poll", "stream", "scan"} : Goto(r, request)
  /\ late' = late \ {r}
  /\ UNCHANGED <<running, logVars, cursor, listening, woken, out, match, from, heard>>

DeadlinePasses(r) ==
  /\ pc[r] \notin {"idle", "resync", "open"}
  /\ late' = late \cup {r}
  /\ UNCHANGED <<running, logVars, pc, cursor, listening, woken, out, match, from, heard>>

-----------------------------------------------------------------------------
(* The long poll. *)

\* Mutant: the poller is registered only when it goes to sleep.
PollRegistersLate(r) ==
  /\ pc[r] = "poll"
  /\ Goto(r, "registered")
  /\ UNCHANGED <<running, logVars, cursor, late, listening, woken, out, match, from, heard>>

(* enable: registered before the ring is looked at.                         *)
PollRegisters(r) ==
  /\ pc[r] = "poll"
  /\ Goto(r, "registered")
  /\ listening' = listening \cup {r}
  /\ woken' = woken \ {r}
  /\ UNCHANGED <<running, logVars, cursor, late, out, match, from, heard>>

PollLost(r) == pc[r] = "registered" /\ Lost(r)

\* Mutant: a poll past its deadline goes on waiting for an event.
PollAnswersEvents(r) ==
  /\ pc[r] = "registered"
  /\ ~Refused(cursor[r])
  /\ After(cursor[r]) # {} \/ ~running
  /\ Given(r)
  /\ Goto(r, "idle")
  /\ listening' = listening \ {r}
  /\ woken' = woken \ {r}
  /\ UNCHANGED <<running, logVars, late, out, match, from>>

(* Something to give, or no time left, or the daemon is stopping.           *)
PollAnswers(r) ==
  /\ pc[r] = "registered"
  /\ ~Refused(cursor[r])
  /\ After(cursor[r]) # {} \/ r \in late \/ ~running
  /\ Given(r)
  /\ Goto(r, "idle")
  /\ listening' = listening \ {r}
  /\ woken' = woken \ {r}
  /\ UNCHANGED <<running, logVars, late, out, match, from>>

PollSleeps(r) ==
  /\ pc[r] = "registered"
  /\ ~Refused(cursor[r])
  /\ After(cursor[r]) = {} /\ r \notin late /\ running
  /\ Goto(r, "asleep")
  /\ UNCHANGED <<running, logVars, cursor, late, listening, woken, out, match, from, heard>>

(* The await ends with a notification or at the deadline.                   *)
PollWakes(r) ==
  /\ pc[r] = "asleep"
  /\ r \in woken \/ r \in late
  /\ Goto(r, "poll")
  /\ listening' = listening \ {r}
  /\ UNCHANGED <<running, logVars, cursor, late, woken, out, match, from, heard>>

Poll(r) ==
  \/ PollRegisters(r)
  \/ PollLost(r)
  \/ PollAnswers(r)
  \/ PollSleeps(r)
  \/ PollWakes(r)

-----------------------------------------------------------------------------
(* Server-sent events.  The handler's own cursor moves with what it has     *)
(* fetched; the client's place is the last event it was sent.               *)

Place(r) ==
  IF heard[r] = <<>> THEN from[r]
  ELSE [epoch |-> Last(heard[r]).epoch, after |-> Last(heard[r]).seq]

StreamOpens(r) ==
  /\ pc[r] = "stream"
  /\ ~Refused(cursor[r])
  /\ Goto(r, "open")
  /\ UNCHANGED <<running, logVars, cursor, late, listening, woken, out, match, from, heard>>

StreamRefused(r) == pc[r] = "stream" /\ Lost(r)

StreamFetches(r) ==
  /\ pc[r] = "open" /\ out[r] = <<>>
  /\ running
  /\ ~Refused(cursor[r])
  /\ out' = [out EXCEPT ![r] = Batch(cursor[r])]
  /\ cursor' = [cursor EXCEPT ![r] = Now]
  /\ UNCHANGED <<running, logVars, pc, late, listening, woken, match, from, heard>>

StreamYields(r) ==
  /\ pc[r] = "open" /\ out[r] # <<>>
  /\ heard' = [heard EXCEPT ![r] = Append(@, Head(out[r]))]
  /\ out' = [out EXCEPT ![r] = Tail(@)]
  /\ UNCHANGED <<running, logVars, pc, cursor, late, listening, woken, match, from>>

(* The ring has overtaken the stream: a gap event, and the end.             *)
StreamGap(r) == pc[r] = "open" /\ out[r] = <<>> /\ running /\ Lost(r)

(* The connection drops, or the daemon stops between two batches.  The      *)
(* client will ask again from its own place.                                *)
StreamEnds(r) ==
  /\ pc[r] = "open"
  /\ Goto(r, "idle")
  /\ out' = [out EXCEPT ![r] = <<>>]
  /\ cursor' = [cursor EXCEPT ![r] = Place(r)]
  /\ UNCHANGED <<running, logVars, late, listening, woken, match, from, heard>>

Stream(r) ==
  \/ StreamOpens(r)
  \/ StreamRefused(r)
  \/ StreamFetches(r)
  \/ StreamYields(r)
  \/ StreamGap(r)

-----------------------------------------------------------------------------
(* wait: scan the log for a line, every 20 ms until the deadline.           *)

WaitStopped(r) ==
  /\ pc[r] = "scan"
  /\ ~running
  /\ Goto(r, "idle")
  /\ cursor' = [cursor EXCEPT ![r] = Place(r)]
  /\ UNCHANGED <<running, logVars, late, listening, woken, out, match, from, heard>>

WaitLost(r) == pc[r] = "scan" /\ running /\ Lost(r)

WaitMatches(r) ==
  /\ pc[r] = "scan"
  /\ running
  /\ ~Refused(cursor[r])
  /\ After(cursor[r]) \cap matching # {}
  /\ match' = [match EXCEPT ![r] = Min(After(cursor[r]) \cap matching)]
  /\ Goto(r, "answered")
  /\ UNCHANGED <<running, logVars, cursor, late, listening, woken, out, from, heard>>

(* No match: the events just scanned are not looked at again.               *)
WaitMoves(r) ==
  /\ pc[r] = "scan"
  /\ running
  /\ ~Refused(cursor[r])
  /\ After(cursor[r]) \cap matching = {}
  /\ cursor' = [cursor EXCEPT ![r] = Now]
  /\ Goto(r, IF r \in late THEN "timeout" ELSE "pause")
  /\ UNCHANGED <<running, logVars, late, listening, woken, out, match, from, heard>>

WaitRescans(r) ==
  /\ pc[r] = "pause"
  /\ Goto(r, "scan")
  /\ UNCHANGED <<running, logVars, cursor, late, listening, woken, out, match, from, heard>>

(* The client goes on behind the line it found, or where the scan ended.    *)
WaitReturns(r) ==
  /\ pc[r] \in {"answered", "timeout"}
  /\ LET next == IF pc[r] = "timeout" THEN cursor[r]
                 ELSE [cursor[r] EXCEPT !.after = match[r]]
     IN cursor' = [cursor EXCEPT ![r] = next] /\ from' = [from EXCEPT ![r] = next]
  /\ match' = [match EXCEPT ![r] = 0]
  /\ heard' = [heard EXCEPT ![r] = <<>>]
  /\ Goto(r, "idle")
  /\ UNCHANGED <<running, logVars, late, listening, woken, out>>

Wait(r) ==
  \/ WaitStopped(r)
  \/ WaitLost(r)
  \/ WaitMatches(r)
  \/ WaitMoves(r)
  \/ WaitRescans(r)
  \/ WaitReturns(r)

-----------------------------------------------------------------------------
(* The daemon stops; a new one has a new epoch and an empty log, and every  *)
(* request to the old one is gone.                                          *)

Shutdown ==
  /\ running
  /\ running' = FALSE
  /\ UNCHANGED <<logVars, readerVars>>

Restart ==
  /\ epoch < MaxEpoch
  /\ running' = TRUE
  /\ epoch' = epoch + 1
  /\ seq' = 0 /\ ring' = [n \in {} |-> 0] /\ bytes' = 0 /\ matching' = {}
  /\ pc' = [r \in Readers |-> IF pc[r] = "resync" THEN "resync" ELSE "idle"]
  /\ cursor' = [r \in Readers |-> Place(r)]
  /\ listening' = {} /\ woken' = {}
  /\ out' = [r \in Readers |-> <<>>]
  /\ match' = [r \in Readers |-> 0]
  /\ UNCHANGED <<late, from, heard>>

Next ==
  \/ \E size \in Sizes, matches \in BOOLEAN : Emit(size, matches)
  \/ \E r \in Readers :
       \/ Ask(r)
       \/ Poll(r)
       \/ Stream(r)
       \/ StreamEnds(r)
       \/ Wait(r)
       \/ Resync(r)
       \/ DeadlinePasses(r)
  \/ Shutdown
  \/ Restart

Spec == Init /\ [][Next]_vars

(* Handlers are scheduled and their time passes.  Nobody has to ask, and    *)
(* nothing has to be emitted.                                               *)
Fairness ==
  /\ \A r \in Readers :
       WF_vars(Poll(r)) /\ WF_vars(Stream(r)) /\ WF_vars(Wait(r)) /\ WF_vars(DeadlinePasses(r))

FairSpec == Spec /\ Fairness

-----------------------------------------------------------------------------
(* The ring holds the newest events without a hole, within both limits, and *)
(* the running byte count is theirs: evictions never drift it.              *)
RingFits ==
  /\ bytes = Total(ring, seq)
  /\ bytes <= MaxBytes
  /\ Cardinality(DOMAIN ring) <= MaxEvents
  /\ seq > 0 => DOMAIN ring = Min(DOMAIN ring) .. seq

(* A reader that keeps polling or streaming hears every event after the     *)
(* cursor it started from exactly once and in order, across batches,        *)
(* dropped connections and evictions, or is told that it cannot; events of  *)
(* two runs of the daemon are never mixed.                                  *)
HeardInOrder ==
  \A r \in Readers :
    heard[r] = [i \in 1 .. Len(heard[r]) |->
                 [epoch |-> from[r].epoch, seq |-> from[r].after + i]]

(* No publication falls between a poller's empty look at the ring and its   *)
(* sleep: a sleeping poller with something to hear has been woken.          *)
NoLostWakeup ==
  \A r \in Readers :
    pc[r] = "asleep" /\ After(cursor[r]) # {} => r \in woken

(* A wait that is answered got the first matching line after its cursor,    *)
(* and one that timed out had none: no line slips through between scans,    *)
(* whatever was evicted meanwhile.                                          *)
WaitIsExact ==
  \A r \in Readers :
    LET missed == {n \in matching : Place(r).after < n} IN
    /\ pc[r] = "answered" => Place(r).epoch = epoch /\ missed # {} /\ match[r] = Min(missed)
    /\ pc[r] = "timeout" =>
         Place(r).epoch = epoch /\ \A n \in missed : n > cursor[r].after

(* A long poll is answered by its deadline at the latest, and a wait ends.  *)
RequestsEnd ==
  \A r \in Readers :
    pc[r] \notin {"idle", "resync", "open"} ~> pc[r] \in {"idle", "resync", "open"}

(* A stream that stays connected catches up with every event.               *)
StreamsFollow ==
  \A r \in Readers : \A n \in 1 .. MaxSeq :
    pc[r] = "open" /\ seq >= n ~>
      \/ pc[r] # "open" \/ ~running
      \/ from[r].after + Len(heard[r]) >= n
=============================================================================
