--------------------------- MODULE DeviceRegistry ---------------------------
(***************************************************************************)
(* Which devices the daemon knows, where they are and what it says of      *)
(* them: the desktop registry (src/src/backend/espflash.rs) that matches   *)
(* scans of the serial ports with the boards it has seen, the discovery    *)
(* thread that copies its records to the service, and the callers that     *)
(* refresh one device (src/src/server.rs).                                 *)
(*                                                                         *)
(* Boards come and go at any time.  The registry is under one lock, the    *)
(* service's device map and its store under two others, so that what was   *)
(* scanned is recorded, listed and published in separate steps.            *)
(***************************************************************************)
EXTENDS Naturals, Sequences, FiniteSets, Functions

CONSTANTS
  Ports,       \* addresses: [group, kind], the kind of a macOS alias or "plain"
  Order,       \* the groups of addresses in the order of their keys
  Identities,  \* what a scan can tell of a board: [key, product, strong, usb]
  NoBoard,     \* nothing at a port
  Plugged,     \* what may be behind the ports when the daemon starts
  Configured,  \* the addresses of serve --port; {} discovers
  Callers,     \* callers that refresh a device
  MaxDevices,  \* MAX_DISCOVERED_DEVICES and MAX_MANAGED_DEVICES
  MaxChanges,  \* bound on boards that come or go, for model checking only
  MaxFailures  \* bound on threads that cannot be spawned, for model checking only

(* All addresses are of one operating system, which has aliases or has not; *)
(* the aliases of a group are names of one board.                           *)
ASSUME RegistryAssumption ==
  /\ \A p \in Ports : p.kind \in {"callout", "dialin", "plain"}
  /\ \A p, q \in Ports : p.kind = "plain" <=> q.kind = "plain"
  /\ Order \in Seq({p.group : p \in Ports}) /\ \A p \in Ports : \E n \in 1..Len(Order) : Order[n] = p.group
  /\ \A i \in Identities : i.strong \in BOOLEAN /\ i.usb \in BOOLEAN /\ (i.strong => i.usb)
  /\ NoBoard \notin Identities
  /\ Configured \subseteq Ports
  /\ Plugged \subseteq [Ports -> Identities \cup {NoBoard}]
  /\ \A w \in Plugged : \A p, q \in Ports :
       p.group = q.group /\ w[p] # NoBoard /\ w[q] # NoBoard => w[p] = w[q]
  /\ MaxDevices \in Nat \ {0} /\ MaxChanges \in Nat /\ MaxFailures \in Nat

VARIABLES
  wired,     \* the board behind each port
  records,   \* EspflashBackend::records
  runtimes,  \* Service::devices: the availability in each descriptor
  statuses,  \* DeviceState::status: the availability in the store
  workers,   \* devices whose worker was spawned, each time it was
  found,     \* what the discovery thread has yet to publish
  thread,    \* where it is
  calls,     \* where each refresh is, and what it brings
  changes, failures

vars == <<wired, records, runtimes, statuses, workers, found, thread, calls, changes, failures>>

Groups == {p.group : p \in Ports}

(* The digest of vendor, product number, serial and address.                *)
Id(identity, port) == <<identity.key, port>>
Ids == {Id(i, p) : i \in Identities, p \in Ports}

NoCall == [pc |-> "idle", id |-> <<>>, avail |-> "none"]

-----------------------------------------------------------------------------
(* A scan, and what a record makes of it. *)

Present == {p \in Ports : wired[p] # NoBoard}

(* is_strong_match. *)
Matches(left, right) == left.strong /\ left = right

(* The places, aliases counted once, where the record's board may be.       *)
GroupsOf(record) == {p.group : p \in {q \in Present : Matches(record.identity, wired[q])}}

(* select_locator_alias: an alias of the category in use, or the only port. *)
Alias(record, group) ==
  LET candidates == {p \in Present : p.group = group /\ Matches(record.identity, wired[p])}
  IN IF record.port.kind = "plain"
     THEN IF Cardinality(candidates) = 1 THEN candidates ELSE {}
     ELSE {p \in candidates : p.kind = record.port.kind}

Said(record, availability) == [record EXCEPT !.avail = availability]

Adopted(record, port) ==
  [record EXCEPT !.port = port, !.avail = "available", !.generation = @ + 1]

\* Mutant: a board seen elsewhere is followed although it is there twice.
ReconcileEagerly(record) ==
  LET taken == record.port \in Present
      own == taken /\ wired[record.port] = record.identity
      aliases == UNION {Alias(record, g) : g \in GroupsOf(record)}
  IN CASE taken /\ ~own -> Said(record, "mismatch")
       [] own -> Said(record, "available")
       [] ~taken /\ aliases = {} -> Said(record, "disconnected")
       [] ~taken /\ aliases # {} -> Adopted(record, CHOOSE p \in aliases : TRUE)

(* reconcile_record: a record keeps its port while its board is there, and  *)
(* follows a strong identity to the one place it is at.                     *)
Reconcile(record) ==
  LET taken == record.port \in Present
      own == taken /\ wired[record.port] = record.identity
      twice == Cardinality(GroupsOf(record)) > 1
      aliases == UNION {Alias(record, g) : g \in GroupsOf(record)}
  IN CASE taken /\ ~own -> Said(record, "mismatch")
       [] own /\ ~twice -> Said(record, "available")
       [] (taken => own) /\ twice -> Said(record, "ambiguous")
       [] ~taken /\ ~twice /\ aliases = {} -> Said(record, "disconnected")
       [] ~taken /\ ~twice /\ aliases # {} -> Adopted(record, CHOOSE p \in aliases : TRUE)

ReconcileAll(known) == [id \in DOMAIN known |-> Reconcile(known[id])]

Claimed(port) ==
  [identity |-> wired[port], port |-> port, avail |-> "available", generation |-> 0]

-----------------------------------------------------------------------------
(* Discovery in the registry. *)

(* The USB port that stands for its group: a callout alias before others.   *)
Candidate(group) ==
  LET usb == {p \in Present : p.group = group /\ wired[p].usb}
      callout == {p \in usb : p.kind = "callout"}
  IN CASE callout # {} -> {CHOOSE p \in callout : TRUE}
       [] callout = {} /\ usb # {} -> {CHOOSE p \in usb : TRUE}
       [] OTHER -> {}

\* Mutant: only an equal identity at the same place is known.
RepresentedHere(known, port) ==
  \E id \in DOMAIN known :
    known[id].identity = wired[port] /\ known[id].port.group = port.group

Represented(known, port) ==
  \E id \in DOMAIN known :
    \/ known[id].identity = wired[port] /\ known[id].port.group = port.group
    \/ Matches(known[id].identity, wired[port])

Room(known) == Cardinality(DOMAIN known) < MaxDevices

(* The ports of one group give at most one new record.                      *)
Inserted(known, group) ==
  LET new == {p \in Candidate(group) : /\ Room(known) /\ ~Represented(known, p)
                                       /\ Id(wired[p], p) \notin DOMAIN known}
  IN [id \in DOMAIN known \cup {Id(wired[p], p) : p \in new} |->
        IF id \in DOMAIN known THEN known[id] ELSE Claimed(id[2])]

(* discover_from_scan: known boards first, then new groups in the order of  *)
(* their names, then all again, so that a duplicate is ambiguous at once.   *)
Discovered ==
  LET Upto[n \in 0..Len(Order)] ==
        IF n = 0 THEN ReconcileAll(records) ELSE Inserted(Upto[n - 1], Order[n])
  IN ReconcileAll(Upto[Len(Order)])

-----------------------------------------------------------------------------
(* devices_for_addresses: every address present, none twice, no ID twice.   *)
Configures ==
  /\ Configured \subseteq Present
  /\ \A p, q \in Configured : p # q => p.group # q.group /\ Id(wired[p], p) # Id(wired[q], q)

Availabilities(known) == [id \in DOMAIN known |-> known[id].avail]

Nothing == [id \in {} |-> "none"]

Init ==
  /\ wired \in Plugged
  /\ Configures
  /\ records = [id \in {Id(wired[p], p) : p \in Configured} |-> Claimed(id[2])]
  /\ runtimes = Availabilities(records)
  /\ statuses = Availabilities(records)
  /\ workers = [id \in DOMAIN records |-> 1]
  /\ found = Nothing
  /\ thread = "idle"
  /\ calls = [c \in Callers |-> NoCall]
  /\ changes = 0 /\ failures = 0

(* A board comes, goes or is replaced between two scans, with any of the    *)
(* ports of its group.                                                      *)
Rewire ==
  /\ changes < MaxChanges
  /\ \E group \in Groups, i \in Identities :
       \E up \in SUBSET {p \in Ports : p.group = group} :
         wired' = [p \in Ports |-> IF p.group # group THEN wired[p]
                                   ELSE IF p \in up THEN i ELSE NoBoard]
  /\ wired' # wired
  /\ changes' = changes + 1
  /\ UNCHANGED <<records, runtimes, statuses, workers, found, thread, calls, failures>>

-----------------------------------------------------------------------------
(* The discovery thread. *)

(* EspflashBackend::devices: scan, reconcile and list under one lock.       *)
Scan ==
  /\ Configured = {} /\ thread = "idle"
  /\ records' = Discovered
  /\ found' = Availabilities(records')
  /\ thread' = "listed"
  /\ UNCHANGED <<wired, runtimes, statuses, workers, calls, changes, failures>>

(* sync_discovered, one device after the other.                             *)
Publishes(id) ==
  /\ thread = "listed" /\ id \in DOMAIN found
  /\ found' = RestrictDomain(found, LAMBDA other : other # id)

\* Mutant: the store is left as it was.
UpsertKnownPartly(id) ==
  /\ Publishes(id) /\ id \in DOMAIN runtimes
  /\ runtimes' = [runtimes EXCEPT ![id] = found[id]]
  /\ UNCHANGED <<wired, records, statuses, workers, thread, calls, changes, failures>>

UpsertKnown(id) ==
  /\ Publishes(id) /\ id \in DOMAIN runtimes
  /\ runtimes' = [runtimes EXCEPT ![id] = found[id]]
  /\ statuses' = [statuses EXCEPT ![id] = found[id]]
  /\ UNCHANGED <<wired, records, workers, thread, calls, changes, failures>>

With(f, id, value) == [i \in DOMAIN f \cup {id} |-> IF i = id THEN value ELSE f[i]]

MayManage == Cardinality(DOMAIN runtimes) < MaxDevices

UpsertNew(id) ==
  /\ Publishes(id) /\ id \notin DOMAIN runtimes /\ MayManage
  /\ runtimes' = With(runtimes, id, found[id])
  /\ statuses' = With(statuses, id, found[id])
  /\ workers' = With(workers, id, IF id \in DOMAIN workers THEN workers[id] + 1 ELSE 1)
  /\ UNCHANGED <<wired, records, thread, calls, changes, failures>>

\* Mutant: the device stays listed without its worker.
UpsertFailsListed(id) ==
  /\ thread = "listed" /\ id \in DOMAIN found /\ id \notin DOMAIN runtimes
  /\ failures < MaxFailures
  /\ failures' = failures + 1
  /\ runtimes' = With(runtimes, id, found[id])
  /\ statuses' = With(statuses, id, found[id])
  /\ thread' = "idle"
  /\ found' = Nothing
  /\ UNCHANGED <<wired, records, workers, calls, changes>>

(* There is no room, or the worker's thread cannot be spawned: the round    *)
(* ends there, the device unknown to the service.                           *)
UpsertFails(id) ==
  /\ thread = "listed" /\ id \in DOMAIN found /\ id \notin DOMAIN runtimes
  /\ MayManage => failures < MaxFailures
  /\ failures' = IF MayManage THEN failures + 1 ELSE failures
  /\ thread' = "idle"
  /\ found' = Nothing
  /\ UNCHANGED <<wired, records, runtimes, statuses, workers, calls, changes>>

(* All are published; the registry forgets no device, so none is missing.   *)
RoundEnds ==
  /\ thread = "listed" /\ DOMAIN found = {}
  /\ thread' = "idle"
  /\ UNCHANGED <<wired, records, runtimes, statuses, workers, found, calls, changes, failures>>

Discovery ==
  Scan \/ RoundEnds \/ \E id \in Ids : UpsertKnown(id) \/ UpsertNew(id) \/ UpsertFails(id)

-----------------------------------------------------------------------------
(* refresh_device_blocking. *)

Refresh(c) ==
  /\ calls[c].pc = "idle"
  /\ \E id \in DOMAIN runtimes :
       /\ records' = [records EXCEPT ![id] = Reconcile(@)]
       /\ calls' = [calls EXCEPT ![c] = [pc |-> "device", id |-> id, avail |-> records'[id].avail]]
  /\ UNCHANGED <<wired, runtimes, statuses, workers, found, thread, changes, failures>>

RefreshDevice(c) ==
  /\ calls[c].pc = "device"
  /\ runtimes' = [runtimes EXCEPT ![calls[c].id] = calls[c].avail]
  /\ calls' = [calls EXCEPT ![c].pc = "status"]
  /\ UNCHANGED <<wired, records, statuses, workers, found, thread, changes, failures>>

RefreshStatus(c) ==
  /\ calls[c].pc = "status"
  /\ statuses' = [statuses EXCEPT ![calls[c].id] = calls[c].avail]
  /\ calls' = [calls EXCEPT ![c] = NoCall]
  /\ UNCHANGED <<wired, records, runtimes, workers, found, thread, changes, failures>>

Finishes(c) == RefreshDevice(c) \/ RefreshStatus(c)

(* validated_record, by a worker that opens its port: nothing is published. *)
OpenValidates ==
  /\ \E id \in DOMAIN runtimes : records' = [records EXCEPT ![id] = Reconcile(@)]
  /\ UNCHANGED <<wired, runtimes, statuses, workers, found, thread, calls, changes, failures>>

Next == Rewire \/ Discovery \/ OpenValidates \/ \E c \in Callers : Refresh(c) \/ Finishes(c)

Spec == Init /\ [][Next]_vars

(* The discovery thread runs until shutdown, and a refresh that has begun   *)
(* ends; nobody has to ask for one.                                         *)
FairSpec == Spec /\ WF_vars(Discovery) /\ \A c \in Callers : WF_vars(Finishes(c))

-----------------------------------------------------------------------------
(* Properties. *)

(* Each device has one worker that owns its port: whatever is plugged in    *)
(* now, of two managed devices that open their ports (validated_record) at  *)
(* most one gets a port of a group, so that no two workers open one board.  *)
OneWorkerPerPort ==
  \A id \in DOMAIN runtimes : \A other \in DOMAIN runtimes \ {id} :
    LET mine == Reconcile(records[id])
        its == Reconcile(records[other])
    IN mine.avail = "available" /\ its.avail = "available" => mine.port.group # its.port.group

(* A device the API lists has a state in the store, that API calls and the  *)
(* worker take without asking, and exactly one worker that reads its queue, *)
(* also when some device could not get one.                                 *)
ListedHaveOneWorker ==
  /\ DOMAIN runtimes = DOMAIN statuses
  /\ DOMAIN runtimes = DOMAIN workers
  /\ \A id \in DOMAIN workers : workers[id] = 1

(* A record is moved only from a port that is gone, to the one place where  *)
(* its strong identity is, by a port of the category it used; nothing else  *)
(* changes what board a device ID stands for.                               *)
MigratesUnambiguously ==
  [][\A id \in DOMAIN records :
       /\ id \in DOMAIN records' /\ records'[id].identity = records[id].identity
       /\ records'[id].port # records[id].port =>
            LET to == records'[id].port
                seen == {p \in Present : wired[p] = records[id].identity}
            IN /\ records[id].identity.strong /\ records[id].port \notin Present
               /\ to \in seen /\ to.kind = records[id].port.kind
               /\ \A p \in seen : p.group = to.group]_vars

(* Descriptor and store are written under two locks by discovery and by any *)
(* number of refreshes, each with what its own scan saw.  Once the ports    *)
(* stay as they are, descriptor, store and registry agree for good, and the *)
(* registry has recorded and moved everything there is to.                  *)
StatusConverges ==
  <>[](/\ \A id \in DOMAIN records : records[id] = Reconcile(records[id])
       /\ \A group \in Groups : Inserted(records, group) = records
       /\ runtimes = Availabilities(records) /\ statuses = Availabilities(records))
=============================================================================
