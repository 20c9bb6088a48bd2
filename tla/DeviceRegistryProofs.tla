------------------------ MODULE DeviceRegistryProofs ------------------------
(***************************************************************************)
(* What holds of DeviceRegistry whatever is plugged in: the service's map, *)
(* its store and its threads speak of the same devices; no two devices     *)
(* stand for one board; and a device follows only its own board.           *)
(***************************************************************************)
EXTENDS DeviceRegistry, SequenceLemmas, FiniteSetTheorems, TLAPS

-----------------------------------------------------------------------------
(* Listed devices. *)

(* At the start, configured devices have a state and one worker each, and   *)
(* a discovering service has none.                                          *)
LEMMA WorkersStart == Init => ListedHaveOneWorker
BY DEF Init, ListedHaveOneWorker, Availabilities

(* upsert_discovered puts a device in both maps with its thread or in none; *)
(* no other step changes what devices there are.                            *)
LEMMA WorkersStep == ListedHaveOneWorker /\ [Next]_vars => ListedHaveOneWorker'
<1> SUFFICES ASSUME ListedHaveOneWorker, [Next]_vars PROVE ListedHaveOneWorker'
  OBVIOUS
<1>1. ASSUME NEW id \in Ids, UpsertNew(id) PROVE ListedHaveOneWorker'
  <2>1. id \notin DOMAIN workers
    BY <1>1 DEF UpsertNew, ListedHaveOneWorker
  <2>2. workers' = With(workers, id, 1)
    BY <1>1, <2>1 DEF UpsertNew
  <2>3. /\ DOMAIN runtimes' = DOMAIN runtimes \cup {id}
        /\ DOMAIN statuses' = DOMAIN statuses \cup {id}
    BY <1>1 DEF UpsertNew, With
  <2> QED BY <2>1, <2>2, <2>3 DEF ListedHaveOneWorker, With
<1>2. ASSUME NEW id \in Ids, UpsertKnown(id) PROVE ListedHaveOneWorker'
  BY <1>2 DEF UpsertKnown, ListedHaveOneWorker
<1>3. ASSUME NEW c \in Callers, Finishes(c) PROVE ListedHaveOneWorker'
  BY <1>3 DEF Finishes, RefreshDevice, RefreshStatus, ListedHaveOneWorker
<1>4. ASSUME UNCHANGED <<runtimes, statuses, workers>> PROVE ListedHaveOneWorker'
  BY <1>4 DEF ListedHaveOneWorker
<1>5. ASSUME NEW id \in Ids, UpsertFails(id) PROVE ListedHaveOneWorker'
  BY <1>4, <1>5 DEF UpsertFails
<1>6. ASSUME NEW c \in Callers, Refresh(c) PROVE ListedHaveOneWorker'
  BY <1>4, <1>6 DEF Refresh
<1>7. ASSUME Rewire \/ Scan \/ RoundEnds \/ OpenValidates \/ UNCHANGED vars PROVE ListedHaveOneWorker'
  BY <1>4, <1>7 DEF Rewire, Scan, RoundEnds, OpenValidates, vars
<1> QED BY <1>1, <1>2, <1>3, <1>5, <1>6, <1>7 DEF Next, Discovery

(* A listed device always has a state and exactly one worker, also after a  *)
(* thread could not be spawned.                                             *)
THEOREM ListedAreServed == Spec => []ListedHaveOneWorker
BY WorkersStart, WorkersStep, PTL DEF Spec

-----------------------------------------------------------------------------
(* What a scan makes of a record. *)

Record ==
  [identity : Identities, port : Ports, generation : Nat,
   avail : {"available", "mismatch", "ambiguous", "disconnected"}]

(* The aliases of a group are names of one board.                           *)
Wired ==
  /\ wired \in [Ports -> Identities \cup {NoBoard}]
  /\ \A p, q \in Present : p.group = q.group => wired[p] = wired[q]

Seen(identity) == {p \in Present : wired[p] = identity}

(* The record has moved to the only place where its strong identity is.     *)
Moved(from, to) ==
  /\ from.identity.strong /\ from.port \notin Present
  /\ to.port \in Seen(from.identity) /\ to.port.kind = from.port.kind
  /\ \A p \in Seen(from.identity) : p.group = to.port.group

(* A scan leaves a record what it was, at its port or moved, and says of it *)
(* that it is available only if its board is there.                         *)
Kept(from, to) ==
  /\ to \in Record
  /\ to.identity = from.identity
  /\ to.port # from.port => Moved(from, to)

There(record) == record.avail = "available" => record.port \in Seen(record.identity)

LEMMA SaidIs ==
  ASSUME NEW x \in Record, NEW a \in {"available", "mismatch", "ambiguous", "disconnected"}
  PROVE  /\ Said(x, a) \in Record /\ Said(x, a).identity = x.identity
         /\ Said(x, a).port = x.port /\ Said(x, a).avail = a
BY DEF Said, Record

LEMMA AdoptedIs ==
  ASSUME NEW x \in Record, NEW p \in Ports
  PROVE  /\ Adopted(x, p) \in Record /\ Adopted(x, p).identity = x.identity
         /\ Adopted(x, p).port = p /\ Adopted(x, p).avail = "available"
<1>1. PICK n \in Nat : n = x.generation
  BY DEF Record
<1>2. Adopted(x, p) = [x EXCEPT !.port = p, !.avail = "available", !.generation = n + 1]
  BY <1>1 DEF Adopted
<1>3. PICK y : y = [x EXCEPT !.port = p]
  OBVIOUS
<1>4. y \in Record /\ y.identity = x.identity /\ y.port = p
  BY <1>3 DEF Record
<1>5. PICK z : z = [y EXCEPT !.avail = "available"]
  OBVIOUS
<1>6. z \in Record /\ z.identity = x.identity /\ z.port = p /\ z.avail = "available"
  BY <1>4, <1>5 DEF Record
<1>7. PICK w : w = [z EXCEPT !.generation = n + 1]
  OBVIOUS
<1>8. w \in Record /\ w.identity = x.identity /\ w.port = p /\ w.avail = "available"
  BY <1>6, <1>7 DEF Record
<1>9. Adopted(x, p) = w
  BY <1>2, <1>3, <1>5, <1>7
<1> QED BY <1>8, <1>9

(* A finite set without two elements.                                       *)
LEMMA AtMostOne ==
  ASSUME NEW S, IsFiniteSet(S), ~(Cardinality(S) > 1), NEW a \in S, NEW b \in S
  PROVE  a = b
<1> SUFFICES ASSUME a # b PROVE FALSE
  OBVIOUS
<1>1. IsFiniteSet({a}) /\ Cardinality({a}) = 1
  BY FS_Singleton
<1>2. Cardinality({a} \cup {b}) = 2
  BY <1>1, FS_AddElement
<1>3. Cardinality({a} \cup {b}) <= Cardinality(S)
  BY FS_Subset
<1>4. Cardinality(S) \in Nat
  BY FS_CardinalityType
<1> QED BY <1>2, <1>3, <1>4

LEMMA GroupsAreFinite == IsFiniteSet(Groups)
<1>1. PICK last \in Nat : last = Len(Order) /\ Order \in [1 .. last -> Groups]
  BY RegistryAssumption DEF Groups
<1>2. \A g \in Groups : \E n \in 1 .. last : Order[n] = g
  BY <1>1, RegistryAssumption DEF Groups
<1>3. Order \in Surjection(1 .. last, Groups)
  BY <1>1, <1>2 DEF Surjection
<1>4. IsFiniteSet(1 .. last)
  BY FS_Interval
<1> QED BY <1>3, <1>4, FS_Surjection

LEMMA OnePlace ==
  ASSUME NEW x \in Record, ~(Cardinality(GroupsOf(x)) > 1),
         NEW p \in Present, NEW q \in Present, Matches(x.identity, wired[p]), Matches(x.identity, wired[q])
  PROVE  p.group = q.group
<1>1. GroupsOf(x) \subseteq Groups
  BY DEF GroupsOf, Groups, Present
<1>2. IsFiniteSet(GroupsOf(x))
  BY <1>1, GroupsAreFinite, FS_Subset
<1>3. p.group \in GroupsOf(x) /\ q.group \in GroupsOf(x)
  BY DEF GroupsOf
<1> QED BY <1>2, <1>3, AtMostOne

LEMMA AliasesAre ==
  ASSUME NEW x \in Record, NEW p \in UNION {Alias(x, g) : g \in GroupsOf(x)}
  PROVE  p \in Present /\ Matches(x.identity, wired[p]) /\ p.kind = x.port.kind
<1>1. PICK g \in GroupsOf(x) : p \in Alias(x, g)
  OBVIOUS
<1>2. p \in Present /\ Matches(x.identity, wired[p])
  BY <1>1 DEF Alias
<1>3. p \in Ports /\ x.port \in Ports
  BY <1>2 DEF Present, Record
<1>4. CASE x.port.kind = "plain"
  BY <1>2, <1>3, <1>4, RegistryAssumption
<1>5. CASE x.port.kind # "plain"
  BY <1>1, <1>5 DEF Alias
<1> QED BY <1>2, <1>4, <1>5

(* reconcile_record.                                                        *)
LEMMA ReconcileKeeps ==
  ASSUME NEW x \in Record
  PROVE  Kept(x, Reconcile(x)) /\ There(Reconcile(x))
<1> DEFINE taken == x.port \in Present
           own == taken /\ wired[x.port] = x.identity
           twice == Cardinality(GroupsOf(x)) > 1
           aliases == UNION {Alias(x, g) : g \in GroupsOf(x)}
<1>1. CASE taken /\ ~own
  <2>1. Reconcile(x) = Said(x, "mismatch")
    BY <1>1 DEF Reconcile
  <2> QED BY <2>1, SaidIs DEF There, Kept
<1>2. CASE own /\ ~twice
  <2>1. Reconcile(x) = Said(x, "available")
    BY <1>2 DEF Reconcile
  <2> QED BY <1>2, <2>1, SaidIs DEF There, Kept, Seen
<1>3. CASE (taken => own) /\ twice
  <2>1. Reconcile(x) = Said(x, "ambiguous")
    BY <1>3 DEF Reconcile
  <2> QED BY <2>1, SaidIs DEF There, Kept
<1>4. CASE ~taken /\ ~twice /\ aliases = {}
  <2>1. Reconcile(x) = Said(x, "disconnected")
    BY <1>4 DEF Reconcile
  <2> QED BY <2>1, SaidIs DEF There, Kept
<1>5. CASE ~taken /\ ~twice /\ aliases # {}
  <2>1. PICK p : p = CHOOSE q \in aliases : TRUE
    OBVIOUS
  <2>2. Reconcile(x) = Adopted(x, p)
    BY <1>5, <2>1 DEF Reconcile
  <2>3. p \in aliases
    BY <1>5, <2>1
  <2>4. p \in Present /\ Matches(x.identity, wired[p]) /\ p.kind = x.port.kind
    BY <2>3, AliasesAre
  <2>5. p \in Ports /\ x.identity.strong /\ wired[p] = x.identity
    BY <2>4 DEF Present, Matches
  <2>6. \A q \in Seen(x.identity) : q.group = p.group
    <3>1. \A q \in Seen(x.identity) : q \in Present /\ Matches(x.identity, wired[q])
      BY <2>5 DEF Seen, Matches
    <3> QED BY <1>5, <2>4, <3>1, OnePlace
  <2>7. Reconcile(x) \in Record /\ Reconcile(x).identity = x.identity /\ Reconcile(x).port = p
    BY <2>2, <2>5, AdoptedIs
  <2> QED BY <1>5, <2>4, <2>5, <2>6, <2>7 DEF There, Kept, Moved, Seen
<1> QED BY <1>1, <1>2, <1>3, <1>4, <1>5

(* Twice in one scan is as good as once: a board that was just found is     *)
(* there.                                                                   *)
LEMMA KeptTwice ==
  ASSUME NEW x \in Record, NEW y, NEW z, Kept(x, y), Kept(y, z)
  PROVE  Kept(x, z)
<1>1. CASE y.port = x.port
  BY <1>1 DEF Kept, Moved
<1>2. CASE y.port # x.port
  <2>1. y.port \in Present
    BY <1>2 DEF Kept, Moved, Seen
  <2>2. z.port = y.port
    BY <2>1 DEF Kept, Moved
  <2> QED BY <1>2, <2>2 DEF Kept, Moved
<1> QED BY <1>1, <1>2

-----------------------------------------------------------------------------
(* The registry. *)

Registries == UNION {[D -> Record] : D \in SUBSET Ids}

(* No two records are of one board: of those that look alike none has a     *)
(* strong identity, and they are at different places.                       *)
Apart(known) ==
  \A id \in DOMAIN known : \A other \in DOMAIN known \ {id} :
    known[id].identity = known[other].identity =>
      /\ ~known[id].identity.strong
      /\ known[id].port.group # known[other].port.group

KeptAll(known, after) ==
  /\ after \in Registries
  /\ DOMAIN known \subseteq DOMAIN after
  /\ \A id \in DOMAIN known : Kept(known[id], after[id])

LEMMA RegistryIs ==
  ASSUME NEW known
  PROVE  known \in Registries <=>
           /\ known = [id \in DOMAIN known |-> known[id]]
           /\ DOMAIN known \subseteq Ids /\ \A id \in DOMAIN known : known[id] \in Record
<1>1. ASSUME known \in Registries
      PROVE  /\ known = [id \in DOMAIN known |-> known[id]]
             /\ DOMAIN known \subseteq Ids /\ \A id \in DOMAIN known : known[id] \in Record
  <2>1. PICK D \in SUBSET Ids : known \in [D -> Record]
    BY <1>1 DEF Registries
  <2> QED BY <2>1
<1>2. ASSUME known = [id \in DOMAIN known |-> known[id]],
             DOMAIN known \subseteq Ids, \A id \in DOMAIN known : known[id] \in Record
      PROVE  known \in Registries
  <2>1. PICK D \in SUBSET Ids : D = DOMAIN known
    BY <1>2
  <2>2. known \in [D -> Record]
    BY <1>2, <2>1
  <2> QED BY <2>2 DEF Registries
<1> QED BY <1>1, <1>2

(* A board that looks like another stays where it is: it cannot be followed.*)
LEMMA ApartKept ==
  ASSUME NEW known, NEW after, Apart(known), KeptAll(known, after), DOMAIN after = DOMAIN known
  PROVE  Apart(after)
<1>1. ASSUME NEW id \in DOMAIN known, NEW other \in DOMAIN known \ {id},
             after[id].identity = after[other].identity
      PROVE  ~after[id].identity.strong /\ after[id].port.group # after[other].port.group
  <2>1. Kept(known[id], after[id]) /\ Kept(known[other], after[other])
    BY DEF KeptAll
  <2>2. after[id].identity = known[id].identity /\ after[other].identity = known[other].identity
    BY <2>1 DEF Kept
  <2>3. ~known[id].identity.strong /\ known[id].port.group # known[other].port.group
    BY <1>1, <2>2 DEF Apart
  <2>4. ~known[other].identity.strong
    BY <1>1, <2>2, <2>3
  <2>5. after[id].port = known[id].port /\ after[other].port = known[other].port
    BY <2>1, <2>3, <2>4 DEF Kept, Moved
  <2> QED BY <2>2, <2>3, <2>5
<1> QED BY <1>1 DEF Apart

LEMMA ReconcileAllKeeps ==
  ASSUME NEW known \in Registries
  PROVE  KeptAll(known, ReconcileAll(known)) /\ DOMAIN ReconcileAll(known) = DOMAIN known
<1>1. PICK after : after = ReconcileAll(known)
  OBVIOUS
<1>2. after = [id \in DOMAIN known |-> Reconcile(known[id])]
  BY <1>1 DEF ReconcileAll
<1>3. DOMAIN after = DOMAIN known
  BY <1>2
<1>4. \A id \in DOMAIN known : Kept(known[id], after[id])
  BY <1>2, RegistryIs, ReconcileKeeps
<1>5. \A id \in DOMAIN after : after[id] \in Record
  BY <1>3, <1>4 DEF Kept
<1>6. after = [id \in DOMAIN after |-> after[id]]
  BY <1>2
<1>7. after \in Registries
  BY <1>3, <1>5, <1>6, RegistryIs
<1> QED BY <1>1, <1>3, <1>4, <1>7 DEF KeptAll

LEMMA ClaimedIs ==
  ASSUME Wired, NEW p \in Present
  PROVE  /\ Claimed(p) \in Record /\ Claimed(p).identity = wired[p] /\ Claimed(p).port = p
         /\ Id(wired[p], p) \in Ids /\ Id(wired[p], p)[2] = p
<1>1. p \in Ports /\ wired[p] \in Identities
  BY DEF Wired, Present
<1>2. Claimed(p) \in Record /\ Claimed(p).identity = wired[p] /\ Claimed(p).port = p
  BY <1>1 DEF Claimed, Record
<1> QED BY <1>1, <1>2 DEF Id, Ids

LEMMA CandidateIs ==
  ASSUME NEW group, NEW p \in Candidate(group)
  PROVE  p \in Present /\ \A q \in Candidate(group) : q = p
<1> DEFINE usb == {q \in Present : q.group = group /\ wired[q].usb}
           callout == {q \in usb : q.kind = "callout"}
<1>1. CASE callout # {}
  <2>1. Candidate(group) = {CHOOSE q \in callout : TRUE}
    BY <1>1 DEF Candidate
  <2>2. (CHOOSE q \in callout : TRUE) \in Present
    BY <1>1
  <2> QED BY <2>1, <2>2
<1>2. CASE callout = {} /\ usb # {}
  <2>1. Candidate(group) = {CHOOSE q \in usb : TRUE}
    BY <1>2 DEF Candidate
  <2>2. (CHOOSE q \in usb : TRUE) \in Present
    BY <1>2
  <2> QED BY <2>1, <2>2
<1>3. CASE callout = {} /\ usb = {}
  <2>1. Candidate(group) = {}
    BY <1>3 DEF Candidate
  <2> QED BY <2>1
<1> QED BY <1>1, <1>2, <1>3

(* A new record is of a board that no other stands for.                     *)
LEMMA InsertedKeeps ==
  ASSUME Wired, NEW known \in Registries, NEW group
  PROVE  /\ Inserted(known, group) \in Registries
         /\ DOMAIN known \subseteq DOMAIN Inserted(known, group)
         /\ \A id \in DOMAIN known : Inserted(known, group)[id] = known[id]
         /\ Apart(known) => Apart(Inserted(known, group))
<1> DEFINE new == {p \in Candidate(group) : /\ Room(known) /\ ~Represented(known, p)
                                            /\ Id(wired[p], p) \notin DOMAIN known}
<1>1. PICK fresh, after : fresh = {Id(wired[p], p) : p \in new} /\ after = Inserted(known, group)
  OBVIOUS
<1>2. after = [id \in DOMAIN known \cup fresh |-> IF id \in DOMAIN known THEN known[id] ELSE Claimed(id[2])]
  BY <1>1 DEF Inserted
<1>3. DOMAIN after = DOMAIN known \cup fresh /\ \A id \in DOMAIN known : after[id] = known[id]
  BY <1>2
<1>4. ASSUME NEW id \in fresh
      PROVE  /\ \E p \in new : /\ id = Id(wired[p], p) /\ after[id] = Claimed(p)
                               /\ p \in Present /\ ~Represented(known, p)
             /\ id \in Ids /\ after[id] \in Record /\ \A other \in fresh : other = id
  <2>1. PICK p \in new : id = Id(wired[p], p)
    BY <1>1
  <2>2. p \in Candidate(group) /\ id \notin DOMAIN known /\ ~Represented(known, p)
    BY <2>1
  <2>3. p \in Present /\ \A q \in Candidate(group) : q = p
    BY <2>2, CandidateIs
  <2>4. id \in Ids /\ id[2] = p /\ Claimed(p) \in Record
    BY <2>1, <2>3, ClaimedIs
  <2>5. after[id] = Claimed(p)
    BY <1>2, <2>2, <2>4
  <2>6. \A other \in fresh : other = id
    BY <1>1, <2>1, <2>3
  <2> QED BY <2>1, <2>2, <2>3, <2>4, <2>5, <2>6
<1>5. after \in Registries
  <2>1. after = [id \in DOMAIN after |-> after[id]]
    BY <1>2
  <2>2. DOMAIN known \subseteq Ids /\ \A id \in DOMAIN known : known[id] \in Record
    BY RegistryIs
  <2>3. DOMAIN after \subseteq Ids /\ \A id \in DOMAIN after : after[id] \in Record
    BY <1>3, <1>4, <2>2
  <2> QED BY <2>1, <2>3, RegistryIs
<1>6. ASSUME Apart(known) PROVE Apart(after)
  <2>1. ASSUME NEW id \in DOMAIN known, NEW other \in fresh
        PROVE  ~(/\ after[id].identity = after[other].identity
                 /\ after[id].identity.strong \/ after[id].port.group = after[other].port.group)
    <3>1. PICK p \in new : after[other] = Claimed(p) /\ p \in Present /\ ~Represented(known, p)
      BY <1>4
    <3>2. after[other].identity = wired[p] /\ after[other].port = p
      BY <3>1, ClaimedIs
    <3>3. ~(known[id].identity = wired[p] /\ known[id].port.group = p.group)
      BY <3>1 DEF Represented
    <3>4. ~(known[id].identity.strong /\ known[id].identity = wired[p])
      BY <3>1 DEF Represented, Matches
    <3> QED BY <1>3, <3>2, <3>3, <3>4
  <2>2. ASSUME NEW id \in DOMAIN after, NEW other \in DOMAIN after \ {id},
               after[id].identity = after[other].identity
        PROVE  ~after[id].identity.strong /\ after[id].port.group # after[other].port.group
    <3>1. CASE id \in DOMAIN known /\ other \in DOMAIN known
      BY <1>3, <1>6, <2>2, <3>1 DEF Apart
    <3>2. CASE id \in DOMAIN known /\ other \in fresh
      BY <2>1, <2>2, <3>2
    <3>3. CASE id \in fresh /\ other \in DOMAIN known
      BY <2>1, <2>2, <3>3
    <3>4. CASE id \in fresh /\ other \in fresh
      BY <1>4, <2>2, <3>4
    <3> QED BY <1>3, <3>1, <3>2, <3>3, <3>4
  <2> QED BY <2>2 DEF Apart
<1> QED BY <1>1, <1>3, <1>5, <1>6

(* discover_from_scan keeps what is known, and makes no second record of a  *)
(* board.                                                                   *)
LEMMA DiscoveredKeeps ==
  ASSUME Wired, records \in Registries
  PROVE  KeptAll(records, Discovered) /\ (Apart(records) => Apart(Discovered))
<1>1. PICK last \in Nat : last = Len(Order)
  BY RegistryAssumption
<1>2. PICK first \in Registries : first = ReconcileAll(records)
  BY ReconcileAllKeeps DEF KeptAll
<1> DEFINE g == [p \in Registries \X (1 .. last) |-> Inserted(p[1], Order[p[2]])]
           IsUpto(u) == u = [n \in 0 .. last |-> IF n = 0 THEN first ELSE Inserted(u[n - 1], Order[n])]
<1>3. g \in [Registries \X (1 .. last) -> Registries]
  BY InsertedKeeps
<1>4. PICK f \in [0 .. last -> Registries] : Recurs(f, first, last, g)
  <2> HIDE DEF g
  <2> QED BY <1>3, Recursion
<1>5. f[0] = first /\ \A n \in 1 .. last : f[n] = Inserted(f[n - 1], Order[n])
  <2>1. \A n \in 1 .. last : <<f[n - 1], n>> \in Registries \X (1 .. last)
    <3>1. \A n \in 1 .. last : n - 1 \in 0 .. last
      OBVIOUS
    <3> QED BY <3>1
  <2>2. \A p \in Registries \X (1 .. last) : g[p] = Inserted(p[1], Order[p[2]])
    OBVIOUS
  <2>3. f[0] = first /\ \A n \in 1 .. last : f[n] = g[<<f[n - 1], n>>]
    BY <1>4 DEF Recurs
  <2> HIDE DEF g
  <2> QED BY <2>1, <2>2, <2>3
<1>6. IsUpto(f)
  <2>1. \A n \in 0 .. last : n # 0 => n \in 1 .. last
    OBVIOUS
  <2> QED BY <1>5, <2>1
<1>7. PICK u : u = CHOOSE h : IsUpto(h)
  OBVIOUS
<1>8. IsUpto(u)
  <2> HIDE DEF IsUpto
  <2> QED BY <1>6, <1>7
<1>9. Discovered = ReconcileAll(u[last])
  BY <1>1, <1>2, <1>7 DEF Discovered
<1>10. u[0] = first /\ \A n \in 1 .. last : u[n] = Inserted(u[n - 1], Order[n])
  <2>1. 0 \in 0 .. last /\ \A n \in 1 .. last : n \in 0 .. last /\ n # 0
    OBVIOUS
  <2> QED BY <1>8, <2>1
<1> HIDE DEF IsUpto, g
<1> DEFINE Good(known) == KeptAll(records, known) /\ (Apart(records) => Apart(known))
           T == {n \in Nat : n <= last => Good(u[n])}
<1>11. Good(first)
  BY <1>2, ReconcileAllKeeps, ApartKept
<1>12. ASSUME NEW known, NEW group, Good(known) PROVE Good(Inserted(known, group))
  <2>1. known \in Registries
    BY <1>12 DEF KeptAll
  <2>2. PICK after : after = Inserted(known, group)
    OBVIOUS
  <2>3. /\ after \in Registries /\ DOMAIN known \subseteq DOMAIN after
        /\ \A id \in DOMAIN known : after[id] = known[id]
        /\ Apart(known) => Apart(after)
    BY <2>1, <2>2, InsertedKeeps
  <2> QED BY <1>12, <2>2, <2>3 DEF KeptAll
<1>13. T = Nat
  <2> HIDE DEF Good
  <2>1. 0 \in T
    BY <1>10, <1>11
  <2>2. ASSUME NEW n \in T PROVE n + 1 \in T
    <3>1. SUFFICES ASSUME n + 1 <= last PROVE Good(u[n + 1])
      OBVIOUS
    <3>2. n + 1 \in 1 .. last /\ (n + 1) - 1 = n /\ Good(u[n])
      BY <3>1
    <3>3. u[n + 1] = Inserted(u[n], Order[n + 1])
      BY <1>10, <3>2
    <3> QED BY <1>12, <3>2, <3>3
  <2>3. T \in SUBSET Nat
    OBVIOUS
  <2> HIDE DEF T
  <2> QED BY <2>1, <2>2, <2>3, Induction
<1>14. PICK known : known = u[last] /\ Good(known)
  <2> HIDE DEF Good
  <2>1. \A n \in T : n <= last => Good(u[n])
    OBVIOUS
  <2> HIDE DEF T
  <2> QED BY <1>13, <2>1
<1>15. known \in Registries
  BY <1>14 DEF KeptAll
<1>16. KeptAll(known, Discovered) /\ DOMAIN Discovered = DOMAIN known
  BY <1>9, <1>14, <1>15, ReconcileAllKeeps
<1>17. KeptAll(records, Discovered)
  <2>1. \A id \in DOMAIN records : Kept(records[id], known[id]) /\ Kept(known[id], Discovered[id])
    BY <1>14, <1>16 DEF KeptAll
  <2>2. \A id \in DOMAIN records : records[id] \in Record
    BY RegistryIs
  <2>3. \A id \in DOMAIN records : Kept(records[id], Discovered[id])
    BY <2>1, <2>2, KeptTwice
  <2> QED BY <1>14, <1>16, <2>3 DEF KeptAll
<1>18. Apart(records) => Apart(Discovered)
  BY <1>14, <1>16, ApartKept
<1> QED BY <1>17, <1>18

(* A refresh, or a worker that opens its port, scans for one device.        *)
LEMMA OneKeeps ==
  ASSUME records \in Registries, NEW id \in DOMAIN records, NEW after,
         after = [records EXCEPT ![id] = Reconcile(@)]
  PROVE  KeptAll(records, after) /\ (Apart(records) => Apart(after))
<1>1. /\ records = [i \in DOMAIN records |-> records[i]]
      /\ DOMAIN records \subseteq Ids /\ \A i \in DOMAIN records : records[i] \in Record
  BY RegistryIs
<1>2. DOMAIN after = DOMAIN records /\ after = [i \in DOMAIN after |-> after[i]]
  OBVIOUS
<1>3. ASSUME NEW i \in DOMAIN records PROVE Kept(records[i], after[i])
  <2>1. CASE i = id
    BY <1>1, <2>1, ReconcileKeeps
  <2>2. CASE i # id
    <3>1. after[i] = records[i]
      BY <2>2
    <3> QED BY <1>1, <3>1 DEF Kept
  <2> QED BY <2>1, <2>2
<1>4. \A i \in DOMAIN after : after[i] \in Record
  BY <1>2, <1>3 DEF Kept
<1>5. after \in Registries
  BY <1>1, <1>2, <1>4, RegistryIs
<1>6. KeptAll(records, after)
  BY <1>2, <1>3, <1>5 DEF KeptAll
<1> QED BY <1>2, <1>6, ApartKept

-----------------------------------------------------------------------------
(* The daemon. *)

(* No two configured addresses show boards of one strong identity.          *)
ConfiguredApart ==
  \A w \in Plugged : \A p, q \in Configured : p # q => ~Matches(w[p], w[q])

RegistryInv ==
  /\ Wired
  /\ records \in Registries
  /\ DOMAIN runtimes \subseteq DOMAIN records
  /\ DOMAIN found \subseteq DOMAIN records
  /\ ConfiguredApart => Apart(records)

LEMMA RegistryStart == Init => RegistryInv
<1> SUFFICES ASSUME Init PROVE RegistryInv
  OBVIOUS
<1>1. /\ wired \in Plugged /\ Configured \subseteq Present
      /\ \A p, q \in Configured : p # q => p.group # q.group
      /\ records = [id \in {Id(wired[p], p) : p \in Configured} |-> Claimed(id[2])]
  BY DEF Init, Configures
<1>2. Wired
  BY <1>1, RegistryAssumption DEF Wired, Present
<1>3. ASSUME NEW id \in DOMAIN records
      PROVE  \E p \in Configured : /\ p \in Present /\ id = Id(wired[p], p) /\ id \in Ids
                                   /\ records[id] \in Record
                                   /\ records[id].identity = wired[p] /\ records[id].port = p
  <2>1. PICK p \in Configured : id = Id(wired[p], p)
    BY <1>1
  <2>2. id \in Ids /\ id[2] = p /\ p \in Present
    BY <1>1, <1>2, <2>1, ClaimedIs
  <2>3. records[id] = Claimed(p)
    BY <1>1, <2>2
  <2> QED BY <1>2, <2>1, <2>2, <2>3, ClaimedIs
<1>4. records \in Registries
  <2>1. records = [id \in DOMAIN records |-> records[id]]
    BY <1>1
  <2> QED BY <1>3, <2>1, RegistryIs
<1>5. ASSUME ConfiguredApart PROVE Apart(records)
  <2>1. ASSUME NEW id \in DOMAIN records, NEW other \in DOMAIN records \ {id},
               records[id].identity = records[other].identity
        PROVE  ~records[id].identity.strong /\ records[id].port.group # records[other].port.group
    <3>1. PICK p \in Configured : id = Id(wired[p], p) /\ records[id].identity = wired[p] /\ records[id].port = p
      BY <1>3
    <3>2. PICK q \in Configured :
            other = Id(wired[q], q) /\ records[other].identity = wired[q] /\ records[other].port = q
      BY <1>3
    <3>3. p # q
      BY <2>1, <3>1, <3>2
    <3>4. ~Matches(wired[p], wired[q]) /\ p.group # q.group
      BY <1>1, <1>5, <3>3 DEF ConfiguredApart
    <3> QED BY <2>1, <3>1, <3>2, <3>4 DEF Matches
  <2> QED BY <2>1 DEF Apart
<1>6. DOMAIN runtimes = DOMAIN records /\ DOMAIN found = {}
  BY DEF Init, Availabilities, Nothing
<1> QED BY <1>2, <1>4, <1>5, <1>6 DEF RegistryInv

(* A board that comes or goes does so with all names of its place.          *)
LEMMA RewireKeeps ==
  ASSUME Wired, Rewire
  PROVE  Wired'
<1>1. PICK group \in Groups, i \in Identities, up \in SUBSET Ports :
        wired' = [p \in Ports |-> IF p.group # group THEN wired[p] ELSE IF p \in up THEN i ELSE NoBoard]
  BY DEF Rewire
<1>2. wired' \in [Ports -> Identities \cup {NoBoard}]
  BY <1>1 DEF Wired
<1>3. ASSUME NEW p \in Ports, NEW q \in Ports, p.group = q.group, wired'[p] # NoBoard, wired'[q] # NoBoard
      PROVE  wired'[p] = wired'[q]
  <2>1. CASE p.group = group
    BY <1>1, <1>3, <2>1
  <2>2. CASE p.group # group
    <3>1. wired'[p] = wired[p] /\ wired'[q] = wired[q]
      BY <1>1, <1>3, <2>2
    <3>2. p \in Present /\ q \in Present
      BY <1>3, <3>1 DEF Present
    <3> QED BY <1>3, <3>1, <3>2 DEF Wired
  <2> QED BY <2>1, <2>2
<1> QED BY <1>2, <1>3 DEF Wired, Present

(* What a step does to the records is what scans do.                        *)
LEMMA RecordsStep ==
  ASSUME RegistryInv, [Next]_vars
  PROVE  /\ records' = records \/ wired' = wired
         /\ KeptAll(records, records')
         /\ Apart(records) => Apart(records)'
<1>1. Wired /\ records \in Registries /\ DOMAIN runtimes \subseteq DOMAIN records
  BY DEF RegistryInv
<1>2. ASSUME records' = records PROVE KeptAll(records, records') /\ (Apart(records) => Apart(records)')
  <2>1. \A id \in DOMAIN records : Kept(records[id], records[id])
    BY <1>1, RegistryIs DEF Kept
  <2>2. KeptAll(records, records)
    BY <1>1, <2>1 DEF KeptAll
  <2> QED BY <1>2, <2>2 DEF Apart
<1>3. CASE Scan
  <2>1. records' = Discovered /\ wired' = wired
    BY <1>3 DEF Scan
  <2>2. PICK after : after = records'
    OBVIOUS
  <2>3. KeptAll(records, after) /\ (Apart(records) => Apart(after))
    BY <1>1, <2>1, <2>2, DiscoveredKeeps
  <2> QED BY <2>1, <2>2, <2>3 DEF Apart
<1>4. CASE OpenValidates \/ \E c \in Callers : Refresh(c)
  <2>1. PICK id \in DOMAIN runtimes : records' = [records EXCEPT ![id] = Reconcile(@)]
    BY <1>4 DEF OpenValidates, Refresh
  <2>2. wired' = wired
    BY <1>4 DEF OpenValidates, Refresh
  <2>3. PICK after : after = records'
    OBVIOUS
  <2>4. KeptAll(records, after) /\ (Apart(records) => Apart(after))
    BY <1>1, <2>1, <2>3, OneKeeps
  <2> QED BY <2>2, <2>3, <2>4 DEF Apart
<1>5. CASE \/ Rewire \/ RoundEnds \/ UNCHANGED vars
           \/ \E id \in Ids : UpsertKnown(id) \/ UpsertNew(id) \/ UpsertFails(id)
           \/ \E c \in Callers : Finishes(c)
  <2>1. records' = records
    BY <1>5 DEF Rewire, RoundEnds, vars, UpsertKnown, UpsertNew, UpsertFails, Finishes, RefreshDevice, RefreshStatus
  <2> QED BY <1>2, <2>1
<1> QED BY <1>3, <1>4, <1>5 DEF Next, Discovery

LEMMA RegistryStep == RegistryInv /\ [Next]_vars => RegistryInv'
<1> SUFFICES ASSUME RegistryInv, [Next]_vars PROVE RegistryInv'
  OBVIOUS
<1>1. Wired'
  <2>1. CASE Rewire
    BY <2>1, RewireKeeps DEF RegistryInv
  <2>2. CASE wired' = wired
    BY <2>2 DEF RegistryInv, Wired, Present
  <2>3. wired' = wired \/ Rewire
    BY DEF Next, Discovery, Scan, RoundEnds, UpsertKnown, UpsertNew, UpsertFails, OpenValidates,
           Refresh, Finishes, RefreshDevice, RefreshStatus, vars
  <2> QED BY <2>1, <2>2, <2>3
<1>2. records' \in Registries /\ DOMAIN records \subseteq DOMAIN records'
  BY RecordsStep DEF KeptAll
<1>3. ConfiguredApart => Apart(records)'
  BY RecordsStep DEF RegistryInv
<1>4. DOMAIN runtimes' \subseteq DOMAIN records' /\ DOMAIN found' \subseteq DOMAIN records'
  <2>1. DOMAIN runtimes \subseteq DOMAIN records /\ DOMAIN found \subseteq DOMAIN records
    BY DEF RegistryInv
  <2>2. CASE Scan
    BY <1>2, <2>1, <2>2 DEF Scan, Availabilities
  <2>3. ASSUME NEW id \in Ids, UpsertKnown(id) \/ UpsertNew(id)
        PROVE  DOMAIN runtimes' \subseteq DOMAIN runtimes \cup {id} /\ DOMAIN found' \subseteq DOMAIN found /\ id \in DOMAIN found
    <3>1. Publishes(id)
      BY <2>3 DEF UpsertKnown, UpsertNew
    <3>2. id \in DOMAIN found /\ DOMAIN found' \subseteq DOMAIN found
      BY <3>1 DEF Publishes, RestrictDomain, Restrict
    <3>3. DOMAIN runtimes' \subseteq DOMAIN runtimes \cup {id}
      BY <2>3 DEF UpsertKnown, UpsertNew, With
    <3> QED BY <3>2, <3>3
  <2>4. ASSUME NEW id \in Ids, UpsertFails(id)
        PROVE  runtimes' = runtimes /\ DOMAIN found' = {}
    BY <2>4 DEF UpsertFails, Nothing
  <2>5. CASE \/ Rewire \/ RoundEnds \/ OpenValidates \/ UNCHANGED vars \/ \E c \in Callers : Refresh(c) \/ Finishes(c)
    <3>1. DOMAIN runtimes' = DOMAIN runtimes /\ found' = found
      BY <2>5 DEF Rewire, RoundEnds, OpenValidates, Refresh, Finishes, RefreshDevice, RefreshStatus, vars
    <3> QED BY <1>2, <2>1, <3>1
  <2> QED BY <1>2, <2>1, <2>2, <2>3, <2>4, <2>5 DEF Next, Discovery
<1> QED BY <1>1, <1>2, <1>3, <1>4 DEF RegistryInv

(* reconcile_record and adopt_locator: what a device ID stands for changes  *)
(* only when its strong identity is seen at one other place, its own port   *)
(* being gone.                                                              *)
THEOREM MovesAreUnambiguous == Spec => MigratesUnambiguously
<1> DEFINE Tracks(id) ==
      /\ id \in DOMAIN records' /\ records'[id].identity = records[id].identity
      /\ records'[id].port # records[id].port =>
           LET to == records'[id].port
               seen == {p \in Present : wired[p] = records[id].identity}
           IN /\ records[id].identity.strong /\ records[id].port \notin Present
              /\ to \in seen /\ to.kind = records[id].port.kind
              /\ \A p \in seen : p.group = to.group
<1>1. RegistryInv /\ [Next]_vars => \A id \in DOMAIN records : Tracks(id)
  <2> SUFFICES ASSUME RegistryInv, [Next]_vars, NEW id \in DOMAIN records PROVE Tracks(id)
    OBVIOUS
  <2>1. id \in DOMAIN records' /\ Kept(records[id], records'[id])
    BY RecordsStep DEF KeptAll
  <2> QED BY <2>1 DEF Kept, Moved, Seen
<1>2. RegistryInv /\ [Next]_vars => [\A id \in DOMAIN records : Tracks(id)]_vars
  BY <1>1
<1> QED BY <1>2, RegistryStart, RegistryStep, PTL DEF Spec, MigratesUnambiguously

(* Each device has one worker that owns its port, whatever is plugged in:   *)
(* for a discovering daemon always, and for configured addresses if no two  *)
(* of their boards report one identity.                                     *)
THEOREM PortsAreOwned ==
  ASSUME ConfiguredApart PROVE Spec => []OneWorkerPerPort
<1>1. RegistryInv => OneWorkerPerPort
  <2> SUFFICES ASSUME RegistryInv, NEW id \in DOMAIN runtimes, NEW other \in DOMAIN runtimes \ {id},
                      Reconcile(records[id]).avail = "available",
                      Reconcile(records[other]).avail = "available",
                      Reconcile(records[id]).port.group = Reconcile(records[other]).port.group
               PROVE  FALSE
    BY DEF OneWorkerPerPort
  <2>1. PICK x, y, mine, its : /\ x = records[id] /\ y = records[other]
                               /\ mine = Reconcile(x) /\ its = Reconcile(y)
    OBVIOUS
  <2>2. id \in DOMAIN records /\ other \in DOMAIN records /\ x \in Record /\ y \in Record
    BY <2>1, RegistryIs DEF RegistryInv
  <2>3. Kept(x, mine) /\ There(mine) /\ Kept(y, its) /\ There(its)
    BY <2>1, <2>2, ReconcileKeeps
  <2>4. mine.port \in Present /\ its.port \in Present /\ wired[mine.port] = x.identity /\ wired[its.port] = y.identity
    BY <2>1, <2>3 DEF Kept, There, Seen
  <2>5. x.identity = y.identity
    BY <2>1, <2>4 DEF RegistryInv, Wired
  <2>6. ~x.identity.strong /\ x.port.group # y.port.group
    BY <2>1, <2>2, <2>5 DEF RegistryInv, Apart
  <2>7. mine.port = x.port /\ its.port = y.port
    BY <2>3, <2>5, <2>6 DEF Kept, Moved
  <2> QED BY <2>1, <2>6, <2>7
<1> QED BY <1>1, RegistryStart, RegistryStep, PTL DEF Spec
=============================================================================
