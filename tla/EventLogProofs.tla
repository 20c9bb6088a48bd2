--------------------------- MODULE EventLogProofs ---------------------------
(***************************************************************************)
(* For any readers, sizes and limits: no long poll sleeps through a        *)
(* publication, the ring holds the newest events and counts their bytes,   *)
(* what a reader is given has no hole, and a wait misses no line.          *)
(***************************************************************************)
EXTENDS EventLog, SequenceLemmas, FiniteSetTheorems, TLAPS

-----------------------------------------------------------------------------
(* Polls. *)

(* What NoLostWakeup rests on: a poller that has looked at the ring, or     *)
(* sleeps, is still registered, so that the next publication reaches it.    *)
Registered ==
  /\ DOMAIN pc = Readers /\ DOMAIN cursor = Readers
  /\ \A r \in Readers : pc[r] \in {"registered", "asleep"} => r \in listening

Wakeful == Registered /\ NoLostWakeup

LEMMA WakefulStart == Init => Wakeful
BY DEF Init, Wakeful, Registered, NoLostWakeup

(* A publication wakes all who are registered.                              *)
LEMMA WakefulEmit ==
  ASSUME NEW size, NEW matches, Wakeful, Emit(size, matches) PROVE Wakeful'
<1>1. woken' = woken \cup listening /\ UNCHANGED <<pc, cursor, listening>>
  BY DEF Emit
<1> QED BY <1>1 DEF Wakeful, Registered, NoLostWakeup

(* A step of one reader's request leaves the others' registrations alone.   *)
Others(r) ==
  /\ UNCHANGED <<ring, seq, epoch>>
  /\ DOMAIN pc' = DOMAIN pc /\ DOMAIN cursor' = DOMAIN cursor
  /\ \A x \in Readers \ {r} :
       /\ pc'[x] = pc[x] /\ cursor'[x] = cursor[x]
       /\ x \in listening' <=> x \in listening
       /\ x \in woken' <=> x \in woken

(* So only where that reader itself is now can matter.                      *)
LEMMA WakefulOwn ==
  ASSUME NEW r \in Readers, Wakeful, Others(r),
         pc'[r] \in {"registered", "asleep"} => r \in listening',
         pc'[r] = "asleep" => After(cursor[r])' = {} \/ r \in woken'
  PROVE Wakeful'
<1>1. Registered'
  BY DEF Wakeful, Registered, Others
<1>2. ASSUME NEW x \in Readers, x # r, pc'[x] = "asleep", After(cursor[x])' # {}
      PROVE x \in woken'
  <2>1. After(cursor[x])' = After(cursor[x])
    BY <1>2 DEF After, Others
  <2> QED BY <1>2, <2>1 DEF Wakeful, NoLostWakeup, Others
<1> QED BY <1>1, <1>2 DEF Wakeful, NoLostWakeup

(* The end of a request by an error.                                        *)
LEMMA WakefulLost == ASSUME NEW r \in Readers, Wakeful, Lost(r) PROVE Wakeful'
<1>1. Others(r) /\ pc'[r] = "resync"
  BY DEF Lost, Goto, logVars, Others, Wakeful, Registered
<1> QED BY <1>1, WakefulOwn

LEMMA WakefulPoll == ASSUME NEW r \in Readers, Wakeful, Poll(r) PROVE Wakeful'
<1> USE DEF Goto, logVars, Wakeful, Registered
<1>1. CASE PollRegisters(r)
  <2>1. Others(r) /\ pc'[r] = "registered" /\ r \in listening'
    BY <1>1 DEF PollRegisters, Others
  <2> QED BY <2>1, WakefulOwn
<1>2. CASE PollLost(r)
  BY <1>2, WakefulLost DEF PollLost
<1>3. CASE PollAnswers(r)
  <2>1. Others(r) /\ pc'[r] = "idle"
    BY <1>3 DEF PollAnswers, Given, Others
  <2> QED BY <2>1, WakefulOwn
<1>4. CASE PollSleeps(r)
  <2>1. Others(r) /\ pc'[r] = "asleep" /\ r \in listening'
    BY <1>4 DEF PollSleeps, Others
  <2>2. After(cursor[r])' = {}
    BY <1>4 DEF PollSleeps, After
  <2> QED BY <2>1, <2>2, WakefulOwn
<1>5. CASE PollWakes(r)
  <2>1. Others(r) /\ pc'[r] = "poll"
    BY <1>5 DEF PollWakes, Others
  <2> QED BY <2>1, WakefulOwn
<1> QED BY <1>1, <1>2, <1>3, <1>4, <1>5 DEF Poll

(* Streams, waits, and what a reader does between two requests: none of     *)
(* them is, or becomes, a sleeping poll.                                    *)
LEMMA WakefulRest ==
  ASSUME NEW r \in Readers, Wakeful,
         Ask(r) \/ Stream(r) \/ StreamEnds(r) \/ Wait(r) \/ Resync(r)
  PROVE Wakeful'
<1> USE DEF Goto, logVars, Wakeful, Registered
<1>1. CASE Lost(r)
  BY <1>1, WakefulLost
<1>2. CASE Ask(r) \/ Resync(r) \/ StreamEnds(r)
  <2>1. Others(r) /\ pc'[r] \in {"idle", "poll", "stream", "scan"}
    BY <1>2 DEF Ask, Resync, StreamEnds, Others
  <2> QED BY <2>1, WakefulOwn
<1>3. CASE StreamOpens(r) \/ StreamFetches(r) \/ StreamYields(r)
  <2>1. Others(r) /\ pc'[r] = "open"
    BY <1>3 DEF StreamOpens, StreamFetches, StreamYields, Others
  <2> QED BY <2>1, WakefulOwn
<1>4. CASE WaitStopped(r) \/ WaitMatches(r) \/ WaitMoves(r) \/ WaitRescans(r) \/ WaitReturns(r)
  <2>1. Others(r) /\ pc'[r] \in {"idle", "answered", "timeout", "pause", "scan"}
    BY <1>4 DEF WaitStopped, WaitMatches, WaitMoves, WaitRescans, WaitReturns, Others
  <2> QED BY <2>1, WakefulOwn
<1> QED
  BY <1>1, <1>2, <1>3, <1>4
  DEF Stream, StreamRefused, StreamGap, Wait, WaitLost

LEMMA WakefulRestart == Wakeful /\ Restart => Wakeful'
BY DEF Restart, Wakeful, Registered, NoLostWakeup

LEMMA WakefulStep == Wakeful /\ [Next]_vars => Wakeful'
<1> SUFFICES ASSUME Wakeful, [Next]_vars PROVE Wakeful'
  OBVIOUS
<1>1. ASSUME UNCHANGED <<ring, pc, cursor, listening, woken>> PROVE Wakeful'
  BY <1>1 DEF Wakeful, Registered, NoLostWakeup, After
<1>2. ASSUME NEW r \in Readers, DeadlinePasses(r) PROVE Wakeful'
  BY <1>1, <1>2 DEF DeadlinePasses, logVars
<1>3. CASE Shutdown \/ UNCHANGED vars
  BY <1>1, <1>3 DEF Shutdown, vars, logVars, readerVars
<1> QED
  BY <1>2, <1>3, WakefulEmit, WakefulPoll, WakefulRest, WakefulRestart DEF Next

(* events, with its enabled notification before the look at the ring: a     *)
(* sleeping poller with something to hear has been woken.                   *)
THEOREM PollersAreWoken == Spec => []NoLostWakeup
<1>1. Wakeful => NoLostWakeup
  BY DEF Wakeful
<1> QED BY <1>1, WakefulStart, WakefulStep, PTL DEF Spec

-----------------------------------------------------------------------------
(* Adding up sizes. *)

Size(sizes, n) == IF n \in DOMAIN sizes THEN sizes[n] ELSE 0
Sums(u, sizes, last) == u[0] = 0 /\ \A n \in 1 .. last : u[n] = u[n - 1] + Size(sizes, n)

(* What Total computes, by its recursion.                                   *)
LEMMA TotalSums ==
  ASSUME NEW last \in Nat, NEW sizes, \A n \in DOMAIN sizes : sizes[n] \in Nat
  PROVE  \E u \in [0 .. last -> Nat] : Sums(u, sizes, last) /\ Total(sizes, last) = u[last]
<1> DEFINE g == [p \in Nat \X (1 .. last) |-> p[1] + Size(sizes, p[2])]
           IsUpto(u) == u = [n \in 0 .. last |-> IF n = 0 THEN 0 ELSE u[n - 1] + Size(sizes, n)]
<1>1. \A n : Size(sizes, n) \in Nat
  BY DEF Size
<1>2. g \in [Nat \X (1 .. last) -> Nat]
  BY <1>1
<1>3. PICK f \in [0 .. last -> Nat] : Recurs(f, 0, last, g)
  <2> HIDE DEF g
  <2> QED BY <1>2, Recursion
<1>4. Sums(f, sizes, last)
  <2>1. \A n \in 1 .. last : <<f[n - 1], n>> \in Nat \X (1 .. last)
    <3>1. \A n \in 1 .. last : n - 1 \in 0 .. last
      OBVIOUS
    <3> QED BY <3>1
  <2>2. \A p \in Nat \X (1 .. last) : g[p] = p[1] + Size(sizes, p[2])
    OBVIOUS
  <2>3. f[0] = 0 /\ \A n \in 1 .. last : f[n] = g[<<f[n - 1], n>>]
    BY <1>3 DEF Recurs
  <2> HIDE DEF g
  <2> QED BY <2>1, <2>2, <2>3 DEF Sums
<1>5. IsUpto(f)
  <2>1. \A n \in 0 .. last : n # 0 => n \in 1 .. last
    OBVIOUS
  <2> QED BY <1>4, <2>1 DEF Sums
<1>6. PICK u : u = CHOOSE h : IsUpto(h)
  OBVIOUS
<1>7. IsUpto(u)
  <2> HIDE DEF IsUpto
  <2> QED BY <1>5, <1>6
<1>8. Total(sizes, last) = u[last]
  BY <1>6 DEF Total, Size
<1>9. Sums(u, sizes, last)
  <2>1. 0 \in 0 .. last /\ \A n \in 1 .. last : n \in 0 .. last /\ n # 0
    OBVIOUS
  <2> QED BY <1>7, <2>1 DEF Sums
<1> DEFINE T == {n \in Nat : n <= last => u[n] \in Nat}
<1>10. T = Nat
  <2>1. 0 \in T
    BY <1>9 DEF Sums
  <2>2. ASSUME NEW n \in T PROVE n + 1 \in T
    <3>1. SUFFICES ASSUME n + 1 <= last PROVE u[n + 1] \in Nat
      OBVIOUS
    <3>2. n + 1 \in 1 .. last /\ (n + 1) - 1 = n /\ u[n] \in Nat
      BY <3>1
    <3>3. u[n + 1] = u[n] + Size(sizes, n + 1)
      BY <1>9, <3>2 DEF Sums
    <3> QED BY <1>1, <3>2, <3>3
  <2>3. T \in SUBSET Nat
    OBVIOUS
  <2> HIDE DEF T
  <2> QED BY <2>1, <2>2, <2>3, Induction
<1>11. \A n \in 0 .. last : u[n] \in Nat
  <2>1. \A n \in T : n <= last => u[n] \in Nat
    OBVIOUS
  <2> HIDE DEF T
  <2> QED BY <1>10, <2>1
<1>12. u \in [0 .. last -> Nat]
  BY <1>7, <1>11
<1> QED BY <1>8, <1>9, <1>12

LEMMA TotalNatural ==
  ASSUME NEW last \in Nat, NEW sizes, \A n \in DOMAIN sizes : sizes[n] \in Nat
  PROVE  Total(sizes, last) \in Nat
BY TotalSums

(* Two totals are the same if their sizes are, number by number; and sizes  *)
(* that are split in two add up.                                            *)
LEMMA TotalSplit ==
  ASSUME NEW last \in Nat, NEW a, NEW b, NEW c,
         \A n \in DOMAIN a : a[n] \in Nat,
         \A n \in DOMAIN b : b[n] \in Nat,
         \A n \in DOMAIN c : c[n] \in Nat,
         \A n \in 1 .. last : Size(c, n) = Size(a, n) + Size(b, n)
  PROVE  Total(c, last) = Total(a, last) + Total(b, last)
<1>1. PICK u \in [0 .. last -> Nat] : Sums(u, a, last) /\ Total(a, last) = u[last]
  BY TotalSums
<1>2. PICK v \in [0 .. last -> Nat] : Sums(v, b, last) /\ Total(b, last) = v[last]
  BY TotalSums
<1>3. PICK w \in [0 .. last -> Nat] : Sums(w, c, last) /\ Total(c, last) = w[last]
  BY TotalSums
<1> DEFINE T == {n \in Nat : n <= last => w[n] = u[n] + v[n]}
<1>4. T = Nat
  <2>1. 0 \in T
    BY <1>1, <1>2, <1>3 DEF Sums
  <2>2. ASSUME NEW n \in T PROVE n + 1 \in T
    <3>1. SUFFICES ASSUME n + 1 <= last PROVE w[n + 1] = u[n + 1] + v[n + 1]
      OBVIOUS
    <3>2. n + 1 \in 1 .. last /\ (n + 1) - 1 = n /\ n \in 0 .. last /\ w[n] = u[n] + v[n]
      BY <3>1
    <3>3. /\ u[n + 1] = u[n] + Size(a, n + 1) /\ v[n + 1] = v[n] + Size(b, n + 1)
          /\ w[n + 1] = w[n] + Size(c, n + 1) /\ Size(c, n + 1) = Size(a, n + 1) + Size(b, n + 1)
      BY <1>1, <1>2, <1>3, <3>2 DEF Sums
    <3>4. u[n] \in Nat /\ v[n] \in Nat /\ Size(a, n + 1) \in Nat /\ Size(b, n + 1) \in Nat
      BY <3>2 DEF Size
    <3> QED BY <3>2, <3>3, <3>4
  <2>3. T \in SUBSET Nat
    OBVIOUS
  <2> HIDE DEF T
  <2> QED BY <2>1, <2>2, <2>3, Induction
<1>5. w[last] = u[last] + v[last]
  <2>1. \A n \in T : n <= last => w[n] = u[n] + v[n]
    OBVIOUS
  <2> HIDE DEF T
  <2> QED BY <1>4, <2>1
<1> QED BY <1>1, <1>2, <1>3, <1>5

LEMMA TotalNothing ==
  ASSUME NEW last \in Nat, NEW sizes, DOMAIN sizes = {}
  PROVE  Total(sizes, last) = 0
<1>1. Total(sizes, last) \in Nat
  BY TotalNatural
<1>2. Total(sizes, last) = Total(sizes, last) + Total(sizes, last)
  BY TotalSplit DEF Size
<1> QED BY <1>1, <1>2

(* One number more.                                                         *)
LEMMA TotalNext ==
  ASSUME NEW last \in Nat, NEW sizes, \A n \in DOMAIN sizes : sizes[n] \in Nat
  PROVE  Total(sizes, last + 1) = Total(sizes, last) + Size(sizes, last + 1)
<1>1. PICK u \in [0 .. last -> Nat] : Sums(u, sizes, last) /\ Total(sizes, last) = u[last]
  BY TotalSums
<1>2. PICK v \in [0 .. last + 1 -> Nat] : Sums(v, sizes, last + 1) /\ Total(sizes, last + 1) = v[last + 1]
  <2>1. PICK m \in Nat : m = last + 1
    OBVIOUS
  <2>2. \E v \in [0 .. m -> Nat] : Sums(v, sizes, m) /\ Total(sizes, m) = v[m]
    BY TotalSums
  <2> QED BY <2>1, <2>2
<1> DEFINE T == {n \in Nat : n <= last => v[n] = u[n]}
<1>3. T = Nat
  <2>1. 0 \in T
    BY <1>1, <1>2 DEF Sums
  <2>2. ASSUME NEW n \in T PROVE n + 1 \in T
    <3>1. SUFFICES ASSUME n + 1 <= last PROVE v[n + 1] = u[n + 1]
      OBVIOUS
    <3>2. n + 1 \in 1 .. last /\ n + 1 \in 1 .. last + 1 /\ (n + 1) - 1 = n /\ v[n] = u[n]
      BY <3>1
    <3>3. u[n + 1] = u[n] + Size(sizes, n + 1) /\ v[n + 1] = v[n] + Size(sizes, n + 1)
      BY <1>1, <1>2, <3>2 DEF Sums
    <3> QED BY <3>2, <3>3
  <2>3. T \in SUBSET Nat
    OBVIOUS
  <2> HIDE DEF T
  <2> QED BY <2>1, <2>2, <2>3, Induction
<1>4. v[last] = u[last]
  <2>1. \A n \in T : n <= last => v[n] = u[n]
    OBVIOUS
  <2> HIDE DEF T
  <2> QED BY <1>3, <2>1
<1>5. v[last + 1] = v[last] + Size(sizes, last + 1)
  <2>1. last + 1 \in 1 .. last + 1 /\ (last + 1) - 1 = last
    OBVIOUS
  <2> QED BY <1>2, <2>1 DEF Sums
<1> QED BY <1>1, <1>2, <1>4, <1>5

(* Equal sizes have equal totals.                                           *)
LEMMA TotalSame ==
  ASSUME NEW last \in Nat, NEW a, NEW b,
         \A n \in DOMAIN a : a[n] \in Nat,
         \A n \in DOMAIN b : b[n] \in Nat,
         \A n \in 1 .. last : Size(a, n) = Size(b, n)
  PROVE  Total(a, last) = Total(b, last)
<1>1. PICK none : none = [n \in {} |-> 0]
  OBVIOUS
<1>2. DOMAIN none = {}
  BY <1>1
<1>3. \A n \in 1 .. last : Size(a, n) = Size(b, n) + Size(none, n)
  <2>1. \A n : Size(none, n) = 0 /\ Size(b, n) \in Nat
    BY <1>2 DEF Size
  <2> QED BY <2>1
<1>4. \A n \in DOMAIN none : none[n] \in Nat
  BY <1>2
<1>5. Total(a, last) = Total(b, last) + Total(none, last)
  BY <1>3, <1>4, TotalSplit
<1>6. Total(none, last) = 0 /\ Total(b, last) \in Nat
  BY <1>2, TotalNothing, TotalNatural
<1> QED BY <1>5, <1>6

(* The least of a set of numbers is the one that is.                        *)
LEMMA MinIs ==
  ASSUME NEW S \in SUBSET Int, NEW m \in S, \A n \in S : m <= n
  PROVE  Min(S) = m
<1>1. \E x \in S : \A y \in S : x =< y
  OBVIOUS
<1>2. Min(S) \in S /\ \A y \in S : Min(S) =< y
  BY <1>1 DEF Min
<1>3. Min(S) =< m /\ m <= Min(S) /\ Min(S) \in Int
  BY <1>2
<1> QED BY <1>3

LEMMA MinOf ==
  ASSUME NEW S \in SUBSET Nat, S # {}
  PROVE  Min(S) \in S /\ \A n \in S : Min(S) <= n
<1>1. PICK m \in S : \A n \in S : m <= n
  BY LeastNumber
<1> QED BY <1>1, MinIs

-----------------------------------------------------------------------------
(* The ring. *)

(* The retained events are the newest ones, and their sizes are counted.    *)
RingHolds(retained, last, count) ==
  /\ \A n \in DOMAIN retained : retained[n] \in Sizes
  /\ \E first \in 1 .. last + 1 : DOMAIN retained = first .. last /\ (last > 0 => first <= last)
  /\ count = Total(retained, last)
  /\ count <= MaxBytes
  /\ Cardinality(DOMAIN retained) <= MaxEvents

LogHolds ==
  /\ epoch \in Nat /\ seq \in Nat
  /\ matching \subseteq 1 .. seq
  /\ RingHolds(ring, seq, bytes)

LEMMA SizesAreCounts == \A size \in Sizes : size \in 1 .. MaxBytes /\ size \in Nat /\ size <= MaxBytes
BY RingAssumption

(* Popping the events before first from what is counted leaves the count of *)
(* the others.                                                              *)
LEMMA CountedIs ==
  ASSUME seq \in Nat, RingHolds(ring, seq, bytes), NEW grown, NEW size \in Sizes, NEW first \in Nat,
         DOMAIN grown = DOMAIN ring \cup {seq + 1},
         grown[seq + 1] = size, \A n \in DOMAIN ring : grown[n] = ring[n]
  PROVE  Counted(grown, first) = Total(Onward(grown, first), seq + 1)
<1>1. PICK last \in Nat : last = seq + 1
  OBVIOUS
<1>2. \A n \in DOMAIN ring : ring[n] \in Nat /\ n \in 1 .. seq
  BY SizesAreCounts DEF RingHolds
<1>3. \A n \in DOMAIN grown : grown[n] \in Nat
  BY <1>2, SizesAreCounts
<1>4. PICK old, kept : old = Before(grown, first) /\ kept = Onward(grown, first)
  OBVIOUS
<1>5. /\ DOMAIN old = {n \in DOMAIN grown : n < first} /\ \A n \in DOMAIN old : old[n] = grown[n]
      /\ DOMAIN kept = {n \in DOMAIN grown : n >= first} /\ \A n \in DOMAIN kept : kept[n] = grown[n]
  BY <1>4 DEF Before, Onward
<1>6. \A n \in 1 .. last : Size(grown, n) = Size(old, n) + Size(kept, n)
  BY <1>3, <1>5 DEF Size
<1>7. Total(grown, last) = Total(old, last) + Total(kept, last)
  BY <1>3, <1>5, <1>6, TotalSplit
<1>8. Total(grown, last) = Total(grown, seq) + size
  BY <1>1, <1>3, TotalNext DEF Size
<1>9. Total(grown, seq) = Total(ring, seq)
  <2>1. \A n \in 1 .. seq : Size(grown, n) = Size(ring, n)
    BY <1>1 DEF Size
  <2> QED BY <1>2, <1>3, <2>1, TotalSame
<1>10. bytes = Total(ring, seq)
  BY DEF RingHolds
<1>11. Total(grown, seq) \in Nat /\ Total(old, last) \in Nat /\ Total(kept, last) \in Nat /\ size \in Nat
  BY <1>3, <1>5, TotalNatural, SizesAreCounts
<1>12. Counted(grown, first) = bytes + size - Total(old, last)
  BY <1>1, <1>4 DEF Counted
<1> QED BY <1>1, <1>4, <1>7, <1>8, <1>9, <1>10, <1>11, <1>12

(* The newest event alone fits, so the eviction stops at it at the latest.  *)
LEMMA NewestFits ==
  ASSUME seq \in Nat, RingHolds(ring, seq, bytes), NEW grown, NEW size \in Sizes,
         DOMAIN grown = DOMAIN ring \cup {seq + 1},
         grown[seq + 1] = size, \A n \in DOMAIN ring : grown[n] = ring[n]
  PROVE  /\ Cardinality(DOMAIN Onward(grown, seq + 1)) <= MaxEvents
         /\ Counted(grown, seq + 1) <= MaxBytes
<1>1. PICK last \in Nat : last = seq + 1
  OBVIOUS
<1>2. \A n \in DOMAIN ring : n \in 1 .. seq
  BY DEF RingHolds
<1>3. PICK kept : kept = Onward(grown, last)
  OBVIOUS
<1>4. DOMAIN kept = {last} /\ kept[last] = size
  BY <1>1, <1>2, <1>3 DEF Onward
<1>5. Cardinality(DOMAIN kept) = 1
  BY <1>4, FS_Singleton
<1>6. size \in Nat /\ size <= MaxBytes
  BY SizesAreCounts
<1>7. Total(kept, last) = Total(kept, seq) + size
  BY <1>1, <1>4, <1>6, TotalNext DEF Size
<1>8. Total(kept, seq) = 0
  <2>1. PICK none : none = [n \in {} |-> 0]
    OBVIOUS
  <2>2. DOMAIN none = {}
    BY <2>1
  <2>3. \A n \in 1 .. seq : Size(kept, n) = Size(none, n)
    BY <1>1, <1>4, <2>2 DEF Size
  <2>4. Total(kept, seq) = Total(none, seq)
    BY <1>4, <1>6, <2>2, <2>3, TotalSame
  <2> QED BY <2>2, <2>4, TotalNothing
<1>9. Counted(grown, last) = Total(kept, last)
  BY <1>1, <1>3, CountedIs
<1> QED BY <1>1, <1>3, <1>5, <1>6, <1>7, <1>8, <1>9, RingAssumption

LEMMA RingEmit ==
  ASSUME LogHolds, NEW size \in Sizes, NEW matches \in BOOLEAN, Emit(size, matches)
  PROVE  LogHolds'
<1> DEFINE G == [n \in DOMAIN ring \cup {seq + 1} |-> IF n = seq + 1 THEN size ELSE ring[n]]
<1>1. PICK grown, first : grown = G /\ first = First(grown)
  OBVIOUS
<1>2. /\ seq' = seq + 1 /\ epoch' = epoch /\ ring' = Onward(grown, first) /\ bytes' = Counted(grown, first)
      /\ matching' \subseteq matching \cup {seq + 1}
  BY <1>1 DEF Emit
<1>3. PICK oldest \in 1 .. seq + 1 : DOMAIN ring = oldest .. seq /\ (seq > 0 => oldest <= seq)
  BY DEF LogHolds, RingHolds
<1>4. seq \in Nat /\ epoch \in Nat /\ RingHolds(ring, seq, bytes) /\ matching \subseteq 1 .. seq
  BY DEF LogHolds
<1>5. DOMAIN grown = DOMAIN ring \cup {seq + 1} /\ grown[seq + 1] = size
  BY <1>1
<1>6. \A n \in DOMAIN ring : grown[n] = ring[n]
  BY <1>1, <1>3, <1>4
<1> HIDE DEF G
<1>7. DOMAIN grown = oldest .. seq + 1
  BY <1>3, <1>4, <1>5
<1> DEFINE C == {c \in DOMAIN grown \cup {seq + 2} :
                   /\ Cardinality(DOMAIN Onward(grown, c)) <= MaxEvents
                   /\ Counted(grown, c) <= MaxBytes}
<1>8. first = Min(C)
  BY <1>1 DEF First
<1>9. seq + 1 \in C
  BY <1>4, <1>5, <1>6, NewestFits
<1>10. C \in SUBSET Nat
  BY <1>3, <1>4, <1>7
<1>11. first \in C /\ first <= seq + 1
  <2> HIDE DEF C
  <2> QED BY <1>8, <1>9, <1>10, MinOf
<1>12. first \in oldest .. seq + 1 /\ first \in Nat
  BY <1>3, <1>4, <1>7, <1>11
<1>13. DOMAIN ring' = first .. seq + 1 /\ \A n \in DOMAIN ring' : ring'[n] = grown[n]
  BY <1>2, <1>3, <1>4, <1>7, <1>12 DEF Onward
<1>14. \A n \in DOMAIN ring' : ring'[n] \in Sizes
  BY <1>3, <1>4, <1>5, <1>6, <1>7, <1>12, <1>13 DEF RingHolds
<1>15. bytes' = Total(ring', seq + 1)
  BY <1>2, <1>4, <1>5, <1>6, <1>12, CountedIs
<1>16. bytes' <= MaxBytes /\ Cardinality(DOMAIN ring') <= MaxEvents
  BY <1>2, <1>11
<1>17. RingHolds(ring, seq, bytes)'
  <2>1. first \in 1 .. (seq + 1) + 1 /\ first <= seq + 1
    BY <1>3, <1>4, <1>12
  <2> QED BY <1>2, <1>13, <1>14, <1>15, <1>16, <2>1 DEF RingHolds
<1>18. seq' \in Nat /\ epoch' \in Nat /\ matching' \subseteq 1 .. seq'
  BY <1>2, <1>4
<1> QED BY <1>17, <1>18 DEF LogHolds

(* An empty log, as a daemon starts with.                                   *)
LEMMA EmptyLog ==
  ASSUME NEW r, r = [n \in {} |-> 0]
  PROVE  RingHolds(r, 0, 0)
<1>1. DOMAIN r = {} /\ DOMAIN r = 1 .. 0
  BY DEF RingHolds
<1>2. Total(r, 0) = 0
  BY <1>1, TotalNothing
<1>3. Cardinality(DOMAIN r) = 0
  BY <1>1, FS_EmptySet
<1> QED BY <1>1, <1>2, <1>3, RingAssumption DEF RingHolds

LEMMA LogStart == Init => LogHolds
<1> SUFFICES ASSUME Init PROVE LogHolds
  OBVIOUS
<1>1. RingHolds(ring, 0, 0)
  BY EmptyLog DEF Init
<1> QED BY <1>1 DEF Init, LogHolds

LEMMA LogStep == LogHolds /\ [Next]_vars => LogHolds'
<1> SUFFICES ASSUME LogHolds, [Next]_vars PROVE LogHolds'
  OBVIOUS
<1>1. ASSUME UNCHANGED logVars PROVE LogHolds'
  BY <1>1 DEF LogHolds, RingHolds, logVars
<1>2. ASSUME NEW r \in Readers,
             Ask(r) \/ Poll(r) \/ Stream(r) \/ StreamEnds(r) \/ Wait(r) \/ Resync(r) \/ DeadlinePasses(r)
      PROVE  UNCHANGED logVars
  <2>1. Lost(r) => UNCHANGED logVars
    BY DEF Lost
  <2>2. Poll(r) => UNCHANGED logVars
    BY <2>1 DEF Poll, PollRegisters, PollLost, PollAnswers, PollSleeps, PollWakes
  <2>3. Stream(r) => UNCHANGED logVars
    BY <2>1 DEF Stream, StreamOpens, StreamRefused, StreamFetches, StreamYields, StreamGap
  <2>4. Wait(r) => UNCHANGED logVars
    BY <2>1 DEF Wait, WaitStopped, WaitLost, WaitMatches, WaitMoves, WaitRescans, WaitReturns
  <2> QED BY <1>2, <2>2, <2>3, <2>4 DEF Ask, StreamEnds, Resync, DeadlinePasses
<1>3. CASE Restart
  <2>1. RingHolds(ring', 0, 0)
    BY <1>3, EmptyLog DEF Restart
  <2>2. epoch' \in Nat /\ seq' = 0 /\ bytes' = 0 /\ matching' = {}
    BY <1>3 DEF Restart, LogHolds
  <2> QED BY <2>1, <2>2 DEF LogHolds
<1>4. CASE Shutdown \/ UNCHANGED vars
  BY <1>1, <1>4 DEF Shutdown, vars
<1> QED BY <1>1, <1>2, <1>3, <1>4, RingEmit DEF Next

(* emit: the ring is the newest events without a hole, within both limits,  *)
(* and its byte count is theirs, whatever the sizes.                        *)
THEOREM RingIsExact == Spec => []RingFits
<1>1. LogHolds => RingFits
  <2> SUFFICES ASSUME LogHolds PROVE RingFits
    OBVIOUS
  <2>1. PICK first \in 1 .. seq + 1 : DOMAIN ring = first .. seq /\ (seq > 0 => first <= seq)
    BY DEF LogHolds, RingHolds
  <2>2. ASSUME seq > 0 PROVE Min(DOMAIN ring) = first
    <3>1. DOMAIN ring \in SUBSET Int /\ first \in DOMAIN ring /\ \A n \in DOMAIN ring : first <= n
      BY <2>1, <2>2 DEF LogHolds
    <3> QED BY <3>1, MinIs
  <2> QED BY <2>1, <2>2 DEF LogHolds, RingHolds, RingFits
<1> QED BY <1>1, LogStart, LogStep, PTL DEF Spec

-----------------------------------------------------------------------------
(* Cursors and what is read from them. *)

Cursor == [epoch : Nat, after : Nat]
Event == [epoch : Nat, seq : Nat]

(* The events s are those right behind cursor c; and the cursor after them. *)
Consecutive(c, s) == \A i \in 1 .. Len(s) : s[i] = [epoch |-> c.epoch, seq |-> c.after + i]
Behind(c, s) == [epoch |-> c.epoch, after |-> c.after + Len(s)]

LEMMA BehindIs ==
  ASSUME NEW c \in Cursor, NEW s \in Seq(Event)
  PROVE  /\ Behind(c, s) \in Cursor
         /\ Behind(c, s).epoch = c.epoch /\ Behind(c, s).after = c.after + Len(s)
BY DEF Behind, Cursor

LEMMA BehindNothing ==
  ASSUME NEW c \in Cursor
  PROVE  Behind(c, <<>>) = c /\ Consecutive(c, <<>>) /\ <<>> \in Seq(Event)
BY DEF Behind, Cursor, Consecutive

LEMMA SameCursor ==
  ASSUME NEW c \in Cursor, NEW d \in Cursor, c.epoch = d.epoch, c.after = d.after
  PROVE  c = d
BY DEF Cursor

LEMMA BehindBoth ==
  ASSUME NEW c \in Cursor, NEW s \in Seq(Event), NEW t \in Seq(Event),
         Consecutive(c, s), Consecutive(Behind(c, s), t)
  PROVE  /\ s \o t \in Seq(Event)
         /\ Consecutive(c, s \o t)
         /\ Behind(c, s \o t) = Behind(Behind(c, s), t)
<1>1. PICK u : u = s \o t
  OBVIOUS
<1>2. u \in Seq(Event) /\ Len(u) = Len(s) + Len(t)
  BY <1>1
<1>3. PICK d \in Cursor : d = Behind(c, s) /\ d.epoch = c.epoch /\ d.after = c.after + Len(s)
  BY BehindIs
<1>4. ASSUME NEW i \in 1 .. Len(u) PROVE u[i] = [epoch |-> c.epoch, seq |-> c.after + i]
  <2>1. CASE i <= Len(s)
    BY <1>1, <2>1 DEF Consecutive
  <2>2. CASE i > Len(s)
    <3>1. PICK j \in 1 .. Len(t) : j = i - Len(s)
      <4>1. Len(s) \in Nat /\ Len(t) \in Nat /\ i <= Len(s) + Len(t)
        BY <1>2
      <4>2. i - Len(s) \in 1 .. Len(t)
        BY <2>2, <4>1
      <4> QED BY <4>2
    <3>2. u[i] = t[j]
      BY <1>1, <1>2, <2>2, <3>1
    <3>3. t[j] = [epoch |-> d.epoch, seq |-> d.after + j]
      BY <1>3 DEF Consecutive
    <3>4. d.after + j = c.after + i
      BY <1>3, <3>1 DEF Cursor
    <3> QED BY <1>3, <3>2, <3>3, <3>4
  <2> QED BY <2>1, <2>2
<1>5. Behind(c, u) = Behind(d, t)
  <2>1. c.after + Len(u) = d.after + Len(t)
    BY <1>2, <1>3 DEF Cursor
  <2> QED BY <1>3, <2>1 DEF Behind
<1> QED BY <1>1, <1>2, <1>3, <1>4, <1>5 DEF Consecutive

(* One event more, and one less to come.                                    *)
LEMMA OneMore ==
  ASSUME NEW c \in Cursor, NEW s \in Seq(Event), NEW t \in Seq(Event), t # <<>>,
         Consecutive(c, s), Consecutive(Behind(c, s), t)
  PROVE  /\ Append(s, Head(t)) \in Seq(Event) /\ Tail(t) \in Seq(Event)
         /\ Consecutive(c, Append(s, Head(t)))
         /\ Consecutive(Behind(c, Append(s, Head(t))), Tail(t))
         /\ Behind(Behind(c, Append(s, Head(t))), Tail(t)) = Behind(Behind(c, s), t)
         /\ Behind(c, Append(s, Head(t))).after <= Behind(Behind(c, s), t).after
<1>1. PICK d \in Cursor : d = Behind(c, s) /\ d.epoch = c.epoch /\ d.after = c.after + Len(s)
  BY BehindIs
<1>2. PICK e, rest : e = Head(t) /\ rest = Tail(t)
  OBVIOUS
<1>3. e \in Event /\ e = t[1] /\ rest \in Seq(Event) /\ Len(t) \in Nat /\ 1 <= Len(t)
  BY <1>2, TailOf
<1>4. Len(rest) = Len(t) - 1 /\ \A i \in 1 .. Len(rest) : i + 1 \in 1 .. Len(t) /\ rest[i] = t[i + 1]
  BY <1>2, TailOf
<1>5. e = [epoch |-> d.epoch, seq |-> d.after + 1]
  BY <1>1, <1>3 DEF Consecutive
<1>6. PICK u : u = Append(s, e)
  OBVIOUS
<1>7. /\ u \in Seq(Event) /\ Len(u) = Len(s) + 1 /\ u[Len(s) + 1] = e
      /\ \A i \in 1 .. Len(s) : u[i] = s[i]
  BY <1>3, <1>6, AppendTo
<1>8. ASSUME NEW i \in 1 .. Len(u) PROVE u[i] = [epoch |-> c.epoch, seq |-> c.after + i]
  <2>1. CASE i = Len(s) + 1
    <3>1. d.after + 1 = c.after + i
      BY <1>1, <2>1 DEF Cursor
    <3> QED BY <1>1, <1>5, <1>7, <2>1, <3>1
  <2>2. CASE i # Len(s) + 1
    <3>1. i \in 1 .. Len(s)
      <4>1. Len(s) \in Nat
        OBVIOUS
      <4> QED BY <1>7, <2>2, <4>1
    <3> QED BY <1>7, <3>1 DEF Consecutive
  <2> QED BY <2>1, <2>2
<1>9. PICK f \in Cursor : f = Behind(c, u) /\ f.epoch = c.epoch /\ f.after = c.after + Len(u)
  BY <1>7, BehindIs
<1>10. f.epoch = d.epoch /\ f.after = d.after + 1 /\ d.after \in Nat
  BY <1>1, <1>7, <1>9 DEF Cursor
<1>11. ASSUME NEW i \in 1 .. Len(rest) PROVE rest[i] = [epoch |-> f.epoch, seq |-> f.after + i]
  <2>1. rest[i] = [epoch |-> d.epoch, seq |-> d.after + (i + 1)]
    BY <1>1, <1>4 DEF Consecutive
  <2>2. d.after + (i + 1) = f.after + i
    <3>1. i \in Int
      OBVIOUS
    <3>2. PICK m \in Nat : m = d.after
      BY <1>10
    <3>3. PICK n \in Nat : n = m + 1 /\ n = f.after
      BY <1>10, <3>2
    <3>4. m + (i + 1) = n + i
      BY <3>1, <3>3
    <3> QED BY <3>2, <3>3, <3>4
  <2>3. rest[i] = [epoch |-> f.epoch, seq |-> d.after + (i + 1)]
    BY <1>10, <2>1
  <2> QED BY <2>2, <2>3
<1>12. Behind(f, rest) = Behind(d, t) /\ f.after <= Behind(d, t).after
  <2>1. f.after + Len(rest) = d.after + Len(t) /\ f.after <= d.after + Len(t)
    <3>1. PICK m, n \in Nat : m = Len(rest) /\ n = Len(t) /\ 1 <= n
      BY <1>3
    <3>2. m = n - 1
      BY <1>4, <3>1
    <3>3. f.after + m = d.after + n /\ f.after <= d.after + n
      BY <1>10, <3>1, <3>2
    <3> QED BY <3>1, <3>3
  <2> QED BY <1>10, <2>1 DEF Behind
<1>13. Consecutive(c, u) /\ Consecutive(f, rest)
  BY <1>8, <1>11 DEF Consecutive
<1> QED BY <1>1, <1>2, <1>3, <1>6, <1>7, <1>9, <1>12, <1>13

(* A cursor that is not refused is answered with every event behind it.     *)
LEMMA BatchIs ==
  ASSUME LogHolds, NEW c \in Cursor, ~Refused(c)
  PROVE  /\ Batch(c) \in Seq(Event)
         /\ Consecutive(c, Batch(c))
         /\ Behind(c, Batch(c)) = Now
         /\ c.epoch = epoch /\ c.after <= seq
         /\ After(c) = c.after + 1 .. seq
<1>1. seq \in Nat /\ epoch \in Nat /\ c.after \in Nat /\ c.epoch = epoch /\ c.after <= seq /\ ~Evicted(c)
  BY DEF LogHolds, Refused, Restarted, Ahead, Cursor
<1>2. PICK first \in 1 .. seq + 1 : DOMAIN ring = first .. seq /\ (seq > 0 => first <= seq)
  BY DEF LogHolds, RingHolds
<1>3. After(c) = c.after + 1 .. seq
  <2>1. CASE seq = 0
    BY <1>1, <1>2, <2>1 DEF After
  <2>2. CASE seq > 0
    <3>1. DOMAIN ring \in SUBSET Int /\ first \in DOMAIN ring /\ \A n \in DOMAIN ring : first <= n
      BY <1>1, <1>2, <2>2
    <3>2. Min(DOMAIN ring) = first
      BY <3>1, MinIs
    <3>3. first <= c.after + 1
      BY <1>1, <1>2, <3>1, <3>2 DEF Evicted
    <3> QED BY <1>1, <1>2, <3>3 DEF After
  <2> QED BY <1>1, <2>1, <2>2
<1>4. PICK batch : batch = Batch(c)
  OBVIOUS
<1>5. CASE c.after = seq
  <2>1. After(c) = {}
    BY <1>1, <1>3, <1>5
  <2>2. batch = <<>>
    BY <1>4, <2>1 DEF Batch
  <2>3. Now = c
    BY <1>1, <1>5 DEF Now, Cursor
  <2> QED BY <1>1, <1>3, <1>4, <2>2, <2>3, BehindNothing
<1>6. CASE c.after < seq
  <2>1. PICK n \in Nat : n = seq - c.after
    BY <1>1, <1>6
  <2>2. PICK low, high \in Nat : low = c.after + 1 /\ high = seq
    BY <1>1
  <2>3. After(c) = low .. high /\ low <= high
    BY <1>1, <1>3, <1>6, <2>2
  <2>4. Cardinality(low .. high) = n
    <3>1. low \in Int /\ high \in Int
      BY <1>1, <2>2
    <3>2. Cardinality(low .. high) = high - low + 1
      BY <2>3, <3>1, <1>1, <2>2, FS_Interval
    <3> QED BY <1>1, <2>1, <2>2, <3>2
  <2>5. Min(low .. high) = low
    <3>1. low .. high \in SUBSET Int /\ low \in low .. high /\ \A k \in low .. high : low <= k
      BY <1>1, <2>2, <2>3
    <3> QED BY <3>1, MinIs
  <2>6. After(c) # {}
    BY <1>1, <2>2, <2>3
  <2>7. batch = [i \in 1 .. n |-> [epoch |-> epoch, seq |-> low + i - 1]]
    BY <1>4, <2>3, <2>4, <2>5, <2>6 DEF Batch
  <2>8. ASSUME NEW i \in 1 .. n PROVE batch[i] = [epoch |-> c.epoch, seq |-> c.after + i] /\ batch[i] \in Event
    <3>1. low + i - 1 = c.after + i /\ low + i - 1 \in Nat
      BY <1>1, <2>2
    <3>2. batch[i] = [epoch |-> epoch, seq |-> low + i - 1]
      BY <2>7
    <3> QED BY <1>1, <3>1, <3>2 DEF Event
  <2>9. batch \in Seq(Event) /\ Len(batch) = n
    <3>1. batch \in [1 .. n -> Event]
      BY <2>7, <2>8
    <3> QED BY <3>1
  <2>10. Behind(c, batch) = Now
    <3>1. c.after + n = seq
      BY <1>1, <2>1
    <3> QED BY <1>1, <2>9, <3>1 DEF Behind, Now
  <2>11. Consecutive(c, batch)
    BY <2>8, <2>9 DEF Consecutive
  <2> QED BY <1>1, <1>3, <1>4, <2>9, <2>10, <2>11
<1> QED BY <1>1, <1>5, <1>6

-----------------------------------------------------------------------------
(* A reader. *)

(* Where it stands: behind what it was given.                               *)
Spot(r) == Behind(from[r], heard[r])

(* The daemon has got there.                                                *)
Known(c) == c.epoch <= epoch /\ (c.epoch = epoch => c.after <= seq)

Missed(r) == {n \in matching : Spot(r).after < n}

Following == {"idle", "poll", "registered", "asleep", "stream", "open"}
Scanning == {"scan", "pause", "answered", "timeout"}

ReaderTyped(r) ==
  /\ pc[r] \in Following \cup Scanning \cup {"resync"}
  /\ cursor[r] \in Cursor /\ from[r] \in Cursor
  /\ heard[r] \in Seq(Event) /\ out[r] \in Seq(Event)

(* What it was given has no hole, and no more has what is on its way.       *)
Heard(r) ==
  /\ Consecutive(from[r], heard[r])
  /\ Consecutive(Spot(r), out[r])
  /\ pc[r] # "open" => out[r] = <<>>
  /\ pc[r] \in Following => cursor[r] = Behind(Spot(r), out[r])
  /\ Known(cursor[r]) /\ Known(Spot(r))

(* No match is behind the scan.                                             *)
Scanned(r) ==
  /\ pc[r] \in Scanning =>
       /\ cursor[r].epoch = Spot(r).epoch
       /\ Spot(r).after <= cursor[r].after
       /\ cursor[r].epoch = epoch => \A n \in Missed(r) : cursor[r].after < n
  /\ pc[r] = "answered" =>
       /\ cursor[r].epoch = epoch
       /\ match[r] \in Missed(r)
       /\ \A n \in Missed(r) : match[r] <= n
  /\ pc[r] = "timeout" => cursor[r].epoch = epoch

Reads(r) == ReaderTyped(r) /\ Heard(r) /\ Scanned(r)

Tables ==
  /\ DOMAIN pc = Readers /\ DOMAIN cursor = Readers /\ DOMAIN out = Readers
  /\ DOMAIN match = Readers /\ DOMAIN from = Readers /\ DOMAIN heard = Readers

LogInv == LogHolds /\ Tables /\ \A r \in Readers : Reads(r)

(* The client's place is that spot.                                         *)
LEMMA PlaceIs ==
  ASSUME NEW r, ReaderTyped(r), Heard(r)
  PROVE  Place(r) = Spot(r) /\ Spot(r) \in Cursor
<1>1. PICK c \in Cursor, s \in Seq(Event) : c = from[r] /\ s = heard[r] /\ Consecutive(c, s)
  BY DEF ReaderTyped, Heard
<1>2. CASE s = <<>>
  BY <1>1, <1>2, BehindNothing DEF Place, Spot
<1>3. CASE s # <<>>
  <2>1. PICK n \in Nat : n = Len(s) /\ n \in 1 .. Len(s)
    BY <1>3
  <2>2. s[n] = [epoch |-> c.epoch, seq |-> c.after + n]
    BY <1>1, <2>1 DEF Consecutive
  <2>3. s[n].epoch = c.epoch /\ s[n].seq = c.after + n
    BY <2>2
  <2>4. Place(r) = [epoch |-> s[n].epoch, after |-> s[n].seq]
    BY <1>1, <1>3, <2>1 DEF Place, Last
  <2>5. Place(r) = Behind(c, s)
    BY <2>1, <2>3, <2>4 DEF Behind
  <2> QED BY <1>1, <2>5, BehindIs DEF Spot
<1> QED BY <1>1, <1>2, <1>3, BehindIs DEF Spot

LEMMA ReadsStart == Init => LogInv
<1> SUFFICES ASSUME Init PROVE LogInv
  OBVIOUS
<1>1. Start \in Cursor /\ Start.epoch = 1 /\ Start.after = 0
  BY DEF Start, Cursor
<1>2. <<>> \in Seq(Event) /\ Behind(Start, <<>>) = Start /\ Consecutive(Start, <<>>)
  BY <1>1, BehindNothing
<1>3. ASSUME NEW r \in Readers PROVE Reads(r)
  <2>1. /\ pc[r] = "idle" /\ cursor[r] = Start /\ from[r] = Start /\ out[r] = <<>> /\ heard[r] = <<>>
        /\ epoch = 1 /\ seq = 0
    BY DEF Init
  <2>2. Spot(r) = Start /\ Known(Start)
    BY <1>1, <1>2, <2>1 DEF Spot, Known
  <2> QED BY <1>1, <1>2, <2>1, <2>2 DEF Reads, ReaderTyped, Heard, Scanned, Following, Scanning
<1>4. Tables
  BY DEF Init, Tables
<1> QED BY <1>3, <1>4, LogStart DEF LogInv

-----------------------------------------------------------------------------
(* Steps of the log, as a reader sees them. *)

(* A reader's own state.                                                    *)
Same(r) ==
  /\ pc'[r] = pc[r] /\ cursor'[r] = cursor[r] /\ out'[r] = out[r] /\ match'[r] = match[r]
  /\ from'[r] = from[r] /\ heard'[r] = heard[r]

LEMMA ReadsSame ==
  ASSUME NEW r, Reads(r), Same(r), UNCHANGED <<epoch, seq, matching>>
  PROVE  Reads(r)'
<1>1. Spot(r)' = Spot(r) /\ Missed(r)' = Missed(r)
  BY DEF Same, Spot, Missed, Behind
<1>2. ReaderTyped(r)'
  BY DEF Reads, Same, ReaderTyped
<1>3. Known(cursor[r])' /\ Known(Spot(r))'
  BY <1>1 DEF Reads, Heard, Same, Known
<1>4. Heard(r)'
  BY <1>1, <1>3 DEF Reads, Heard, Same, Consecutive, Behind
<1>5. Scanned(r)'
  BY <1>1 DEF Reads, Scanned, Same
<1> QED BY <1>2, <1>4, <1>5 DEF Reads

(* A new event is behind every cursor.                                      *)
LEMMA ReadsEmit ==
  ASSUME LogHolds, NEW r, Reads(r), Same(r), NEW size, NEW matches, Emit(size, matches)
  PROVE  Reads(r)'
<1>1. Spot(r)' = Spot(r)
  BY DEF Same, Spot, Behind
<1>2. /\ epoch' = epoch /\ seq' = seq + 1 /\ seq \in Nat /\ matching \subseteq 1 .. seq
      /\ matching' = matching \/ matching' = matching \cup {seq + 1}
  BY DEF Emit, LogHolds
<1>3. Spot(r) \in Cursor /\ cursor[r] \in Cursor
  BY PlaceIs DEF Reads, ReaderTyped
<1>4. Spot(r).after \in Nat /\ cursor[r].after \in Nat
  BY <1>3 DEF Cursor
<1>5. ReaderTyped(r)'
  BY DEF Reads, Same, ReaderTyped
<1>6. Known(cursor[r])' /\ Known(Spot(r))'
  BY <1>1, <1>2, <1>4 DEF Reads, Heard, Same, Known
<1>7. Heard(r)'
  BY <1>1, <1>6 DEF Reads, Heard, Same, Consecutive, Behind
<1>8. /\ \A n \in Missed(r)' : n \in Missed(r) \/ n = seq + 1
      /\ Missed(r) \subseteq Missed(r)'
      /\ Missed(r) \subseteq 1 .. seq
  BY <1>1, <1>2 DEF Missed
<1>9. Scanned(r)'
  <2>1. ASSUME pc[r] \in Scanning, cursor[r].epoch = epoch, NEW n \in Missed(r)' PROVE cursor[r].after < n
    <3>1. cursor[r].after <= seq
      BY <2>1 DEF Reads, Heard, Known
    <3>2. CASE n \in Missed(r)
      BY <2>1, <3>2 DEF Reads, Scanned
    <3>3. CASE n = seq + 1
      BY <1>2, <1>4, <3>1, <3>3
    <3> QED BY <1>8, <2>1, <3>2, <3>3
  <2>2. ASSUME pc[r] = "answered", NEW n \in Missed(r)' PROVE match[r] <= n
    <3>1. match[r] \in Missed(r) /\ match[r] \in 1 .. seq
      BY <1>8, <2>2 DEF Reads, Scanned
    <3>2. CASE n \in Missed(r)
      BY <2>2, <3>2 DEF Reads, Scanned
    <3>3. CASE n = seq + 1
      BY <1>2, <3>1, <3>3
    <3> QED BY <1>8, <2>2, <3>2, <3>3
  <2>3. pc[r] = "answered" => match[r] \in Missed(r)'
    BY <1>8 DEF Reads, Scanned
  <2> QED BY <1>1, <1>2, <2>1, <2>2, <2>3 DEF Reads, Scanned, Same
<1> QED BY <1>5, <1>7, <1>9 DEF Reads

(* A new daemon: every request is gone, and every client where it stood.    *)
LEMMA ReadsRestart ==
  ASSUME LogHolds, NEW r \in Readers, Reads(r), Restart
  PROVE  Reads(r)'
<1>1. /\ pc'[r] = (IF pc[r] = "resync" THEN "resync" ELSE "idle") /\ cursor'[r] = Place(r)
      /\ out'[r] = <<>> /\ from'[r] = from[r] /\ heard'[r] = heard[r]
      /\ epoch' = epoch + 1 /\ epoch \in Nat
  BY DEF Restart, LogHolds
<1>2. Place(r) = Spot(r) /\ Spot(r) \in Cursor
  BY PlaceIs DEF Reads
<1>3. Spot(r)' = Spot(r)
  BY <1>1 DEF Spot, Behind
<1>4. Spot(r).epoch <= epoch /\ Spot(r).epoch \in Nat
  BY <1>2 DEF Reads, Heard, Known, Cursor
<1>5. <<>> \in Seq(Event) /\ Behind(Spot(r), <<>>) = Spot(r) /\ Consecutive(Spot(r), <<>>)
  BY <1>2, BehindNothing
<1>6. ReaderTyped(r)'
  BY <1>1, <1>2, <1>5 DEF Reads, ReaderTyped, Following
<1>7. Known(Spot(r))'
  BY <1>1, <1>3, <1>4 DEF Known
<1>8. Known(cursor[r])'
  BY <1>1, <1>2, <1>3, <1>7 DEF Known
<1>9. pc'[r] \notin Scanning
  BY <1>1 DEF Scanning
<1>10. Consecutive(from[r], heard[r])' /\ Consecutive(Spot(r), out[r])'
  BY <1>1, <1>3, <1>5 DEF Reads, Heard, Consecutive
<1>11. (cursor[r] = Behind(Spot(r), out[r]))'
  BY <1>1, <1>2, <1>3, <1>5 DEF Behind
<1>12. Heard(r)'
  BY <1>1, <1>7, <1>8, <1>10, <1>11 DEF Heard
<1>13. Scanned(r)'
  BY <1>9 DEF Scanned, Scanning
<1> QED BY <1>6, <1>12, <1>13 DEF Reads

-----------------------------------------------------------------------------
(* A reader's own steps. *)

(* The request goes on with nothing read.                                   *)
LEMMA ReadsMove ==
  ASSUME NEW r, Reads(r), UNCHANGED <<epoch, seq, matching>>,
         cursor'[r] = cursor[r], out'[r] = out[r], match'[r] = match[r],
         from'[r] = from[r], heard'[r] = heard[r],
         pc'[r] \in Following \cup {"scan", "pause", "resync"},
         pc'[r] # "open" => out[r] = <<>>,
         pc'[r] \in Following => pc[r] \in Following,
         pc'[r] \in {"scan", "pause"} => pc[r] \in {"scan", "pause", "idle"}
  PROVE  Reads(r)'
<1>1. Spot(r)' = Spot(r) /\ Missed(r)' = Missed(r)
  BY DEF Spot, Missed, Behind
<1>2. Known(cursor[r])' /\ Known(Spot(r))'
  BY <1>1 DEF Reads, Heard, Known
<1>3. ReaderTyped(r)'
  BY DEF Reads, ReaderTyped, Scanning
<1>4. Heard(r)'
  BY <1>1, <1>2 DEF Reads, Heard, Consecutive, Behind
<1>5. Scanned(r)'
  <2>1. pc'[r] \notin {"answered", "timeout"}
    BY DEF Following
  <2>2. CASE pc[r] \in {"scan", "pause"}
    BY <1>1, <2>1, <2>2 DEF Reads, Scanned, Scanning
  <2>3. CASE pc[r] = "idle"
    <3>1. out[r] = <<>> /\ Spot(r) \in Cursor
      BY <2>3, PlaceIs DEF Reads, Heard
    <3>2. cursor[r] = Spot(r)
      BY <2>3, <3>1, BehindNothing DEF Reads, Heard, Following
    <3>3. Spot(r).after <= cursor[r].after /\ \A n \in Missed(r) : cursor[r].after < n
      BY <3>1, <3>2 DEF Missed, Cursor
    <3> QED BY <1>1, <2>1, <3>2, <3>3 DEF Scanned
  <2>4. CASE pc'[r] \notin Scanning
    BY <2>4 DEF Scanned, Scanning
  <2> QED BY <2>1, <2>2, <2>3, <2>4 DEF Scanning
<1> QED BY <1>3, <1>4, <1>5 DEF Reads

(* The request is over and the client stands where its cursor is.           *)
LEMMA ReadsRests ==
  ASSUME NEW r, pc'[r] = "idle", out'[r] = <<>>,
         cursor'[r] \in Cursor, from'[r] \in Cursor, heard'[r] \in Seq(Event),
         Consecutive(from'[r], heard'[r]), Behind(from'[r], heard'[r]) = cursor'[r],
         Known(cursor[r])'
  PROVE  Reads(r)'
<1>1. Spot(r)' = cursor'[r]
  BY DEF Spot, Behind
<1>2. Behind(cursor'[r], <<>>) = cursor'[r] /\ Consecutive(cursor'[r], <<>>) /\ <<>> \in Seq(Event)
  BY BehindNothing
<1>3. ReaderTyped(r)'
  BY <1>2 DEF ReaderTyped, Following
<1>4. Known(Spot(r))'
  BY <1>1 DEF Known
<1>5. Consecutive(Spot(r), out[r])' /\ Behind(Spot(r), out[r])' = cursor'[r]
  BY <1>1, <1>2 DEF Consecutive, Behind
<1>6. Consecutive(from[r], heard[r])'
  BY DEF Consecutive
<1>7. Heard(r)'
  BY <1>4, <1>5, <1>6 DEF Heard
<1>8. Scanned(r)'
  BY DEF Scanned, Scanning
<1> QED BY <1>3, <1>7, <1>8 DEF Reads

LEMMA NowIsKnown ==
  ASSUME LogHolds, UNCHANGED <<epoch, seq>>
  PROVE  Now \in Cursor /\ \A r : cursor'[r] = Now => Known(cursor[r])'
<1>1. epoch \in Nat /\ seq \in Nat
  BY DEF LogHolds
<1>2. Now \in Cursor /\ Now.epoch = epoch /\ Now.after = seq
  BY <1>1 DEF Now, Cursor
<1> QED BY <1>1, <1>2 DEF Known

(* Outside a stream and a scan the cursor is where the client stands.       *)
LEMMA StandsAtCursor ==
  ASSUME NEW r, Reads(r), pc[r] \in Following, out[r] = <<>>
  PROVE  cursor[r] = Spot(r) /\ cursor[r] \in Cursor
<1>1. Spot(r) \in Cursor
  BY PlaceIs DEF Reads
<1> QED BY <1>1, BehindNothing DEF Reads, Heard

LEMMA ReadsGiven ==
  ASSUME LogInv, NEW r \in Readers, PollAnswers(r)
  PROVE  Reads(r)'
<1> DEFINE c == cursor[r]
           batch == Batch(c)
<1>1. /\ pc[r] = "registered" /\ ~Refused(c) /\ UNCHANGED <<epoch, seq>>
      /\ pc'[r] = "idle" /\ out'[r] = out[r] /\ from'[r] = from[r]
      /\ heard'[r] = heard[r] \o batch /\ cursor'[r] = Now
  BY DEF LogInv, Tables, PollAnswers, Given, Goto, logVars
<1>2. Reads(r) /\ LogHolds
  BY DEF LogInv
<1>3. out[r] = <<>> /\ from[r] \in Cursor /\ heard[r] \in Seq(Event) /\ Consecutive(from[r], heard[r])
  BY <1>1, <1>2 DEF Reads, ReaderTyped, Heard
<1>4. c = Spot(r) /\ c \in Cursor
  BY <1>1, <1>2, <1>3, StandsAtCursor DEF Following
<1>5. batch \in Seq(Event) /\ Consecutive(c, batch) /\ Behind(c, batch) = Now
  <2> HIDE DEF c
  <2> QED BY <1>1, <1>2, <1>4, BatchIs
<1>6. /\ heard[r] \o batch \in Seq(Event) /\ Consecutive(from[r], heard[r] \o batch)
      /\ Behind(from[r], heard[r] \o batch) = Now
  <2> HIDE DEF c, batch
  <2> QED BY <1>3, <1>4, <1>5, BehindBoth DEF Spot
<1>7. Now \in Cursor /\ Known(cursor[r])'
  BY <1>1, <1>2, NowIsKnown
<1> HIDE DEF c, batch
<1>8. /\ cursor'[r] \in Cursor /\ from'[r] \in Cursor /\ heard'[r] \in Seq(Event) /\ out'[r] = <<>>
      /\ Consecutive(from'[r], heard'[r]) /\ Behind(from'[r], heard'[r]) = cursor'[r]
  BY <1>1, <1>3, <1>6, <1>7
<1> QED BY <1>1, <1>7, <1>8, ReadsRests

LEMMA ReadsFetches ==
  ASSUME LogInv, NEW r \in Readers, StreamFetches(r)
  PROVE  Reads(r)'
<1> DEFINE c == cursor[r]
           batch == Batch(c)
<1>1. /\ pc[r] = "open" /\ ~Refused(c) /\ UNCHANGED <<epoch, seq>> /\ out[r] = <<>>
      /\ pc'[r] = "open" /\ out'[r] = batch /\ from'[r] = from[r]
      /\ heard'[r] = heard[r] /\ cursor'[r] = Now
  BY DEF LogInv, Tables, StreamFetches, logVars
<1>2. Reads(r) /\ LogHolds
  BY DEF LogInv
<1>3. c = Spot(r) /\ c \in Cursor
  BY <1>1, <1>2, StandsAtCursor DEF Following
<1>4. batch \in Seq(Event) /\ Consecutive(c, batch) /\ Behind(c, batch) = Now
  <2> HIDE DEF c
  <2> QED BY <1>1, <1>2, <1>3, BatchIs
<1>5. Now \in Cursor /\ Known(cursor[r])'
  BY <1>1, <1>2, NowIsKnown
<1>6. Spot(r)' = Spot(r)
  BY <1>1 DEF Spot, Behind
<1>7. Known(Spot(r))'
  BY <1>1, <1>2, <1>6 DEF Reads, Heard, Known
<1> HIDE DEF c, batch
<1>8. Consecutive(Spot(r), out[r])' /\ Behind(Spot(r), out[r])' = cursor'[r]
  BY <1>1, <1>3, <1>4, <1>6 DEF Consecutive, Behind
<1>9. Consecutive(from[r], heard[r])'
  BY <1>1, <1>2 DEF Reads, Heard, Consecutive
<1>10. ReaderTyped(r)'
  BY <1>1, <1>2, <1>4, <1>5 DEF Reads, ReaderTyped
<1>11. Heard(r)'
  BY <1>1, <1>5, <1>7, <1>8, <1>9 DEF Heard
<1>12. Scanned(r)'
  BY <1>1 DEF Scanned, Scanning
<1> QED BY <1>10, <1>11, <1>12 DEF Reads

LEMMA ReadsYields ==
  ASSUME LogInv, NEW r \in Readers, StreamYields(r)
  PROVE  Reads(r)'
<1>1. /\ pc[r] = "open" /\ UNCHANGED <<epoch, seq>> /\ out[r] # <<>>
      /\ pc'[r] = "open" /\ out'[r] = Tail(out[r]) /\ from'[r] = from[r]
      /\ heard'[r] = Append(heard[r], Head(out[r])) /\ cursor'[r] = cursor[r]
  BY DEF LogInv, Tables, StreamYields, logVars
<1>2. Reads(r) /\ LogHolds
  BY DEF LogInv
<1>3. /\ from[r] \in Cursor /\ cursor[r] \in Cursor /\ heard[r] \in Seq(Event) /\ out[r] \in Seq(Event)
      /\ Consecutive(from[r], heard[r]) /\ Consecutive(Spot(r), out[r])
      /\ cursor[r] = Behind(Spot(r), out[r]) /\ Known(cursor[r])
  BY <1>1, <1>2 DEF Reads, ReaderTyped, Heard, Following
<1>4. PICK c \in Cursor, s \in Seq(Event), t \in Seq(Event) : c = from[r] /\ s = heard[r] /\ t = out[r]
  BY <1>3
<1>5. PICK u, rest : u = Append(s, Head(t)) /\ rest = Tail(t)
  OBVIOUS
<1>6. Spot(r) = Behind(c, s)
  BY <1>4 DEF Spot
<1>7. /\ u \in Seq(Event) /\ rest \in Seq(Event)
      /\ Consecutive(c, u) /\ Consecutive(Behind(c, u), rest)
      /\ Behind(Behind(c, u), rest) = Behind(Behind(c, s), t)
      /\ Behind(c, u).after <= Behind(Behind(c, s), t).after
  BY <1>1, <1>3, <1>4, <1>5, <1>6, OneMore
<1>8. heard'[r] = u /\ out'[r] = rest /\ from'[r] = c
  BY <1>1, <1>4, <1>5
<1>9. Spot(r)' = Behind(c, u)
  BY <1>8 DEF Spot, Behind
<1>10. PICK d \in Cursor : d = Behind(c, u) /\ d.epoch = c.epoch
  BY <1>7, BehindIs
<1>11. Behind(d, rest) = cursor[r] /\ cursor[r].epoch = d.epoch /\ d.after <= cursor[r].after
  <2>1. Behind(d, rest) = cursor[r] /\ d.after <= cursor[r].after
    BY <1>3, <1>4, <1>6, <1>7, <1>10
  <2>2. Behind(d, rest).epoch = d.epoch
    BY <1>7, BehindIs
  <2> QED BY <2>1, <2>2
<1>12. Known(cursor[r])' /\ Known(Spot(r))'
  <2>1. Known(d)'
    <3>1. /\ d.after \in Nat /\ cursor[r].after \in Nat /\ seq \in Nat
          /\ cursor[r].epoch <= epoch /\ (cursor[r].epoch = epoch => cursor[r].after <= seq)
      BY <1>2, <1>3 DEF Cursor, Known, LogHolds
    <3> QED BY <1>1, <1>11, <3>1 DEF Known
  <2> QED BY <1>1, <1>3, <1>9, <1>10, <2>1 DEF Known
<1>13. Consecutive(from[r], heard[r])'
  BY <1>7, <1>8 DEF Consecutive
<1>14. Consecutive(Spot(r), out[r])' /\ Behind(Spot(r), out[r])' = cursor'[r]
  BY <1>1, <1>7, <1>8, <1>9, <1>10, <1>11 DEF Consecutive, Behind
<1>15. ReaderTyped(r)'
  BY <1>1, <1>3, <1>4, <1>7, <1>8 DEF ReaderTyped, Following
<1>16. Heard(r)'
  BY <1>1, <1>12, <1>13, <1>14 DEF Heard
<1>17. Scanned(r)'
  BY <1>1 DEF Scanned, Scanning
<1> QED BY <1>15, <1>16, <1>17 DEF Reads

(* A connection that drops, a wait that is stopped: the client asks again   *)
(* from where it stands.                                                    *)
LEMMA ReadsLeaves ==
  ASSUME LogInv, NEW r \in Readers, StreamEnds(r) \/ WaitStopped(r)
  PROVE  Reads(r)'
<1>1. Reads(r)
  BY DEF LogInv
<1>2. /\ UNCHANGED <<epoch, seq>> /\ pc'[r] = "idle" /\ cursor'[r] = Place(r)
      /\ from'[r] = from[r] /\ heard'[r] = heard[r]
  BY DEF LogInv, Tables, StreamEnds, WaitStopped, Goto, logVars
<1>3. out'[r] = <<>>
  <2>1. CASE StreamEnds(r)
    BY <2>1 DEF LogInv, Tables, StreamEnds
  <2>2. CASE WaitStopped(r)
    BY <1>1, <2>2 DEF WaitStopped, Reads, Heard
  <2> QED BY <2>1, <2>2
<1>4. Place(r) = Spot(r) /\ Spot(r) \in Cursor
  BY <1>1, PlaceIs DEF Reads
<1>5. Known(cursor[r])'
  BY <1>1, <1>2, <1>4 DEF Reads, Heard, Known
<1>6. /\ cursor'[r] \in Cursor /\ from'[r] \in Cursor /\ heard'[r] \in Seq(Event)
      /\ Consecutive(from'[r], heard'[r]) /\ Behind(from'[r], heard'[r]) = cursor'[r]
  BY <1>1, <1>2, <1>4 DEF Reads, ReaderTyped, Heard, Spot
<1> QED BY <1>2, <1>3, <1>5, <1>6, ReadsRests

LEMMA ReadsResyncs ==
  ASSUME LogInv, NEW r \in Readers, Resync(r)
  PROVE  Reads(r)'
<1>1. Reads(r) /\ LogHolds
  BY DEF LogInv
<1>2. /\ UNCHANGED <<epoch, seq>> /\ pc[r] = "resync" /\ pc'[r] = "idle" /\ cursor'[r] = Now
      /\ from'[r] = Now /\ heard'[r] = <<>> /\ out'[r] = out[r]
  BY DEF LogInv, Tables, Resync, Goto, logVars
<1>3. out'[r] = <<>>
  BY <1>1, <1>2 DEF Reads, Heard
<1>4. Now \in Cursor /\ Known(cursor[r])'
  BY <1>1, <1>2, NowIsKnown
<1>5. <<>> \in Seq(Event) /\ Consecutive(Now, <<>>) /\ Behind(Now, <<>>) = Now
  BY <1>4, BehindNothing
<1> QED BY <1>2, <1>3, <1>4, <1>5, ReadsRests

(* What a scan is served is what it has missed.                             *)
LEMMA ScanSees ==
  ASSUME LogInv, NEW r \in Readers, pc[r] \in Scanning, ~Refused(cursor[r])
  PROVE  /\ cursor[r].epoch = epoch /\ cursor[r].after <= seq
         /\ After(cursor[r]) \cap matching = Missed(r)
<1>1. Reads(r) /\ LogHolds
  BY DEF LogInv
<1>2. cursor[r] \in Cursor /\ Spot(r) \in Cursor
  BY <1>1, PlaceIs DEF Reads, ReaderTyped
<1>3. cursor[r].epoch = epoch /\ cursor[r].after <= seq /\ After(cursor[r]) = cursor[r].after + 1 .. seq
  BY <1>1, <1>2, BatchIs
<1>4. /\ Spot(r).after \in Nat /\ cursor[r].after \in Nat /\ Spot(r).after <= cursor[r].after
      /\ \A n \in Missed(r) : cursor[r].after < n
  BY <1>1, <1>2, <1>3 DEF Reads, Scanned, Cursor
<1>5. matching \subseteq 1 .. seq /\ seq \in Nat
  BY <1>1 DEF LogHolds
<1>6. \A n \in matching : n \in Missed(r) <=> n \in After(cursor[r])
  <2>1. PICK spot, at \in Nat : spot = Spot(r).after /\ at = cursor[r].after
    BY <1>4
  <2>2. spot <= at /\ (\A n \in Missed(r) : at < n) /\ After(cursor[r]) = at + 1 .. seq
    BY <1>3, <1>4, <2>1
  <2>3. \A n \in matching : n \in Missed(r) <=> spot < n
    BY <2>1 DEF Missed
  <2>4. ASSUME NEW n \in matching, n \in Missed(r) PROVE n \in After(cursor[r])
    <3>1. n \in 1 .. seq /\ at < n
      BY <1>5, <2>2, <2>4
    <3> QED BY <1>5, <2>2, <3>1
  <2>5. ASSUME NEW n \in matching, n \in After(cursor[r]) PROVE n \in Missed(r)
    <3>1. n \in 1 .. seq /\ n \in at + 1 .. seq
      BY <1>5, <2>2, <2>5
    <3>2. spot < n
      BY <2>2, <3>1
    <3> QED BY <2>3, <3>2
  <2> QED BY <2>4, <2>5
<1> QED BY <1>3, <1>6 DEF Missed

LEMMA ReadsMatches ==
  ASSUME LogInv, NEW r \in Readers, WaitMatches(r)
  PROVE  Reads(r)'
<1> DEFINE c == cursor[r]
<1>1. Reads(r) /\ LogHolds
  BY DEF LogInv
<1>2. /\ pc[r] = "scan" /\ ~Refused(c) /\ UNCHANGED <<epoch, seq, matching>>
      /\ After(c) \cap matching # {} /\ match'[r] = Min(After(c) \cap matching)
      /\ pc'[r] = "answered" /\ cursor'[r] = c
      /\ out'[r] = out[r] /\ from'[r] = from[r] /\ heard'[r] = heard[r]
  BY DEF LogInv, Tables, WaitMatches, Goto, logVars
<1>3. c.epoch = epoch /\ After(c) \cap matching = Missed(r)
  <2>1. pc[r] \in Scanning
    BY <1>2 DEF Scanning
  <2> QED BY <1>2, <2>1, ScanSees
<1>4. Missed(r) \in SUBSET Nat /\ Missed(r) # {}
  <2>1. matching \in SUBSET Nat
    BY <1>1 DEF LogHolds
  <2> QED BY <1>2, <1>3, <2>1 DEF Missed
<1>5. match'[r] \in Missed(r) /\ \A n \in Missed(r) : match'[r] <= n
  BY <1>2, <1>3, <1>4, MinOf
<1>6. Spot(r)' = Spot(r) /\ Missed(r)' = Missed(r)
  BY <1>2 DEF Spot, Missed, Behind
<1>7. ReaderTyped(r)'
  BY <1>1, <1>2 DEF Reads, ReaderTyped, Scanning
<1>8. Known(cursor[r])' /\ Known(Spot(r))'
  BY <1>1, <1>2, <1>6 DEF Reads, Heard, Known
<1>9. Heard(r)'
  BY <1>1, <1>2, <1>6, <1>8 DEF Reads, Heard, Consecutive, Following
<1>10. Scanned(r)'
  <2>1. pc[r] \in Scanning
    BY <1>2 DEF Scanning
  <2> QED BY <1>1, <1>2, <1>3, <1>5, <1>6, <2>1 DEF Reads, Scanned
<1> QED BY <1>7, <1>9, <1>10 DEF Reads

LEMMA ReadsMovesOn ==
  ASSUME LogInv, NEW r \in Readers, WaitMoves(r)
  PROVE  Reads(r)'
<1> DEFINE c == cursor[r]
<1>1. Reads(r) /\ LogHolds
  BY DEF LogInv
<1>2. /\ pc[r] = "scan" /\ ~Refused(c) /\ UNCHANGED <<epoch, seq, matching>>
      /\ After(c) \cap matching = {}
      /\ pc'[r] \in {"timeout", "pause"} /\ cursor'[r] = Now
      /\ out'[r] = out[r] /\ from'[r] = from[r] /\ heard'[r] = heard[r]
  BY DEF LogInv, Tables, WaitMoves, Goto, logVars
<1>3. pc[r] \in Scanning
  BY <1>2 DEF Scanning
<1>4. c.epoch = epoch /\ c.after <= seq /\ Missed(r) = {}
  BY <1>2, <1>3, ScanSees
<1>5. epoch \in Nat /\ seq \in Nat /\ Now \in Cursor /\ Now.epoch = epoch /\ Now.after = seq
  BY <1>1 DEF LogHolds, Now, Cursor
<1>6. Known(cursor[r])'
  BY <1>1, <1>2, NowIsKnown
<1>7. Spot(r)' = Spot(r) /\ Missed(r)' = {}
  BY <1>2, <1>4 DEF Spot, Missed, Behind
<1>8. Spot(r).epoch = epoch /\ Spot(r).after <= seq
  <2>1. c.epoch = Spot(r).epoch
    BY <1>1, <1>3 DEF Reads, Scanned
  <2>2. Spot(r).epoch = epoch
    BY <1>4, <2>1
  <2> QED BY <1>1, <2>2 DEF Reads, Heard, Known
<1>9. ReaderTyped(r)'
  BY <1>1, <1>2, <1>5 DEF Reads, ReaderTyped, Scanning
<1>10. Known(Spot(r))'
  BY <1>1, <1>2, <1>7 DEF Reads, Heard, Known
<1>11. Heard(r)'
  BY <1>1, <1>2, <1>6, <1>7, <1>10 DEF Reads, Heard, Consecutive, Following
<1>12. Scanned(r)'
  BY <1>2, <1>5, <1>7, <1>8 DEF Scanned
<1> QED BY <1>9, <1>11, <1>12 DEF Reads

LEMMA ReadsReturns ==
  ASSUME LogInv, NEW r \in Readers, WaitReturns(r)
  PROVE  Reads(r)'
<1>1. Reads(r) /\ LogHolds /\ cursor[r] \in Cursor
  BY DEF LogInv, Reads, ReaderTyped
<1>2. PICK next : next = IF pc[r] = "timeout" THEN cursor[r] ELSE [cursor[r] EXCEPT !.after = match[r]]
  OBVIOUS
<1>3. /\ pc[r] \in {"answered", "timeout"} /\ UNCHANGED <<epoch, seq>>
      /\ pc'[r] = "idle" /\ cursor'[r] = next /\ from'[r] = next
      /\ out'[r] = out[r] /\ heard'[r] = <<>>
  BY <1>2 DEF LogInv, Tables, WaitReturns, Goto, logVars
<1>4. out'[r] = <<>>
  BY <1>1, <1>3 DEF Reads, Heard
<1>5. next \in Cursor /\ Known(next)
  <2>1. CASE pc[r] = "timeout"
    BY <1>1, <1>2, <2>1 DEF Reads, Heard
  <2>2. CASE pc[r] = "answered"
    <3>1. cursor[r].epoch = epoch /\ match[r] \in 1 .. seq
      BY <1>1, <2>2 DEF Reads, Scanned, Missed, LogHolds
    <3>2. next = [epoch |-> epoch, after |-> match[r]]
      BY <1>1, <1>2, <2>2, <3>1 DEF Cursor
    <3> QED BY <1>1, <3>1, <3>2 DEF Known, Cursor, LogHolds
  <2> QED BY <1>3, <2>1, <2>2
<1>6. Known(cursor[r])'
  BY <1>3, <1>5 DEF Known
<1>7. <<>> \in Seq(Event) /\ Consecutive(next, <<>>) /\ Behind(next, <<>>) = next
  BY <1>5, BehindNothing
<1> QED BY <1>3, <1>4, <1>5, <1>6, <1>7, ReadsRests

(* The steps that only take the request further.                            *)
LEMMA ReadsGoesOn ==
  ASSUME LogInv, NEW r \in Readers,
         \/ Lost(r) /\ (pc[r] = "open" => out[r] = <<>>)
         \/ Ask(r) \/ PollRegisters(r) \/ PollSleeps(r) \/ PollWakes(r)
         \/ StreamOpens(r) \/ WaitRescans(r)
  PROVE  Reads(r)'
<1>1. Reads(r)
  BY DEF LogInv
<1>2. /\ UNCHANGED <<epoch, seq, matching>>
      /\ cursor'[r] = cursor[r] /\ out'[r] = out[r] /\ match'[r] = match[r]
      /\ from'[r] = from[r] /\ heard'[r] = heard[r]
  BY DEF Lost, Ask, PollRegisters, PollSleeps, PollWakes, StreamOpens, WaitRescans, logVars
<1>3. DOMAIN pc = Readers /\ (pc[r] # "open" => out[r] = <<>>)
  BY <1>1 DEF LogInv, Tables, Reads, Heard
<1>4. \/ pc'[r] = "resync" /\ out[r] = <<>>
      \/ pc[r] = "idle" /\ pc'[r] \in {"poll", "stream", "scan"}
      \/ pc[r] = "poll" /\ pc'[r] = "registered"
      \/ pc[r] = "registered" /\ pc'[r] = "asleep"
      \/ pc[r] = "asleep" /\ pc'[r] = "poll"
      \/ pc[r] = "stream" /\ pc'[r] = "open"
      \/ pc[r] = "pause" /\ pc'[r] = "scan"
  BY <1>3 DEF Lost, Ask, PollRegisters, PollSleeps, PollWakes, StreamOpens, WaitRescans, Goto
<1>5. /\ pc'[r] \in Following \cup {"scan", "pause", "resync"}
      /\ pc'[r] # "open" => out[r] = <<>>
      /\ pc'[r] \in Following => pc[r] \in Following
      /\ pc'[r] \in {"scan", "pause"} => pc[r] \in {"scan", "pause", "idle"}
  BY <1>3, <1>4 DEF Following
<1> QED BY <1>1, <1>2, <1>5, ReadsMove

-----------------------------------------------------------------------------
(* Every step. *)

(* A step of reader r, as another sees it.                                  *)
LEMMA OthersSame ==
  ASSUME Tables, NEW r \in Readers, NEW x \in Readers, x # r,
         Ask(r) \/ Poll(r) \/ Stream(r) \/ StreamEnds(r) \/ Wait(r) \/ Resync(r) \/ DeadlinePasses(r)
  PROVE  Same(x) /\ UNCHANGED <<epoch, seq, matching>>
<1> USE DEF Tables, Goto, logVars, Same
<1>1. ASSUME Lost(r) PROVE Same(x) /\ UNCHANGED <<epoch, seq, matching>>
  BY <1>1 DEF Lost
<1>2. ASSUME Poll(r) PROVE Same(x) /\ UNCHANGED <<epoch, seq, matching>>
  BY <1>1, <1>2 DEF Poll, PollRegisters, PollLost, PollAnswers, Given, PollSleeps, PollWakes
<1>3. ASSUME Stream(r) PROVE Same(x) /\ UNCHANGED <<epoch, seq, matching>>
  BY <1>1, <1>3 DEF Stream, StreamOpens, StreamRefused, StreamFetches, StreamYields, StreamGap
<1>4. ASSUME Wait(r) PROVE Same(x) /\ UNCHANGED <<epoch, seq, matching>>
  BY <1>1, <1>4 DEF Wait, WaitStopped, WaitLost, WaitMatches, WaitMoves, WaitRescans, WaitReturns
<1>5. ASSUME Ask(r) \/ StreamEnds(r) \/ Resync(r) \/ DeadlinePasses(r)
      PROVE  Same(x) /\ UNCHANGED <<epoch, seq, matching>>
  BY <1>5 DEF Ask, StreamEnds, Resync, DeadlinePasses
<1> QED BY <1>2, <1>3, <1>4, <1>5

LEMMA ReadsOwn ==
  ASSUME LogInv, NEW r \in Readers,
         Ask(r) \/ Poll(r) \/ Stream(r) \/ StreamEnds(r) \/ Wait(r) \/ Resync(r) \/ DeadlinePasses(r)
  PROVE  Reads(r)'
<1>1. ASSUME Lost(r), pc[r] = "open" => out[r] = <<>> PROVE Reads(r)'
  BY <1>1, ReadsGoesOn
<1>2. CASE Poll(r)
  BY <1>1, <1>2, ReadsGoesOn, ReadsGiven DEF Poll, PollLost
<1>3. CASE Stream(r)
  BY <1>1, <1>3, ReadsGoesOn, ReadsFetches, ReadsYields DEF Stream, StreamRefused, StreamGap
<1>4. CASE Wait(r)
  BY <1>1, <1>4, ReadsGoesOn, ReadsLeaves, ReadsMatches, ReadsMovesOn, ReadsReturns DEF Wait, WaitLost
<1>5. CASE Ask(r) \/ StreamEnds(r) \/ Resync(r)
  BY <1>5, ReadsGoesOn, ReadsLeaves, ReadsResyncs
<1>6. CASE DeadlinePasses(r)
  <2>1. Same(r) /\ UNCHANGED <<epoch, seq, matching>>
    BY <1>6 DEF DeadlinePasses, Same, logVars
  <2> QED BY <2>1, ReadsSame DEF LogInv
<1> QED BY <1>2, <1>3, <1>4, <1>5, <1>6

LEMMA TablesStay ==
  ASSUME Tables, [Next]_vars
  PROVE  Tables'
<1>1. ASSUME UNCHANGED <<pc, cursor, out, match, from, heard>> PROVE Tables'
  BY <1>1 DEF Tables
<1>2. ASSUME NEW r \in Readers,
             Ask(r) \/ Poll(r) \/ Stream(r) \/ StreamEnds(r) \/ Wait(r) \/ Resync(r) \/ DeadlinePasses(r)
      PROVE  Tables'
  <2> USE DEF Tables, Goto
  <2>1. ASSUME Lost(r) PROVE Tables'
    BY <2>1 DEF Lost
  <2>2. ASSUME Poll(r) PROVE Tables'
    BY <2>1, <2>2 DEF Poll, PollRegisters, PollLost, PollAnswers, Given, PollSleeps, PollWakes
  <2>3. ASSUME Stream(r) PROVE Tables'
    BY <2>1, <2>3 DEF Stream, StreamOpens, StreamRefused, StreamFetches, StreamYields, StreamGap
  <2>4. ASSUME Wait(r) PROVE Tables'
    BY <2>1, <2>4 DEF Wait, WaitStopped, WaitLost, WaitMatches, WaitMoves, WaitRescans, WaitReturns
  <2> QED BY <1>2, <2>2, <2>3, <2>4 DEF Ask, StreamEnds, Resync, DeadlinePasses
<1>3. ASSUME NEW size, NEW matches, Emit(size, matches) PROVE Tables'
  BY <1>1, <1>3 DEF Emit
<1>4. CASE Restart
  BY <1>4 DEF Restart, Tables
<1>5. CASE Shutdown \/ UNCHANGED vars
  BY <1>1, <1>5 DEF Shutdown, vars, readerVars
<1> QED BY <1>2, <1>3, <1>4, <1>5 DEF Next

LEMMA ReadsStep == LogInv /\ [Next]_vars => LogInv'
<1> SUFFICES ASSUME LogInv, [Next]_vars PROVE LogInv'
  OBVIOUS
<1>1. LogHolds' /\ Tables'
  BY LogStep, TablesStay DEF LogInv
<1>2. LogHolds /\ Tables /\ \A r \in Readers : Reads(r)
  BY DEF LogInv
<1>3. ASSUME NEW x \in Readers PROVE Reads(x)'
  <2>1. CASE UNCHANGED vars \/ Shutdown
    <3>1. Same(x) /\ UNCHANGED <<epoch, seq, matching>>
      BY <2>1 DEF vars, Shutdown, logVars, readerVars, Same
    <3> QED BY <1>2, <3>1, ReadsSame
  <2>2. ASSUME NEW size \in Sizes, NEW matches \in BOOLEAN, Emit(size, matches) PROVE Reads(x)'
    <3>1. Same(x)
      BY <2>2 DEF Emit, Same
    <3> QED BY <1>2, <2>2, <3>1, ReadsEmit
  <2>3. ASSUME NEW r \in Readers,
               Ask(r) \/ Poll(r) \/ Stream(r) \/ StreamEnds(r) \/ Wait(r) \/ Resync(r) \/ DeadlinePasses(r)
        PROVE  Reads(x)'
    <3>1. CASE x = r
      BY <2>3, <3>1, ReadsOwn
    <3>2. CASE x # r
      <4>1. Same(x) /\ UNCHANGED <<epoch, seq, matching>>
        BY <1>2, <2>3, <3>2, OthersSame
      <4> QED BY <1>2, <4>1, ReadsSame
    <3> QED BY <3>1, <3>2
  <2>4. CASE Restart
    BY <1>2, <2>4, ReadsRestart
  <2> QED BY <2>1, <2>2, <2>3, <2>4 DEF Next
<1> QED BY <1>1, <1>3 DEF LogInv

(* events_after and its three readers: what a reader was given since its    *)
(* last resynchronization is every event behind the cursor it began with,   *)
(* once and in order, across evictions, dropped connections and restarts.   *)
THEOREM ReadersHearInOrder == Spec => []HeardInOrder
<1>1. LogInv => HeardInOrder
  <2> SUFFICES ASSUME LogInv, NEW r \in Readers
               PROVE  heard[r] = [i \in 1 .. Len(heard[r]) |->
                                   [epoch |-> from[r].epoch, seq |-> from[r].after + i]]
    BY DEF HeardInOrder
  <2>1. heard[r] \in Seq(Event) /\ Consecutive(from[r], heard[r])
    BY DEF LogInv, Reads, ReaderTyped, Heard
  <2> QED BY <2>1 DEF Consecutive
<1> QED BY <1>1, ReadsStart, ReadsStep, PTL DEF Spec

(* wait: an answer is the first matching line behind the client, and a      *)
(* timeout means there was none up to the cursor it returns.                *)
THEOREM WaitsAreExact == Spec => []WaitIsExact
<1>1. LogInv => WaitIsExact
  <2> SUFFICES ASSUME LogInv, NEW r \in Readers
               PROVE  /\ pc[r] = "answered" =>
                           /\ Place(r).epoch = epoch
                           /\ {n \in matching : Place(r).after < n} # {}
                           /\ match[r] = Min({n \in matching : Place(r).after < n})
                      /\ pc[r] = "timeout" =>
                           /\ Place(r).epoch = epoch
                           /\ \A n \in {n \in matching : Place(r).after < n} : n > cursor[r].after
    BY DEF WaitIsExact
  <2>1. Reads(r) /\ LogHolds
    BY DEF LogInv
  <2>2. Place(r) = Spot(r) /\ {n \in matching : Place(r).after < n} = Missed(r)
    BY <2>1, PlaceIs DEF Reads, Missed
  <2>3. Missed(r) \in SUBSET Int
    <3>1. matching \in SUBSET Int
      BY <2>1 DEF LogHolds
    <3> QED BY <3>1 DEF Missed
  <2>4. ASSUME pc[r] = "answered" PROVE Place(r).epoch = epoch /\ match[r] = Min(Missed(r)) /\ Missed(r) # {}
    <3>1. /\ Place(r).epoch = epoch /\ match[r] \in Missed(r) /\ \A n \in Missed(r) : match[r] <= n
      BY <2>1, <2>2, <2>4 DEF Reads, Scanned, Scanning
    <3> QED BY <2>3, <3>1, MinIs
  <2>5. ASSUME pc[r] = "timeout" PROVE Place(r).epoch = epoch /\ \A n \in Missed(r) : n > cursor[r].after
    <3>1. Place(r).epoch = epoch /\ \A n \in Missed(r) : cursor[r].after < n
      BY <2>1, <2>2, <2>5 DEF Reads, Scanned, Scanning
    <3>2. cursor[r].after \in Int
      BY <2>1 DEF Reads, ReaderTyped, Cursor
    <3> QED BY <2>3, <3>1, <3>2
  <2> QED BY <2>2, <2>4, <2>5
<1> QED BY <1>1, ReadsStart, ReadsStep, PTL DEF Spec
=============================================================================
