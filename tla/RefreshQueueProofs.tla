------------------------- MODULE RefreshQueueProofs -------------------------
(***************************************************************************)
(* What holds of RefreshQueue for every number of zones, capacity, number  *)
(* of tasks and permits: its types, the agreement of the pending queue     *)
(* with its keys, and that neither a zone's in-progress mark nor a         *)
(* reservation that suppresses NOTIFYs is ever left without work behind.   *)
(***************************************************************************)
EXTENDS RefreshQueue, FiniteSetTheorems, SequenceTheorems, TLAPS

\* How the dispatcher, the reconciliation and the channel stand to each other.
ControlInv ==
  /\ admission => rxOpen
  /\ disp = "drain" => ~admission
  /\ apply.pc \in {"status", "signal", "insert", "loading"} => apply.zone \in Members
  /\ (apply.pc = "idle") = (task[Catalog].pc # "applying")
  /\ apply.pc = "idle" => apply.sends = {}
  /\ apply.pc = "loading" => \E r \in apply.sends : r.zone = apply.zone /\ RequestIsCurrent(r)
  /\ \A r \in apply.sends : r.token = 0 /\ r.ngen = 0 /\ r.retry = "Catalog"

\* A request that a NOTIFY made says "do not retry" until it is admitted, and everything that is
\* pending may be retried.
RetryInv ==
  /\ \A r \in ToSet(outer) : r.token # 0 => r.retry = "none"
  /\ \A r \in ToSet(pending) : r.retry # "none"

\* A status that is not there is not marked.
StatusInv == \A z \in Zones : status[z].gen = 0 => ~status[z].inProgress

\* What can give zone z its mark back: a request that may be retried, a task, the scheduler, or
\* the reconciliation that takes its status away or gives it a new plan.
Asked(z) ==
  \E r \in ToSet(outer) \cup ToSet(pending) \cup apply.sends :
    r.zone = z /\ RequestIsCurrent(r) /\ r.retry # "none"
Attempted(z) ==
  \/ task[z].pc = "spawned" /\ TaskIsCurrent(z)
  \/ task[z].pc \notin {"none", "spawned", "done"} /\ task[z].gen = status[z].gen
Replanned(z) == apply.zone = z /\ apply.pc \in {"status", "insert"}
Holds(z) == Asked(z) \/ Attempted(z) \/ z \in sched \/ Replanned(z)

MarkInv == admission => \A z \in Zones : status[z].inProgress => Holds(z)

\* Generations and tokens were handed out before they were used.
HandedInv ==
  /\ \A z \in Zones :
       /\ plan[z] <= used.plan /\ status[z].gen <= used.gen
       /\ signal[z].token <= used.token /\ signal[z].plan <= used.plan
       /\ signal[z].gen <= used.gen
       /\ signal[z].token # 0 => signal[z].plan # 0
  /\ notify.plan <= used.plan /\ (notify.zone # NoZone => notify.plan # 0)
  /\ \A r \in ToSet(outer) \cup ToSet(pending) :
       /\ r.token <= used.token
       /\ r.token # 0 /\ r.token = signal[r.zone].token
            => r.plan = signal[r.zone].plan /\ r.ngen = signal[r.zone].gen

\* The reservation of zone z suppresses NOTIFYs of its current incarnation, and no attempt has
\* started since.
Suppresses(z) ==
  /\ signal[z].token # 0 /\ ~signal[z].seen
  /\ signal[z].plan = plan[z] /\ status[z].gen # 0 /\ signal[z].gen = status[z].gen

\* The request that made the reservation is still queued.
Reserved(z) ==
  \E r \in ToSet(outer) \cup ToSet(pending) : r.zone = z /\ r.token = signal[z].token

\* Otherwise no transfer is running that could put its deadline off, and an attempt is coming: a
\* task that is yet to start its transfer, a deadline that has passed, or a request of the catalog,
\* which is deferred to such a deadline if it is dropped.
NotTransferring(z) == task[z].pc \notin {"running", "applying", "finishing"}
Starting(z) ==
  /\ task[z].pc \in {"spawned", "started"} /\ TaskIsCurrent(z)
  /\ task[z].pc = "started" => task[z].gen = status[z].gen
Sought(z) ==
  \E r \in ToSet(outer) \cup ToSet(pending) \cup apply.sends :
    r.zone = z /\ RequestIsCurrent(r) /\ r.retry = "Catalog"
Coming(z) == NotTransferring(z) /\ (Starting(z) \/ status[z].next = "now" \/ Sought(z))

ReservationInv == admission => \A z \in Zones : Suppresses(z) => Reserved(z) \/ Coming(z)

(***************************************************************************)
(* The queues as sets of requests.                                         *)
(***************************************************************************)

\* What an append adds to a queue.
LEMMA AppendFacts ==
  ASSUME NEW S, NEW s \in Seq(S), NEW x \in S
  PROVE  /\ Append(s, x) \in Seq(S) /\ Len(Append(s, x)) = Len(s) + 1
         /\ ToSet(Append(s, x)) = ToSet(s) \cup {x}
  <1>1. /\ Append(s, x) \in Seq(S) /\ Len(Append(s, x)) = Len(s) + 1
        /\ \A i \in 1 .. Len(s) : Append(s, x)[i] = s[i]
        /\ Append(s, x)[Len(s) + 1] = x
    OBVIOUS
  <1>2. DOMAIN Append(s, x) = 1 .. Len(s) + 1 /\ DOMAIN s = 1 .. Len(s) /\ Len(s) \in Nat
    OBVIOUS
  <1> QED BY <1>1, <1>2 DEF ToSet

\* What the receipt of a request takes out of a queue.
LEMMA TailFacts ==
  ASSUME NEW S, NEW s \in Seq(S), s # <<>>
  PROVE  /\ Tail(s) \in Seq(S) /\ Len(Tail(s)) = Len(s) - 1 /\ Head(s) \in S
         /\ Len(Tail(s)) < Len(s)
         /\ ToSet(s) = ToSet(Tail(s)) \cup {Head(s)}
  <1>1. /\ Tail(s) \in Seq(S) /\ Len(Tail(s)) = Len(s) - 1 /\ Head(s) \in S /\ Head(s) = s[1]
        /\ \A i \in 1 .. Len(s) - 1 : Tail(s)[i] = s[i + 1]
        /\ Len(s) \in Nat /\ Len(s) > 0
    OBVIOUS
  <1>2. DOMAIN Tail(s) = 1 .. Len(s) - 1 /\ DOMAIN s = 1 .. Len(s)
    BY <1>1
  <1>3. ToSet(s) \subseteq ToSet(Tail(s)) \cup {Head(s)}
    <2> SUFFICES ASSUME NEW i \in 1 .. Len(s), i # 1 PROVE s[i] \in ToSet(Tail(s))
      BY <1>1, <1>2 DEF ToSet
    <2>1. i - 1 \in 1 .. Len(s) - 1 /\ Tail(s)[i - 1] = s[i]
      BY <1>1
    <2> QED BY <1>2, <2>1 DEF ToSet
  <1>4. ToSet(Tail(s)) \cup {Head(s)} \subseteq ToSet(s)
    <2>1. \A i \in 1 .. Len(s) - 1 : i + 1 \in 1 .. Len(s)
      BY <1>1
    <2> QED BY <1>1, <1>2, <2>1 DEF ToSet
  <1> QED BY <1>1, <1>3, <1>4

\* The elements of a queue of requests are requests.
LEMMA ToSetType == ASSUME NEW S, NEW s \in Seq(S) PROVE ToSet(s) \subseteq S
  <1>1. DOMAIN s = 1 .. Len(s) /\ \A i \in 1 .. Len(s) : s[i] \in S
    OBVIOUS
  <1> QED BY <1>1 DEF ToSet

\* The k-th of a finite set of positions is one of them, and no two are the same.
LEMMA NthPosition ==
  ASSUME NEW n \in Nat, NEW P \in SUBSET (1 .. n)
  PROVE  /\ Cardinality(P) \in Nat /\ Cardinality(P) <= n
         /\ \A k \in 1 .. Cardinality(P) : /\ Nth(P, k) \in P
                                           /\ Cardinality({j \in P : j <= Nth(P, k)}) = k
         /\ \A i \in P : \E k \in 1 .. Cardinality(P) : Nth(P, k) = i
  <1> DEFINE upTo(i) == {j \in P : j <= i}
             c == Cardinality(P)
             rank == [i \in P |-> Cardinality(upTo(i))]
  <1>1. IsFiniteSet(1 .. n) /\ Cardinality(1 .. n) = n
    BY FS_Interval
  <1>2. IsFiniteSet(P) /\ c \in Nat /\ c <= n
    BY <1>1, FS_Subset, FS_CardinalityType
  <1>3. ASSUME NEW i \in P
        PROVE  IsFiniteSet(upTo(i)) /\ Cardinality(upTo(i)) \in 1 .. c
    <2>1. upTo(i) \subseteq P /\ i \in upTo(i)
      OBVIOUS
    <2>2. IsFiniteSet(upTo(i)) /\ Cardinality(upTo(i)) <= c /\ Cardinality(upTo(i)) \in Nat
      BY <1>2, <2>1, FS_Subset, FS_CardinalityType
    <2>3. Cardinality(upTo(i)) # 0
      BY <2>1, <2>2, FS_EmptySet
    <2> QED BY <1>2, <2>2, <2>3
  <1>4. ASSUME NEW i \in P, NEW j \in P, rank[i] = rank[j] PROVE i = j
    <2>1. ASSUME NEW a \in P, NEW b \in P, a < b PROVE rank[a] # rank[b]
      <3>0. P \subseteq Int /\ a \in Int /\ b \in Int
        OBVIOUS
      <3>1. /\ \A x \in P : x <= a => x <= b
            /\ b <= b /\ ~(b <= a)
        BY <2>1, <3>0
      <3>4. upTo(a) \subseteq upTo(b) /\ b \in upTo(b) /\ b \notin upTo(a)
        BY <3>1
      <3>2. IsFiniteSet(upTo(b))
        BY <1>3
      <3>3. Cardinality(upTo(b)) = Cardinality(upTo(a)) => upTo(b) = upTo(a)
        BY <3>2, <3>4, FS_Subset
      <3> QED BY <3>3, <3>4
    <2>2. i \in Nat /\ j \in Nat
      OBVIOUS
    <2> QED BY <1>4, <2>1, <2>2
  <1>5. rank \in Injection(P, 1 .. c)
    BY <1>3, <1>4 DEF Injection, IsInjective
  <1>6. IsFiniteSet(1 .. c) /\ Cardinality(1 .. c) = c
    BY <1>2, FS_Interval
  <1>7. rank \in Surjection(P, 1 .. c)
    BY <1>5, <1>6, FS_Injection
  <1>8. ASSUME NEW k \in 1 .. c PROVE \E i \in P : Cardinality(upTo(i)) = k
    BY <1>7 DEF Surjection
  <1>9. ASSUME NEW k \in 1 .. c
        PROVE  Nth(P, k) \in P /\ Cardinality(upTo(Nth(P, k))) = k
    BY <1>8 DEF Nth
  <1>10. ASSUME NEW i \in P PROVE \E k \in 1 .. c : Nth(P, k) = i
    <2> DEFINE k == Cardinality(upTo(i))
    <2>1. k \in 1 .. c
      BY <1>3
    <2>2. Nth(P, k) \in P /\ Cardinality(upTo(Nth(P, k))) = k
      BY <1>9, <2>1
    <2>3. rank[Nth(P, k)] = rank[i]
      BY <2>2
    <2> QED BY <1>4, <2>1, <2>2, <2>3
  <1> QED BY <1>2, <1>9, <1>10

\* No two requests of a queue are of the same zone.
OnePerZone(s) == \A i, j \in 1 .. Len(s) : s[i].zone = s[j].zone => i = j

ZonesOf(s) == {r.zone : r \in ToSet(s)}

\* The requests that a scan keeps are the current ones, each from a place of its own.
LEMMA KeptFacts ==
  ASSUME NEW s \in Seq(Requests)
  PROVE  /\ Kept(s) \in Seq(Requests) /\ Len(Kept(s)) <= Len(s)
         /\ ToSet(Kept(s)) = {r \in ToSet(s) : RequestIsCurrent(r)}
         /\ \E from \in [1 .. Len(Kept(s)) -> 1 .. Len(s)] :
              /\ \A k \in 1 .. Len(Kept(s)) : Kept(s)[k] = s[from[k]]
              /\ \A k, l \in 1 .. Len(Kept(s)) : from[k] = from[l] => k = l
  <1> DEFINE P == CurrentIn(s)
             c == Cardinality(P)
             from == [k \in 1 .. c |-> Nth(P, k)]
  <1>1. /\ Len(s) \in Nat /\ DOMAIN s = 1 .. Len(s) /\ P \subseteq 1 .. Len(s)
        /\ \A i \in 1 .. Len(s) : s[i] \in Requests
    BY DEF CurrentIn
  <1>2. /\ c \in Nat /\ c <= Len(s)
        /\ \A k \in 1 .. c : Nth(P, k) \in P /\ Cardinality({j \in P : j <= Nth(P, k)}) = k
        /\ \A i \in P : \E k \in 1 .. c : Nth(P, k) = i
    <2> HIDE DEF P
    <2> QED BY <1>1, NthPosition
  <1>3. Kept(s) = [k \in 1 .. c |-> s[Nth(P, k)]]
    BY DEF Kept
  <1> HIDE DEF P, c
  <1>4. \A k \in 1 .. c : s[Nth(P, k)] \in Requests
    BY <1>1, <1>2
  <1>5. Kept(s) \in Seq(Requests) /\ Len(Kept(s)) = c /\ DOMAIN Kept(s) = 1 .. c
    BY <1>2, <1>3, <1>4
  <1>6. ToSet(Kept(s)) = {s[i] : i \in P}
    <2>1. ToSet(Kept(s)) = {Kept(s)[k] : k \in 1 .. c}
      BY <1>5 DEF ToSet
    <2>2. \A k \in 1 .. c : Kept(s)[k] = s[Nth(P, k)]
      BY <1>3
    <2>3. ASSUME NEW k \in 1 .. c PROVE Kept(s)[k] \in {s[i] : i \in P}
      <3>1. Nth(P, k) \in P /\ Kept(s)[k] = s[Nth(P, k)]
        BY <1>2, <2>2
      <3> QED BY <3>1, Zenon
    <2>4. ASSUME NEW i \in P PROVE s[i] \in {Kept(s)[k] : k \in 1 .. c}
      <3>1. PICK k \in 1 .. c : Nth(P, k) = i
        BY <1>2
      <3> QED BY <2>2, <3>1
    <2> QED BY <2>1, <2>3, <2>4
  <1>7. {s[i] : i \in P} = {r \in ToSet(s) : RequestIsCurrent(r)}
    BY <1>1 DEF P, CurrentIn, ToSet
  <1>8. /\ from \in [1 .. c -> 1 .. Len(s)]
        /\ \A k \in 1 .. c : Kept(s)[k] = s[from[k]]
        /\ \A k, l \in 1 .. c : from[k] = from[l] => k = l
    BY <1>1, <1>2, <1>3
  <1> HIDE DEF from
  <1> QED BY <1>2, <1>5, <1>6, <1>7, <1>8

\* What a scan leaves that takes out the request at `i`: what comes after it, then what it passed
\* and kept.
Scanned(s, i) == SubSeq(s, i + 1, Len(s)) \o Kept(SubSeq(s, 1, i - 1))

\* Each request that is left comes from a place of its own other than `i`, and the current ones
\* are left.
LEMMA ScannedPlaces ==
  ASSUME NEW s \in Seq(Requests), NEW i \in 1 .. Len(s)
  PROVE  /\ Scanned(s, i) \in Seq(Requests) /\ Len(Scanned(s, i)) < Len(s)
         /\ \E from \in [1 .. Len(Scanned(s, i)) -> (1 .. Len(s)) \ {i}] :
              /\ \A k \in 1 .. Len(Scanned(s, i)) : Scanned(s, i)[k] = s[from[k]]
              /\ \A k, l \in 1 .. Len(Scanned(s, i)) : from[k] = from[l] => k = l
              /\ \A k \in 1 .. Len(Scanned(s, i)) :
                   from[k] > i \/ RequestIsCurrent(s[from[k]])
         /\ \A j \in (1 .. Len(s)) \ {i} : j > i \/ RequestIsCurrent(s[j])
                                             => s[j] \in ToSet(Scanned(s, i))
         /\ \A r \in ToSet(Scanned(s, i)) : r \in ToSet(s)
         /\ Obsolete(SubSeq(s, 1, i - 1)) = {r \in {s[j] : j \in 1 .. i - 1} : ~RequestIsCurrent(r)}
  <1> DEFINE after == SubSeq(s, i + 1, Len(s))
             passed == SubSeq(s, 1, i - 1)
             n == Len(s) - i
  <1>1. Len(s) \in Nat /\ DOMAIN s = 1 .. Len(s) /\ n \in Nat /\ i \in Nat /\ i <= Len(s)
    OBVIOUS
  <1>2. /\ after \in Seq(Requests) /\ Len(after) = n
        /\ \A k \in 1 .. n : after[k] = s[k + i]
    <2>1. \A j \in i + 1 .. Len(s) : s[j] \in Requests
      BY <1>1
    <2>2. /\ after \in Seq(Requests)
          /\ Len(after) = IF i + 1 <= Len(s) THEN Len(s) - (i + 1) + 1 ELSE 0
          /\ \A k \in 1 .. Len(s) - (i + 1) + 1 : after[k] = s[(i + 1) + k - 1]
      BY <1>1, <2>1, SubSeqProperties
    <2>3. \A k \in 1 .. n : (i + 1) + k - 1 = k + i /\ k \in 1 .. Len(s) - (i + 1) + 1
      BY <1>1
    <2> HIDE DEF after
    <2>4. Len(after) = n
      <3>1. CASE i < Len(s)
        <4>1. i + 1 <= Len(s) /\ Len(s) - (i + 1) + 1 = n
          BY <1>1, <3>1
        <4> QED BY <2>2, <4>1, Zenon
      <3>2. CASE ~(i < Len(s))
        <4>0. \A a, b \in Nat : a <= b /\ ~(a < b) => ~(a + 1 <= b) /\ b - a = 0
          OBVIOUS
        <4>1. ~(i + 1 <= Len(s)) /\ n = 0
          BY <1>1, <3>2, <4>0
        <4> HIDE DEF n
        <4> QED BY <2>2, <4>1, Zenon
      <3> QED BY <3>1, <3>2, Zenon
    <2> QED BY <2>2, <2>3, <2>4
  <1>3. /\ passed \in Seq(Requests) /\ Len(passed) = i - 1
        /\ \A k \in 1 .. i - 1 : passed[k] = s[k]
    BY <1>1
  <1> DEFINE kept == Kept(passed)
             m == Len(kept)
  <1> HIDE DEF after, passed
  <1>4. /\ kept \in Seq(Requests) /\ m <= i - 1 /\ m \in Nat
        /\ ToSet(kept) = {r \in ToSet(passed) : RequestIsCurrent(r)}
    BY <1>3, KeptFacts
  <1>5. PICK g \in [1 .. m -> 1 .. i - 1] :
          /\ \A k \in 1 .. m : kept[k] = passed[g[k]]
          /\ \A k, l \in 1 .. m : g[k] = g[l] => k = l
    BY <1>3, KeptFacts
  <1> DEFINE all == after \o kept
  <1>6. Scanned(s, i) = all
    BY DEF Scanned, after, passed
  <1> HIDE DEF kept, n
  <1>7. /\ all \in Seq(Requests) /\ Len(all) = n + m
        /\ \A k \in 1 .. n : all[k] = after[k]
        /\ \A k \in n + 1 .. n + m : all[k] = kept[k - n]
    <2>1. /\ all \in Seq(Requests) /\ Len(all) = n + m
          /\ \A k \in 1 .. n + m : all[k] = IF k <= n THEN after[k] ELSE kept[k - n]
      BY <1>2, <1>4, ConcatProperties
    <2> QED BY <1>1, <1>4, <2>1 DEF n
  <1> HIDE DEF all
  <1> DEFINE f == [k \in 1 .. n + m |-> IF k <= n THEN k + i ELSE g[k - n]]
  <1>8. \A k \in 1 .. n + m : /\ f[k] \in (1 .. Len(s)) \ {i}
                              /\ all[k] = s[f[k]]
    <2> TAKE k \in 1 .. n + m
    <2>1. CASE k <= n
      BY <1>1, <1>2, <1>7, <2>1 DEF n
    <2>2. CASE k > n
      <3>1. k - n \in 1 .. m /\ k \in n + 1 .. n + m
        BY <1>1, <1>4, <2>2
      <3>2. g[k - n] \in 1 .. i - 1 /\ all[k] = passed[g[k - n]]
        BY <1>5, <1>7, <3>1
      <3> QED BY <1>1, <1>3, <2>2, <3>1, <3>2
    <2> QED BY <1>1, <2>1, <2>2
  <1>9. \A k, l \in 1 .. n + m : f[k] = f[l] => k = l
    <2> SUFFICES ASSUME NEW k \in 1 .. n + m, NEW l \in 1 .. n + m, f[k] = f[l] PROVE k = l
      OBVIOUS
    <2>1. ASSUME NEW j \in 1 .. n + m, j > n
          PROVE  j - n \in 1 .. m /\ f[j] = g[j - n] /\ f[j] < i
      <3>1. j - n \in 1 .. m /\ f[j] = g[j - n]
        BY <1>1, <1>4, <2>1
      <3>2. g[j - n] \in 1 .. i - 1
        BY <1>5, <3>1
      <3> QED BY <1>1, <3>1, <3>2
    <2>2. \A j \in 1 .. n + m : j <= n => f[j] = j + i /\ f[j] > i
      BY <1>1, <1>4
    <2>3. CASE k > n /\ l > n
      <3>1. k - n \in 1 .. m /\ l - n \in 1 .. m /\ g[k - n] = g[l - n]
        BY <2>1, <2>3
      <3>2. k - n = l - n
        BY <1>5, <3>1
      <3> QED BY <1>1, <3>2
    <2>4. CASE k <= n /\ l <= n
      BY <1>1, <1>4, <2>2, <2>4
    <2>5. CASE (k > n /\ l <= n) \/ (k <= n /\ l > n)
      BY <1>1, <1>4, <1>8, <2>1, <2>2, <2>5
    <2> QED BY <1>1, <1>4, <2>3, <2>4, <2>5
  <1>10. f \in [1 .. n + m -> (1 .. Len(s)) \ {i}]
    BY <1>8
  <1>11. ToSet(passed) = {s[j] : j \in 1 .. i - 1}
    BY <1>1, <1>3 DEF ToSet
  <1>12. DOMAIN all = 1 .. n + m
    BY <1>7
  <1>13. ASSUME NEW j \in (1 .. Len(s)) \ {i}, j > i \/ RequestIsCurrent(s[j])
         PROVE  s[j] \in ToSet(all)
    <2>1. CASE j > i
      <3>1. j - i \in 1 .. n /\ j - i \in 1 .. n + m /\ all[j - i] = s[j]
        BY <1>1, <1>2, <1>4, <1>7, <2>1 DEF n
      <3> QED BY <1>12, <3>1 DEF ToSet
    <2>2. CASE j < i
      <3>1. s[j] \in ToSet(kept)
        BY <1>1, <1>4, <1>11, <1>13, <2>2
      <3>2. DOMAIN kept = 1 .. m
        BY <1>4
      <3>3. PICK k \in 1 .. m : s[j] = kept[k]
        BY <3>1, <3>2 DEF ToSet
      <3>4. k + n \in n + 1 .. n + m /\ k + n \in 1 .. n + m /\ (k + n) - n = k
        BY <1>1, <1>4
      <3> QED BY <1>7, <1>12, <3>3, <3>4 DEF ToSet
    <2> QED BY <1>1, <2>1, <2>2
  <1>14. \A r \in ToSet(all) : r \in ToSet(s)
    <2>1. ASSUME NEW k \in 1 .. n + m PROVE all[k] \in ToSet(s)
      <3>1. f[k] \in DOMAIN s /\ all[k] = s[f[k]]
        BY <1>1, <1>8
      <3> HIDE DEF f
      <3> QED BY <3>1 DEF ToSet
    <2> QED BY <1>12, <2>1 DEF ToSet
  <1>15. Obsolete(passed) = {r \in {s[j] : j \in 1 .. i - 1} : ~RequestIsCurrent(r)}
    BY <1>11 DEF Obsolete
  <1>16. Len(all) < Len(s)
    BY <1>1, <1>4, <1>7 DEF n
  <1>17a. \A k \in 1 .. n + m : f[k] > i \/ RequestIsCurrent(s[f[k]])
    <2> TAKE k \in 1 .. n + m
    <2>1. CASE k <= n
      BY <1>1, <2>1
    <2>2. CASE k > n
      <3>1. k - n \in 1 .. m /\ k \in n + 1 .. n + m
        BY <1>1, <1>4, <2>2
      <3>2. DOMAIN kept = 1 .. m
        BY <1>4
      <3>3. kept[k - n] \in ToSet(kept)
        BY <3>1, <3>2 DEF ToSet
      <3>4. RequestIsCurrent(all[k])
        BY <1>4, <1>7, <3>1, <3>3
      <3>5. all[k] = s[f[k]]
        BY <1>8
      <3> QED BY <3>4, <3>5, Zenon
    <2> QED BY <1>1, <2>1, <2>2
  <1> HIDE DEF f
  <1>17. \E from \in [1 .. Len(all) -> (1 .. Len(s)) \ {i}] :
           /\ \A k \in 1 .. Len(all) : all[k] = s[from[k]]
           /\ \A k, l \in 1 .. Len(all) : from[k] = from[l] => k = l
           /\ \A k \in 1 .. Len(all) : from[k] > i \/ RequestIsCurrent(s[from[k]])
    BY <1>7, <1>8, <1>9, <1>10, <1>17a
  <1>18. /\ all \in Seq(Requests)
         /\ \A j \in (1 .. Len(s)) \ {i} : j > i \/ RequestIsCurrent(s[j]) => s[j] \in ToSet(all)
    BY <1>7, <1>13
  <1> QED BY <1>6, <1>14, <1>15, <1>16, <1>17, <1>18, Zenon DEF passed

(***************************************************************************)
(* Types.                                                                  *)
(***************************************************************************)

\* The absent status, reservation and task, and the idle reconciliation, have their types.
LEMMA EmptyTypes ==
  /\ NoStatus \in Statuses /\ NoSignal \in Signals /\ NoTask \in TaskStates
  /\ NoApply \in ApplyStates /\ Catalog \in Zones /\ Capacity \in Nat \ {0}
  BY QueueAssumption DEF NoStatus, Statuses, Deadlines, NoSignal, Signals, NoTask, TaskStates,
     NoApply, ApplyStates, WhatChanges

\* RefreshRequest::new makes a request.
LEMMA RequestType ==
  ASSUME NEW z \in Zones, NEW reason \in Reasons, NEW p \in Nat
  PROVE  /\ Request(z, reason, p) \in Requests
         /\ Request(z, reason, p).zone = z /\ Request(z, reason, p).plan = p
         /\ Request(z, reason, p).token = 0 /\ Request(z, reason, p).ngen = 0
         /\ Request(z, reason, p).retry = IF reason = "Notify" THEN "none" ELSE reason
  BY DEF Request, Requests, MaybeReasons, Reasons

\* Admission and merge change the retry reason only, and leave one.
LEMMA CommittedType ==
  ASSUME NEW r \in Requests
  PROVE  /\ Committed(r) \in Requests /\ Committed(r).retry # "none"
         /\ Committed(r).zone = r.zone /\ Committed(r).plan = r.plan
         /\ Committed(r).token = r.token /\ Committed(r).ngen = r.ngen
         /\ r.retry # "none" => Committed(r).retry = r.retry
  BY DEF Committed, Requests, MaybeReasons, Reasons

\* merge_refresh_request keeps the newer request and a reason to retry it.
LEMMA MergedType ==
  ASSUME NEW q \in Requests, NEW r \in Requests
  PROVE  /\ Merged(q, r) \in Requests
         /\ Merged(q, r).zone = r.zone /\ Merged(q, r).plan = r.plan
         /\ Merged(q, r).token = r.token /\ Merged(q, r).ngen = r.ngen
         /\ r.retry # "none" => Merged(q, r).retry # "none"
         /\ q.retry = "Catalog" \/ r.retry = "Catalog" => Merged(q, r).retry = "Catalog"
  <1>1. MergedRetry(q.retry, r.retry) \in MaybeReasons
    BY DEF MergedRetry, Requests, MaybeReasons, Reasons
  <1>2. /\ r.retry # "none" => MergedRetry(q.retry, r.retry) # "none"
        /\ q.retry = "Catalog" \/ r.retry = "Catalog" => MergedRetry(q.retry, r.retry) = "Catalog"
    BY DEF MergedRetry
  <1> QED BY <1>1, <1>2 DEF Merged, Requests

\* A rollback forgets reservations, and keeps the others as they are.
LEMMA RolledBackFacts ==
  ASSUME TypeOK, NEW D
  PROVE  /\ RolledBack(D) \in [Zones -> Signals]
         /\ \A z \in Zones :
              RolledBack(D)[z] =
                IF \E r \in D : r.zone = z /\ r.token # 0 /\ r.token = signal[z].token
                  THEN NoSignal ELSE signal[z]
  <1>1. signal \in [Zones -> Signals] /\ NoSignal \in Signals
    BY EmptyTypes DEF TypeOK
  <1> QED BY <1>1 DEF RolledBack

\* A deferral takes the mark back and may bring the deadline forward; nothing else.
LEMMA DeferredDropFacts ==
  ASSUME TypeOK, NEW D
  PROVE  /\ DeferredDrop(D) \in [Zones -> Statuses]
         /\ \A z \in Zones :
              /\ DeferredDrop(D)[z].gen = status[z].gen
              /\ DeferredDrop(D)[z].inProgress => status[z].inProgress
              /\ DeferredDrop(D)[z].next \in {status[z].next, "now"}
              /\ (\E r \in D : r.zone = z /\ RequestIsCurrent(r) /\ r.retry # "none")
                   => DeferredDrop(D)[z].inProgress = FALSE \/ status[z].gen = 0
              /\ (\E r \in D : r.zone = z /\ RequestIsCurrent(r) /\ r.retry = "Catalog")
                   => DeferredDrop(D)[z].next = "now" \/ status[z].gen = 0
  <1>1. status \in [Zones -> Statuses]
    BY DEF TypeOK
  <1> DEFINE retries(z) == {r.retry : r \in {q \in D : q.zone = z /\ RequestIsCurrent(q)}} \ {"none"}
             soon(z) == IF retries(z) = {"Scheduled"} THEN status[z].next ELSE "now"
             late(z) == [status[z] EXCEPT !.inProgress = FALSE, !.next = soon(z)]
  <1>2. DeferredDrop(D) = [z \in Zones |-> IF status[z].gen = 0 \/ retries(z) = {} THEN status[z]
                                            ELSE late(z)]
    BY DEF DeferredDrop
  <1>3. ASSUME NEW z \in Zones
        PROVE  /\ late(z) \in Statuses /\ late(z).gen = status[z].gen
               /\ late(z).inProgress = FALSE /\ late(z).next = soon(z)
               /\ soon(z) \in {status[z].next, "now"} /\ status[z] \in Statuses
    <2>1. status[z] \in Statuses /\ soon(z) \in {status[z].next, "now"} /\ soon(z) \in Deadlines
      BY <1>1 DEF Statuses, Deadlines
    <2> HIDE DEF soon
    <2> QED BY <2>1 DEF Statuses
  <1>4. ASSUME NEW z \in Zones,
               \E r \in D : r.zone = z /\ RequestIsCurrent(r) /\ r.retry # "none"
        PROVE  retries(z) # {}
    BY <1>4
  <1>5. ASSUME NEW z \in Zones,
               \E r \in D : r.zone = z /\ RequestIsCurrent(r) /\ r.retry = "Catalog"
        PROVE  retries(z) # {} /\ retries(z) # {"Scheduled"}
    <2>1. "Catalog" \in retries(z)
      BY <1>5
    <2> QED BY <2>1
  <1>6. \A z \in Zones : retries(z) # {"Scheduled"} => soon(z) = "now"
    OBVIOUS
  <1> HIDE DEF retries, late, soon
  <1>7. ASSUME NEW z \in Zones
        PROVE  DeferredDrop(D)[z] \in {status[z], late(z)}
    BY <1>2
  <1>8. ASSUME NEW z \in Zones, status[z].gen # 0, retries(z) # {}
        PROVE  DeferredDrop(D)[z] = late(z)
    BY <1>2, <1>8
  <1>9. DeferredDrop(D) \in [Zones -> Statuses]
    BY <1>2, <1>3
  <1>10. ASSUME NEW z \in Zones
         PROVE  /\ DeferredDrop(D)[z].gen = status[z].gen
                /\ DeferredDrop(D)[z].inProgress => status[z].inProgress
                /\ DeferredDrop(D)[z].next \in {status[z].next, "now"}
    BY <1>3, <1>7
  <1>11. ASSUME NEW z \in Zones
         PROVE  /\ (\E r \in D : r.zone = z /\ RequestIsCurrent(r) /\ r.retry # "none")
                     => DeferredDrop(D)[z].inProgress = FALSE \/ status[z].gen = 0
                /\ (\E r \in D : r.zone = z /\ RequestIsCurrent(r) /\ r.retry = "Catalog")
                     => DeferredDrop(D)[z].next = "now" \/ status[z].gen = 0
    BY <1>3, <1>4, <1>5, <1>6, <1>8
  <1> QED BY <1>9, <1>10, <1>11

\* The first ready request is in the queue, current, and of a zone without a task.
LEMMA FirstReadyFacts ==
  ASSUME TypeOK, Ready # {}
  PROVE  /\ FirstReady \in 1 .. Len(pending) /\ pending[FirstReady] \in Requests
         /\ pending[FirstReady] \in ToSet(pending)
         /\ RequestIsCurrent(pending[FirstReady]) /\ pending[FirstReady].zone \notin Active
  <1>1. pending \in Seq(Requests) /\ Len(pending) \in Nat /\ DOMAIN pending = 1 .. Len(pending)
    BY DEF TypeOK
  <1>2. Ready \subseteq 1 .. Len(pending)
    BY DEF Ready
  <1>3. IsFiniteSet(Ready)
    <2>1. IsFiniteSet(1 .. Len(pending))
      BY <1>1, FS_Interval
    <2> QED BY <1>2, <2>1, FS_Subset
  <1>4. Cardinality(Ready) \in Nat /\ Cardinality(Ready) # 0
    BY <1>3, FS_CardinalityType, FS_EmptySet
  <1>5. 1 \in 1 .. Cardinality(Ready)
    BY <1>4
  <1>6. FirstReady \in Ready
    BY <1>1, <1>2, <1>5, NthPosition DEF FirstReady
  <1> QED BY <1>1, <1>6 DEF Ready, ToSet

\* The last pending request of a queue that is not empty, and what is before it.
LEMMA FrontFacts ==
  ASSUME NEW S, NEW s \in Seq(S), s # <<>>
  PROVE  /\ Front(s) \in Seq(S) /\ Len(Front(s)) = Len(s) - 1
         /\ \A i \in 1 .. Len(s) - 1 : Front(s)[i] = s[i]
         /\ Last(s) \in S /\ Last(s) = s[Len(s)]
         /\ ToSet(s) = ToSet(Front(s)) \cup {Last(s)}
  <1>1. /\ Len(s) \in Nat /\ Len(s) # 0 /\ DOMAIN s = 1 .. Len(s)
        /\ \A i \in 1 .. Len(s) : s[i] \in S
    OBVIOUS
  <1>2. /\ Front(s) \in Seq(S) /\ Len(Front(s)) = Len(s) - 1
        /\ \A i \in 1 .. Len(s) - 1 : Front(s)[i] = s[i]
    BY <1>1 DEF Front
  <1>3. Last(s) = s[Len(s)] /\ Last(s) \in S
    BY <1>1 DEF Last
  <1>4. DOMAIN Front(s) = 1 .. Len(s) - 1
    BY <1>2
  <1>5. 1 .. Len(s) = (1 .. Len(s) - 1) \cup {Len(s)}
    BY <1>1
  <1>6. ToSet(s) = {s[i] : i \in 1 .. Len(s) - 1} \cup {s[Len(s)]}
    BY <1>1, <1>5 DEF ToSet
  <1>7. ToSet(Front(s)) = {s[i] : i \in 1 .. Len(s) - 1}
    BY <1>2, <1>4 DEF ToSet
  <1> QED BY <1>2, <1>3, <1>6, <1>7

\* The types hold when the program starts.
LEMMA InitType == Init => TypeOK
  <1> SUFFICES ASSUME Init PROVE TypeOK
    OBVIOUS
  <1>1. Capacity \in Nat /\ Catalog \in Zones
    BY QueueAssumption
  <1>2. status \in [Zones -> Statuses]
    <2>1. PICK next \in {"none", "later", "now"} :
            status = [z \in Zones |-> IF z = Catalog
                                        THEN [NoStatus EXCEPT !.gen = 1, !.next = next]
                                        ELSE NoStatus]
      BY Zenon DEF Init
    <2>2. [NoStatus EXCEPT !.gen = 1, !.next = next] \in Statuses /\ NoStatus \in Statuses
      BY DEF NoStatus, Statuses, Deadlines
    <2> QED BY <2>1, <2>2
  <1>3. <<>> \in Seq(Requests) /\ Len(<<>>) = 0
    OBVIOUS
  <1>4. /\ plan \in [Zones -> Nat] /\ signal \in [Zones -> Signals] /\ task \in [Zones -> TaskStates]
        /\ apply \in ApplyStates
    BY EmptyTypes DEF Init
  <1> QED BY <1>1, <1>2, <1>3, <1>4 DEF Init, TypeOK

\* What a changed field leaves of a status.
LEMMA StatusFacts ==
  ASSUME NEW s \in Statuses
  PROVE  /\ \A b \in BOOLEAN, d \in Deadlines :
              /\ [s EXCEPT !.inProgress = b, !.next = d] \in Statuses
              /\ [s EXCEPT !.inProgress = b, !.next = d].gen = s.gen
              /\ [s EXCEPT !.inProgress = b, !.next = d].inProgress = b
              /\ [s EXCEPT !.inProgress = b, !.next = d].next = d
         /\ \A b \in BOOLEAN :
              /\ [s EXCEPT !.inProgress = b] \in Statuses
              /\ [s EXCEPT !.inProgress = b].gen = s.gen
              /\ [s EXCEPT !.inProgress = b].inProgress = b
              /\ [s EXCEPT !.inProgress = b].next = s.next
         /\ \A d \in Deadlines :
              /\ [s EXCEPT !.next = d] \in Statuses
              /\ [s EXCEPT !.next = d].gen = s.gen
              /\ [s EXCEPT !.next = d].inProgress = s.inProgress
              /\ [s EXCEPT !.next = d].next = d
         /\ s.gen \in Nat /\ s.inProgress \in BOOLEAN /\ s.next \in Deadlines
  BY DEF Statuses

\* What a task is after its next step.
LEMMA TaskFacts ==
  ASSUME TypeOK, NEW z \in Zones,
         NEW pc \in {"started", "running", "applying", "finishing", "done"}, TaskGoes(z, pc)
  PROVE  /\ task' \in [Zones -> TaskStates]
         /\ task'[z].pc = pc /\ task'[z].plan = task[z].plan /\ task'[z].ngen = task[z].ngen
         /\ task'[z].gen = task[z].gen /\ task'[z].created = task[z].created
         /\ \A y \in Zones \ {z} : task'[y] = task[y]
  BY DEF TaskGoes, TypeOK, TaskStates

\* What the end of an attempt leaves of the statuses.
LEMMA DeferredFacts ==
  ASSUME TypeOK, NEW z \in Zones
  PROVE  /\ Deferred(z) \in [Zones -> Statuses]
         /\ Deferred(z)[z].gen = status[z].gen
         /\ status[z].gen = task[z].gen
              => Deferred(z)[z].inProgress = FALSE /\ Deferred(z)[z].next = "now"
         /\ status[z].gen # task[z].gen => Deferred(z) = status
         /\ \A y \in Zones \ {z} : Deferred(z)[y] = status[y]
  <1>1. status \in [Zones -> Statuses] /\ "now" \in Deadlines
    BY DEF TypeOK, Deadlines
  <1>2. CASE status[z].gen = task[z].gen
    <2>1. Deferred(z) = [status EXCEPT ![z] = [status[z] EXCEPT !.inProgress = FALSE, !.next = "now"]]
      BY <1>1, <1>2 DEF Deferred, Statuses
    <2> DEFINE v == [status[z] EXCEPT !.inProgress = FALSE, !.next = "now"]
    <2>2. v \in Statuses /\ v.gen = status[z].gen /\ v.inProgress = FALSE /\ v.next = "now"
      BY <1>1 DEF Statuses
    <2> HIDE DEF v
    <2>3. Deferred(z) = [status EXCEPT ![z] = v]
      BY <2>1 DEF v
    <2> QED BY <1>1, <1>2, <2>2, <2>3
  <1>3. CASE status[z].gen # task[z].gen
    BY <1>1, <1>3 DEF Deferred
  <1> QED BY <1>2, <1>3

\* discard_obsolete takes back a mark that the attempt has left.
LEMMA DiscardFacts ==
  ASSUME TypeOK, NEW z \in Zones, DiscardObsolete(z)
  PROVE  /\ task' \in [Zones -> TaskStates] /\ status' \in [Zones -> Statuses]
         /\ task'[z].pc = "done" /\ \A y \in Zones \ {z} : task'[y] = task[y]
         /\ \A y \in Zones \ {z} : status'[y] = status[y]
         /\ status[z].gen # task[z].gen => status' = status
         /\ status[z].gen = task[z].gen =>
              /\ status'[z].inProgress = FALSE
              /\ status'[z].gen = 0 \/ (status'[z].gen = status[z].gen /\ status'[z].next = "now")
  <1>1. /\ task' \in [Zones -> TaskStates] /\ task'[z].pc = "done"
        /\ \A y \in Zones \ {z} : task'[y] = task[y]
    BY TaskFacts DEF DiscardObsolete
  <1>2. status \in [Zones -> Statuses] /\ NoStatus \in Statuses /\ NoStatus.gen = 0 /\ NoStatus.inProgress = FALSE
    BY EmptyTypes DEF TypeOK, NoStatus
  <1>3. CASE status' = Deferred(z)
    BY <1>1, <1>3, DeferredFacts
  <1>5. CASE status[z].gen = task[z].gen /\ status' = [status EXCEPT ![z] = NoStatus]
    BY <1>1, <1>2, <1>5
  <1>6. CASE status[z].gen # task[z].gen /\ status' = status
    BY <1>1, <1>2, <1>6
  <1> QED BY <1>3, <1>5, <1>6, Zenon DEF DiscardObsolete

\* The steps that bring requests in keep the types.
LEMMA IncomingType ==
  ASSUME TypeOK, Elapse \/ NotifyArrives \/ NotifySignals \/ PruneSignal \/ ControlPlaneRetry
                 \/ Scheduler
  PROVE  TypeOK'
  <1>0. /\ plan \in [Zones -> Nat] /\ status \in [Zones -> Statuses] /\ signal \in [Zones -> Signals]
        /\ outer \in Seq(Requests) /\ Len(outer) \in Nat /\ Capacity \in Nat
        /\ used \in [plan : Nat, gen : Nat, token : Nat] /\ used.token \in Nat
    BY QueueAssumption DEF TypeOK
  <1>1. CASE Elapse
    <2>1. PICK z \in Zones : status' = [status EXCEPT ![z].next = "now"]
      BY <1>1 DEF Elapse
    <2>2. status' \in [Zones -> Statuses]
      BY <1>0, <2>1 DEF Statuses, Deadlines
    <2> QED BY <1>1, <2>2 DEF Elapse, TypeOK
  <1>2. CASE NotifyArrives
    BY <1>0, <1>2 DEF NotifyArrives, TypeOK
  <1>3. CASE NotifySignals
    <2> DEFINE z == notify.zone
               r == [Request(z, "Notify", notify.plan) EXCEPT
                       !.token = used.token + 1, !.ngen = status[z].gen]
               g == [token |-> used.token + 1, plan |-> notify.plan,
                     gen |-> status[z].gen, seen |-> FALSE]
    <2>1. z \in Zones /\ notify.plan \in Nat /\ NoZone \in Zones \cup {NoZone}
      BY <1>3 DEF NotifySignals, TypeOK
    <2>2. notify' \in [zone : Zones \cup {NoZone}, plan : Nat]
      BY <1>3 DEF NotifySignals
    <2>3. CASE UNCHANGED <<signal, outer, used>>
      BY <1>3, <2>2, <2>3 DEF NotifySignals, TypeOK
    <2>4. CASE /\ HasRoom /\ used' = [used EXCEPT !.token = @ + 1]
               /\ signal' = [signal EXCEPT ![z] = g] /\ outer' = Append(outer, r)
      <3>1. status[z].gen \in Nat /\ used.token + 1 \in Nat
        BY <1>0, <2>1 DEF Statuses
      <3>2. g \in Signals
        BY <2>1, <3>1 DEF Signals
      <3>3. Request(z, "Notify", notify.plan) \in Requests
        BY <2>1, RequestType DEF Reasons
      <3>4. r \in Requests
        BY <3>1, <3>3 DEF Requests
      <3> HIDE DEF r, g, z
      <3>5. outer' \in Seq(Requests) /\ Len(outer') = Len(outer) + 1
        BY <1>0, <2>4, <3>4, AppendFacts
      <3>6. Len(outer') <= Capacity
        BY <1>0, <2>4, <3>5 DEF HasRoom
      <3>7. signal' \in [Zones -> Signals] /\ used' \in [plan : Nat, gen : Nat, token : Nat]
        BY <1>0, <2>4, <3>1, <3>2
      <3> QED BY <1>3, <2>2, <3>5, <3>6, <3>7 DEF NotifySignals, TypeOK
    <2> QED BY <1>3, <2>3, <2>4, Zenon DEF NotifySignals
  <1>4. CASE PruneSignal
    BY <1>0, <1>4, EmptyTypes DEF PruneSignal, TypeOK
  <1>5. CASE ControlPlaneRetry
    <2>1. PICK z \in Zones : outer' = Append(outer, Request(z, "ControlPlane", plan[z]))
      BY <1>5 DEF ControlPlaneRetry
    <2>2. Request(z, "ControlPlane", plan[z]) \in Requests
      BY <1>0, RequestType DEF Reasons
    <2>3. outer' \in Seq(Requests) /\ Len(outer') = Len(outer) + 1
      BY <1>0, <2>1, <2>2, AppendFacts
    <2>4. Len(outer') <= Capacity
      BY <1>0, <1>5, <2>3 DEF ControlPlaneRetry, HasRoom
    <2> QED BY <1>5, <2>3, <2>4 DEF ControlPlaneRetry, TypeOK
  <1>6. CASE StartDue
    <2>1. PICK chosen \in SUBSET Zones :
            /\ sched' = chosen
            /\ status' = [z \in Zones |-> IF z \in chosen
                                            THEN [status[z] EXCEPT !.inProgress = TRUE]
                                            ELSE status[z]]
      BY <1>6 DEF StartDue
    <2>2. \A z \in Zones : [status[z] EXCEPT !.inProgress = TRUE] \in Statuses
      BY <1>0 DEF Statuses
    <2>3. status' \in [Zones -> Statuses] /\ sched' \subseteq Zones
      BY <1>0, <2>1, <2>2
    <2> QED BY <1>6, <2>3 DEF StartDue, TypeOK
  <1>7. CASE SendDue
    <2>1. PICK z \in sched : SendOrCancel(z)
      BY <1>7 DEF SendDue
    <2>2. z \in Zones /\ sched' \subseteq Zones
      BY <2>1 DEF SendOrCancel, TypeOK
    <2>3. CASE HasRoom /\ outer' = Append(outer, Request(z, "Scheduled", plan[z])) /\ UNCHANGED status
      <3>1. Request(z, "Scheduled", plan[z]) \in Requests
        BY <1>0, <2>2, RequestType DEF Reasons
      <3>2. outer' \in Seq(Requests) /\ Len(outer') = Len(outer) + 1
        BY <1>0, <2>3, <3>1, AppendFacts
      <3>3. Len(outer') <= Capacity
        BY <1>0, <2>3, <3>2 DEF HasRoom
      <3> QED BY <1>7, <2>2, <2>3, <3>2, <3>3 DEF SendDue, TypeOK
    <2>4. CASE UNCHANGED outer /\ status' \in {status, [status EXCEPT ![z].inProgress = FALSE]}
      <3>1. status' \in [Zones -> Statuses]
        <4>1. [status[z] EXCEPT !.inProgress = FALSE] \in Statuses
          BY <1>0, <2>2 DEF Statuses
        <4> QED BY <1>0, <2>2, <2>4, <4>1
      <3> QED BY <1>7, <2>2, <2>4, <3>1 DEF SendDue, TypeOK
    <2> QED BY <2>1, <2>3, <2>4 DEF SendOrCancel
  <1> QED BY <1>1, <1>2, <1>3, <1>4, <1>5, <1>6, <1>7 DEF Scheduler

\* What a scan does to the requests it passes over.
LEMMA KeysType == ASSUME TypeOK, NEW D PROVE KeysWithout(D) \subseteq Zones
  BY DEF KeysWithout, TypeOK

\* The turns of the dispatcher's loop keep the types, and a scan leaves no more requests pending.
LEMMA ScanType ==
  ASSUME TypeOK, Scan \/ ClosedWakes \/ \E z \in Zones : Retire(z)
  PROVE  TypeOK'
  <1>0. /\ status \in [Zones -> Statuses] /\ signal \in [Zones -> Signals]
        /\ pending \in Seq(Requests) /\ Len(pending) \in Nat /\ Len(pending) <= Capacity
        /\ task \in [Zones -> TaskStates] /\ Capacity \in Nat
    BY QueueAssumption DEF TypeOK
  <1>1. <<>> \in Seq(Requests) /\ Len(<<>>) = 0
    OBVIOUS
  <1>2. CASE DrainOnClose
    <2>1. signal' \in [Zones -> Signals] /\ status' \in [Zones -> Statuses]
      BY <1>2, RolledBackFacts, DeferredDropFacts DEF DrainOnClose
    <2>2. outer' = <<>> /\ pending' = <<>> /\ pendingKeys' = {} /\ disp' = "scan" /\ rxOpen' = FALSE
      BY <1>2 DEF DrainOnClose
    <2>3. UNCHANGED <<plan, notify, task, sched, apply, admission, used>>
      BY <1>2 DEF DrainOnClose
    <2>4. /\ outer' \in Seq(Requests) /\ Len(outer') <= Capacity
          /\ pending' \in Seq(Requests) /\ Len(pending') <= Capacity
      BY <1>0, <1>1, <2>2
    <2>5. /\ pendingKeys' \subseteq Zones /\ disp' \in {"drain", "scan", "wait", "stopped"}
          /\ rxOpen' \in BOOLEAN
      BY <2>2
    <2> QED BY <2>1, <2>3, <2>4, <2>5 DEF TypeOK
  <1>3. ASSUME Ready # {}, pending' = Scanned(pending, FirstReady)
        PROVE  pending' \in Seq(Requests) /\ Len(pending') <= Capacity
    <2>1. Scanned(pending, FirstReady) \in Seq(Requests) /\ Len(Scanned(pending, FirstReady)) < Len(pending)
      BY <1>0, <1>3, FirstReadyFacts, ScannedPlaces
    <2>2. Len(pending') \in Nat
      BY <1>3, <2>1
    <2> QED BY <1>0, <1>3, <2>1, <2>2
  <1>4. CASE Dispatch
    <2>1. /\ Ready # {} /\ pending' = Scanned(pending, FirstReady)
          /\ pendingKeys' \subseteq Zones /\ signal' \in [Zones -> Signals]
      BY <1>4, KeysType, RolledBackFacts DEF Dispatch, Scanned
    <2>2. task' \in [Zones -> TaskStates]
      <3> DEFINE r == pending[FirstReady]
                 v == [NoTask EXCEPT !.pc = "spawned", !.plan = r.plan, !.ngen = r.ngen]
      <3>1. task' = [task EXCEPT ![r.zone] = v]
        BY <1>4 DEF Dispatch
      <3>2. r \in Requests
        BY <2>1, FirstReadyFacts
      <3>3. v \in TaskStates
        BY <3>2 DEF NoTask, TaskStates, Requests
      <3> HIDE DEF r, v
      <3> QED BY <1>0, <3>1, <3>2, <3>3 DEF Requests
    <2> QED BY <1>3, <1>4, <2>1, <2>2 DEF Dispatch, TypeOK
  <1>5. CASE AdmitFails
    <2>1. /\ Ready # {} /\ pending' = Scanned(pending, FirstReady)
          /\ pendingKeys' \subseteq Zones /\ signal' \in [Zones -> Signals]
          /\ status' \in [Zones -> Statuses]
      BY <1>5, KeysType, RolledBackFacts, DeferredDropFacts DEF AdmitFails, Scanned
    <2> QED BY <1>3, <1>5, <2>1 DEF AdmitFails, TypeOK
  <1>6. CASE ScanEnds
    <2>1. disp' \in {"drain", "scan", "wait", "stopped"}
      BY <1>6 DEF ScanEnds
    <2>2. CASE UNCHANGED <<pending, pendingKeys, signal>>
      BY <1>6, <2>1, <2>2 DEF ScanEnds, TypeOK
    <2>3. CASE /\ pending' = Kept(pending)
               /\ pendingKeys' = KeysWithout(Obsolete(pending))
               /\ signal' = RolledBack(Obsolete(pending))
      <3>1. pending' \in Seq(Requests) /\ Len(pending') <= Len(pending) /\ Len(pending') \in Nat
        BY <1>0, <2>3, KeptFacts
      <3>2. Len(pending') <= Capacity
        BY <1>0, <3>1
      <3>3. pendingKeys' \subseteq Zones /\ signal' \in [Zones -> Signals]
        BY <2>3, KeysType, RolledBackFacts
      <3> QED BY <1>6, <2>1, <3>1, <3>2, <3>3 DEF ScanEnds, TypeOK
    <2> QED BY <1>6, <2>2, <2>3, Zenon DEF ScanEnds
  <1>7. CASE ClosedWakes
    BY <1>7 DEF ClosedWakes, LoopTop, TypeOK
  <1>8. ASSUME NEW z \in Zones, Retire(z) PROVE TypeOK'
    BY <1>0, <1>8, EmptyTypes DEF Retire, LoopTop, TypeOK
  <1> QED BY <1>2, <1>4, <1>5, <1>6, <1>7, <1>8, Zenon DEF Scan

\* A merge changes one place of the pending queue.
LEMMA ReplaceFacts ==
  ASSUME NEW S, NEW s \in Seq(S), NEW i \in 1 .. Len(s), NEW x \in S
  PROVE  /\ [s EXCEPT ![i] = x] \in Seq(S) /\ Len([s EXCEPT ![i] = x]) = Len(s)
         /\ \A j \in 1 .. Len(s) : [s EXCEPT ![i] = x][j] = IF j = i THEN x ELSE s[j]
         /\ ToSet([s EXCEPT ![i] = x]) \subseteq ToSet(s) \cup {x}
         /\ x \in ToSet([s EXCEPT ![i] = x])
         /\ \A r \in ToSet(s) : r = s[i] \/ r \in ToSet([s EXCEPT ![i] = x])
  <1> DEFINE t == [s EXCEPT ![i] = x]
  <1>1. /\ t \in Seq(S) /\ Len(t) = Len(s) /\ DOMAIN t = 1 .. Len(s) /\ DOMAIN s = 1 .. Len(s)
        /\ \A j \in 1 .. Len(s) : t[j] = IF j = i THEN x ELSE s[j]
    OBVIOUS
  <1> HIDE DEF t
  <1>2. /\ ToSet(t) \subseteq ToSet(s) \cup {x} /\ x \in ToSet(t)
        /\ \A r \in ToSet(s) : r = s[i] \/ r \in ToSet(t)
    <2>1. ToSet(t) = {t[j] : j \in 1 .. Len(s)} /\ ToSet(s) = {s[j] : j \in 1 .. Len(s)}
      BY <1>1 DEF ToSet
    <2>2. t[i] = x
      BY <1>1
    <2>3. \A j \in 1 .. Len(s) : j # i => t[j] = s[j]
      BY <1>1
    <2> QED BY <2>1, <2>2, <2>3
  <1> QED BY <1>1, <1>2 DEF t

\* The request that is received, and the channel after it.
LEMMA ReceivedFacts ==
  ASSUME TypeOK, Received
  PROVE  /\ Head(outer) \in Requests /\ outer' \in Seq(Requests) /\ Len(outer') <= Capacity
         /\ ToSet(outer) = ToSet(outer') \cup {Head(outer)}
         /\ Head(outer).zone \in Zones
         /\ disp' \in {"scan", "drain"} /\ (disp' = "drain" => ~admission)
         /\ UNCHANGED <<plan, notify, task, sched, apply, admission, rxOpen, used>> /\ rxOpen
  <1>1. outer \in Seq(Requests) /\ outer # <<>> /\ Len(outer) <= Capacity /\ Len(outer) \in Nat
        /\ Capacity \in Nat
    BY QueueAssumption DEF TypeOK, Received
  <1>2. /\ Tail(outer) \in Seq(Requests) /\ Head(outer) \in Requests
        /\ Len(Tail(outer)) < Len(outer) /\ ToSet(outer) = ToSet(Tail(outer)) \cup {Head(outer)}
    BY <1>1, TailFacts
  <1>3. outer' = Tail(outer)
    BY DEF Received
  <1>4. Len(outer') \in Nat
    BY <1>2, <1>3
  <1>5. outer' \in Seq(Requests) /\ Len(outer') <= Capacity
    BY <1>1, <1>2, <1>3, <1>4
  <1>6. disp' \in {"scan", "drain"} /\ (disp' = "drain" => ~admission)
    BY DEF Received, LoopTop
  <1> QED BY <1>2, <1>3, <1>5, <1>6 DEF Received, Requests

\* What a merge does: nothing of that zone is pending after all, the request at hand is merged
\* with the pending one, takes its place, or gives way to it.
LEMMA MergeFacts ==
  ASSUME TypeOK, ReceiveMerge
  PROVE  LET r == Head(outer)
         IN  /\ Received /\ RequestIsCurrent(r) /\ Commits(r) /\ Queued(r.zone)
             /\ UNCHANGED pendingKeys
             /\ \/ /\ \A i \in 1 .. Len(pending) : pending[i].zone # r.zone
                   /\ UNCHANGED <<pending, signal, status>>
                \/ \E i \in 1 .. Len(pending) :
                     /\ pending[i].zone = r.zone
                     /\ \/ /\ pending[i].plan = r.plan
                           /\ pending' = [pending EXCEPT ![i] = Merged(pending[i], Committed(r))]
                           /\ signal' = TakenOver(pending[i], r)
                           /\ UNCHANGED status
                        \/ /\ pending[i].plan < r.plan
                           /\ pending' = [pending EXCEPT ![i] = Committed(r)]
                           /\ Drop(pending[i])
                        \/ /\ pending[i].plan > r.plan
                           /\ Drop(Committed(r))
                           /\ UNCHANGED pending
  BY Zenon DEF ReceiveMerge

\* A reservation that is taken over is marked as seen.
LEMMA TakenOverFacts ==
  ASSUME TypeOK, NEW q \in Requests, NEW r \in Requests
  PROVE  /\ TakenOver(q, r) \in [Zones -> Signals]
         /\ \A z \in Zones :
              /\ TakenOver(q, r)[z].token = signal[z].token
              /\ TakenOver(q, r)[z].plan = signal[z].plan
              /\ TakenOver(q, r)[z].gen = signal[z].gen
              /\ signal[z].seen => TakenOver(q, r)[z].seen
         /\ r.token = 0 /\ q.token # 0 /\ q.token = signal[r.zone].token
              => TakenOver(q, r)[r.zone].seen
  <1>1. signal \in [Zones -> Signals] /\ r.zone \in Zones
    BY DEF TypeOK, Requests
  <1>2. CASE r.token = 0 /\ q.token # 0 /\ q.token = signal[r.zone].token
    <2> DEFINE v == [signal[r.zone] EXCEPT !.seen = TRUE]
    <2>1. /\ v \in Signals /\ v.seen = TRUE /\ v.token = signal[r.zone].token
          /\ v.plan = signal[r.zone].plan /\ v.gen = signal[r.zone].gen
      BY <1>1 DEF Signals
    <2>2. TakenOver(q, r) = [signal EXCEPT ![r.zone] = v]
      BY <1>1, <1>2 DEF TakenOver, Signals
    <2> HIDE DEF v
    <2> QED BY <1>1, <2>1, <2>2
  <1>3. CASE ~(r.token = 0 /\ q.token # 0 /\ q.token = signal[r.zone].token)
    <2>1. TakenOver(q, r) = signal
      BY <1>3 DEF TakenOver
    <2> QED BY <1>1, <1>3, <2>1
  <1> QED BY <1>2, <1>3

\* A request that is received keeps the types: what it adds fits, or takes another's place.
LEMMA ReceiveType ==
  ASSUME TypeOK, Receive
  PROVE  TypeOK'
  <1>0. /\ pending \in Seq(Requests) /\ Len(pending) \in Nat /\ Len(pending) <= Capacity
        /\ Capacity \in Nat \ {0} /\ pendingKeys \subseteq Zones
        /\ signal \in [Zones -> Signals] /\ status \in [Zones -> Statuses]
    BY QueueAssumption DEF TypeOK
  <1> DEFINE r == Head(outer)
  <1>1. /\ r \in Requests /\ r.zone \in Zones /\ outer' \in Seq(Requests) /\ Len(outer') <= Capacity
        /\ disp' \in {"scan", "drain"}
        /\ UNCHANGED <<plan, notify, task, sched, apply, admission, rxOpen, used>>
    BY ReceivedFacts DEF Receive, ReceiveObsolete, ReceiveFull, ReceiveSuperseded, ReceiveAdmit,
                         ReceiveEvict, ReceiveMerge
  <1>2. ASSUME pending' \in Seq(Requests), Len(pending') <= Capacity, pendingKeys' \subseteq Zones,
               signal' \in [Zones -> Signals], status' \in [Zones -> Statuses]
        PROVE  TypeOK'
    BY <1>1, <1>2 DEF TypeOK
  <1>3. CASE ReceiveObsolete
    BY <1>0, <1>2, <1>3, RolledBackFacts DEF ReceiveObsolete
  <1>4. CASE ReceiveFull
    BY <1>0, <1>2, <1>4, RolledBackFacts, DeferredDropFacts DEF ReceiveFull, Drop
  <1>5. CASE ReceiveSuperseded
    BY <1>0, <1>2, <1>5 DEF ReceiveSuperseded
  <1>6. CASE ReceiveAdmit
    <2>1. /\ pending' = Append(pending, Committed(r)) /\ ~IsFull
          /\ pendingKeys' = pendingKeys \cup {r.zone} /\ UNCHANGED <<signal, status>>
      BY <1>6 DEF ReceiveAdmit
    <2>2. pending' \in Seq(Requests) /\ Len(pending') = Len(pending) + 1
      BY <1>0, <1>1, <2>1, AppendFacts, CommittedType
    <2>3. Len(pending') <= Capacity
      BY <1>0, <2>1, <2>2 DEF IsFull
    <2> QED BY <1>0, <1>1, <1>2, <2>1, <2>2, <2>3
  <1>7. CASE ReceiveEvict
    <2>1. /\ pending' = Append(Front(pending), Committed(r)) /\ IsFull
          /\ pendingKeys' = EvictedKeys(r, Last(pending)) /\ Drop(Last(pending))
      BY <1>7 DEF ReceiveEvict
    <2>2. pending # <<>>
      BY <1>0, <2>1 DEF IsFull
    <2>3. Front(pending) \in Seq(Requests) /\ Len(Front(pending)) = Len(pending) - 1
      BY <1>0, <2>2, FrontFacts
    <2>4. pending' \in Seq(Requests) /\ Len(pending') = Len(Front(pending)) + 1
      BY <1>1, <2>1, <2>3, AppendFacts, CommittedType
    <2>5. Len(pending') <= Capacity
      BY <1>0, <2>3, <2>4
    <2> QED BY <1>0, <1>1, <1>2, <2>1, <2>4, <2>5, RolledBackFacts, DeferredDropFacts
            DEF EvictedKeys, Drop
  <1>8. CASE ReceiveMerge
    <2>1. UNCHANGED pendingKeys
      BY <1>8 DEF ReceiveMerge
    <2>2. /\ signal' \in [Zones -> Signals] /\ status' \in [Zones -> Statuses]
          /\ \/ UNCHANGED pending
             \/ \E i \in 1 .. Len(pending), x \in Requests : pending' = [pending EXCEPT ![i] = x]
      <3>1. \A i \in 1 .. Len(pending) : pending[i] \in Requests /\ Merged(pending[i], Committed(r)) \in Requests
        BY <1>0, <1>1, MergedType, CommittedType
      <3>2. Committed(r) \in Requests
        BY <1>1, CommittedType
      <3>3. ASSUME NEW q \in Requests, Drop(q)
            PROVE  signal' \in [Zones -> Signals] /\ status' \in [Zones -> Statuses]
        BY <3>3, RolledBackFacts, DeferredDropFacts DEF Drop
      <3>4. CASE UNCHANGED <<pending, signal, status>>
        BY <1>0, <3>4
      <3>5. ASSUME NEW i \in 1 .. Len(pending),
                   pending' = [pending EXCEPT ![i] = Merged(pending[i], Committed(r))],
                   signal' = TakenOver(pending[i], r), UNCHANGED status
            PROVE  /\ signal' \in [Zones -> Signals] /\ status' \in [Zones -> Statuses]
                   /\ \E x \in Requests : pending' = [pending EXCEPT ![i] = x]
        <4>1. signal' \in [Zones -> Signals]
          BY <1>1, <3>1, <3>5, TakenOverFacts
        <4> QED BY <1>0, <3>1, <3>5, <4>1, Zenon
      <3>6. ASSUME NEW i \in 1 .. Len(pending), pending' = [pending EXCEPT ![i] = Committed(r)],
                   Drop(pending[i])
            PROVE  /\ signal' \in [Zones -> Signals] /\ status' \in [Zones -> Statuses]
                   /\ \E x \in Requests : pending' = [pending EXCEPT ![i] = x]
        BY <3>1, <3>2, <3>3, <3>6, Zenon
      <3>7. ASSUME UNCHANGED pending, Drop(Committed(r))
            PROVE  signal' \in [Zones -> Signals] /\ status' \in [Zones -> Statuses]
        BY <3>2, <3>3, <3>7, Zenon
      <3> QED BY <1>8, <3>4, <3>5, <3>6, <3>7, MergeFacts, Zenon
    <2>3. pending' \in Seq(Requests) /\ Len(pending') <= Capacity
      BY <1>0, <2>2, ReplaceFacts
    <2> QED BY <1>0, <1>2, <2>1, <2>2, <2>3
  <1> QED BY <1>3, <1>4, <1>5, <1>6, <1>7, <1>8 DEF Receive

\* The steps of a zone's task keep the types.
LEMMA TaskType ==
  ASSUME TypeOK, NEW z \in Zones, Task(z) \/ Interrupt(z) \/ SecretsReloaded(z)
  PROVE  TypeOK'
  <1>0. /\ status \in [Zones -> Statuses] /\ signal \in [Zones -> Signals]
        /\ task \in [Zones -> TaskStates] /\ apply \in ApplyStates
        /\ used \in [plan : Nat, gen : Nat, token : Nat] /\ used.gen + 1 \in Nat
    BY DEF TypeOK
  <1>1. \A b \in BOOLEAN, d \in Deadlines :
          /\ [status EXCEPT ![z].inProgress = b, ![z].next = d] \in [Zones -> Statuses]
          /\ [status EXCEPT ![z].inProgress = b] \in [Zones -> Statuses]
          /\ [status EXCEPT ![z].next = d] \in [Zones -> Statuses]
    BY <1>0 DEF Statuses
  <1>2. TRUE \in BOOLEAN /\ FALSE \in BOOLEAN /\ "now" \in Deadlines /\ "later" \in Deadlines
    BY DEF Deadlines
  <1>3. ASSUME task' \in [Zones -> TaskStates], status' \in [Zones -> Statuses],
               signal' \in [Zones -> Signals], apply' \in ApplyStates,
               used' \in [plan : Nat, gen : Nat, token : Nat],
               UNCHANGED <<plan, notify, outer, pending, pendingKeys, disp, sched, admission, rxOpen>>
        PROVE  TypeOK'
    BY <1>3 DEF TypeOK
  <1>4. CASE BeginStale(z)
    BY <1>0, <1>3, <1>4, TaskFacts DEF BeginStale
  <1>5. CASE BeginAttempt(z)
    <2>1. CASE /\ status' = [status EXCEPT ![z].inProgress = TRUE]
               /\ task' = [task EXCEPT ![z].pc = "started", ![z].gen = status[z].gen]
               /\ UNCHANGED used
      <3>1. status' \in [Zones -> Statuses]
        BY <1>1, <1>2, <2>1
      <3>2. task' \in [Zones -> TaskStates]
        <4>1. status[z].gen \in Nat
          BY <1>0 DEF Statuses
        <4>2. [task[z] EXCEPT !.pc = "started", !.gen = status[z].gen] \in TaskStates
          BY <1>0, <4>1 DEF TaskStates
        <4> QED BY <1>0, <2>1, <4>2
      <3> QED BY <1>0, <1>3, <1>5, <3>1, <3>2, <2>1 DEF BeginAttempt
    <2>2. CASE /\ used' = [used EXCEPT !.gen = @ + 1]
               /\ status' = [status EXCEPT ![z] = [NoStatus EXCEPT !.gen = used.gen + 1,
                                                     !.inProgress = TRUE]]
               /\ task' = [task EXCEPT ![z].pc = "started", ![z].gen = used.gen + 1,
                                       ![z].created = TRUE]
      <3>1. [NoStatus EXCEPT !.gen = used.gen + 1, !.inProgress = TRUE] \in Statuses
        BY <1>0, EmptyTypes DEF Statuses
      <3>2. status' \in [Zones -> Statuses] /\ used' \in [plan : Nat, gen : Nat, token : Nat]
        BY <1>0, <2>2, <3>1
      <3>3. task' \in [Zones -> TaskStates]
        <4>1. [task[z] EXCEPT !.pc = "started", !.gen = used.gen + 1, !.created = TRUE]
                \in TaskStates
          BY <1>0 DEF TaskStates
        <4> QED BY <1>0, <2>2, <4>1
      <3> QED BY <1>0, <1>3, <1>5, <3>2, <3>3 DEF BeginAttempt
    <2> QED BY <1>5, <2>1, <2>2, Zenon DEF BeginAttempt
  <1>6. CASE StartTransfer(z)
    <2>1. task' \in [Zones -> TaskStates]
      BY <1>6, TaskFacts DEF StartTransfer
    <2>2. signal' \in [Zones -> Signals]
      <3>1. signal' = [signal EXCEPT ![z].seen = signal[z].token # 0]
        BY <1>6 DEF StartTransfer
      <3>2. (signal[z].token # 0) \in BOOLEAN
        OBVIOUS
      <3> QED BY <1>0, <3>1, <3>2 DEF Signals
    <2> QED BY <1>0, <1>3, <1>6, <2>1, <2>2 DEF StartTransfer
  <1>7. CASE TransferObsolete(z) \/ SecretsReloaded(z)
    <2>1. DiscardObsolete(z)
      BY <1>7 DEF TransferObsolete, SecretsReloaded
    <2>2. task' \in [Zones -> TaskStates] /\ status' \in [Zones -> Statuses]
      BY <2>1, DiscardFacts
    <2> QED BY <1>0, <1>3, <1>7, <2>2 DEF TransferObsolete, SecretsReloaded
  <1>8. CASE Interrupt(z)
    <2>1. task' \in [Zones -> TaskStates]
      BY <1>8, TaskFacts DEF Interrupt
    <2>2. status' \in [Zones -> Statuses]
      BY <1>8, DeferredFacts DEF Interrupt
    <2> QED BY <1>0, <1>3, <1>8, <2>1, <2>2 DEF Interrupt
  <1>9. CASE TransferFails(z) \/ FinishAttempt(z)
    <2>1. task' \in [Zones -> TaskStates]
      BY <1>9, TaskFacts DEF TransferFails, FinishAttempt
    <2>2. status' \in {status, [status EXCEPT ![z].inProgress = FALSE],
                       [status EXCEPT ![z].inProgress = FALSE, ![z].next = "later"]}
      BY <1>9 DEF TransferFails, FinishAttempt
    <2>3. status' \in [Zones -> Statuses]
      <3>1. /\ [status EXCEPT ![z].inProgress = FALSE] \in [Zones -> Statuses]
            /\ [status EXCEPT ![z].inProgress = FALSE, ![z].next = "later"] \in [Zones -> Statuses]
        BY <1>1, <1>2, Zenon
      <3> QED BY <1>0, <2>2, <3>1, Zenon
    <2> QED BY <1>0, <1>3, <1>9, <2>1, <2>3 DEF TransferFails, FinishAttempt
  <1>10. CASE TransferSucceeds(z)
    <2>1. task' \in [Zones -> TaskStates]
      BY <1>10, TaskFacts DEF TransferSucceeds
    <2>2. status' \in [Zones -> Statuses]
      BY <1>1, <1>2, <1>10 DEF TransferSucceeds
    <2>3. CASE UNCHANGED apply
      BY <1>0, <1>3, <1>10, <2>1, <2>2, <2>3 DEF TransferSucceeds
    <2>4. ASSUME NEW todo \in SUBSET [zone : Members, what : {"add", "remove", "rename", "policy"}],
                 apply' = [NoApply EXCEPT !.pc = "next", !.todo = todo]
          PROVE  TypeOK'
      <3>1. apply' \in ApplyStates
        BY <2>4, EmptyTypes DEF ApplyStates, WhatChanges
      <3> QED BY <1>0, <1>3, <1>10, <2>1, <2>2, <3>1 DEF TransferSucceeds
    <2> QED BY <1>10, <2>3, <2>4 DEF TransferSucceeds
  <1> QED BY <1>4, <1>5, <1>6, <1>7, <1>8, <1>9, <1>10 DEF Task

\* The steps of a reconciliation keep the types.
LEMMA ApplyType ==
  ASSUME TypeOK, ControlInv, Apply
  PROVE  TypeOK'
  <1>0. /\ status \in [Zones -> Statuses] /\ signal \in [Zones -> Signals]
        /\ plan \in [Zones -> Nat] /\ apply \in ApplyStates
        /\ outer \in Seq(Requests) /\ Len(outer) \in Nat /\ Capacity \in Nat
        /\ used \in [plan : Nat, gen : Nat, token : Nat]
        /\ used.gen + 1 \in Nat /\ used.plan + 1 \in Nat
    BY QueueAssumption DEF TypeOK
  <1>1. ASSUME status' \in [Zones -> Statuses], signal' \in [Zones -> Signals],
               plan' \in [Zones -> Nat], apply' \in ApplyStates,
               used' \in [plan : Nat, gen : Nat, token : Nat],
               outer' \in Seq(Requests), Len(outer') <= Capacity,
               UNCHANGED <<notify, pending, pendingKeys, task, disp, sched, admission, rxOpen>>
        PROVE  TypeOK'
    BY <1>1 DEF TypeOK
  <1>2. Len(outer) <= Capacity
    BY DEF TypeOK
  <1>3. \A pc \in {"idle", "next", "status", "signal", "insert", "loading"} :
          [apply EXCEPT !.pc = pc] \in ApplyStates
    BY <1>0 DEF ApplyStates
  <1>4. CASE ApplyNext
    <2>1. PICK c \in apply.todo :
            /\ apply' = [apply EXCEPT !.zone = c.zone, !.what = c.what, !.todo = @ \ {c},
                      !.pc = IF c.what \in {"remove", "rename"} THEN "status" ELSE "insert"]
            /\ plan' = IF c.what \in {"remove", "rename"} THEN [plan EXCEPT ![c.zone] = 0] ELSE plan
      BY <1>4 DEF ApplyNext
    <2>2. c.zone \in Members /\ c.what \in WhatChanges /\ c.zone \in Zones
      BY <1>0 DEF ApplyStates, Members
    <2>3. apply' \in ApplyStates
      BY <1>0, <2>1, <2>2 DEF ApplyStates
    <2>4. plan' \in [Zones -> Nat]
      BY <1>0, <2>1, <2>2
    <2> QED BY <1>0, <1>1, <1>2, <1>4, <2>3, <2>4 DEF ApplyNext
  <1>5. CASE ApplyRemoveStatus
    <2>1. status' \in [Zones -> Statuses]
      BY <1>0, <1>5, EmptyTypes DEF ApplyRemoveStatus
    <2>2. apply' \in ApplyStates
      BY <1>3, <1>5 DEF ApplyRemoveStatus
    <2> QED BY <1>0, <1>1, <1>2, <1>5, <2>1, <2>2 DEF ApplyRemoveStatus
  <1>6. CASE ApplyRemoveSignal
    <2>1. signal' \in [Zones -> Signals]
      BY <1>0, <1>6, EmptyTypes DEF ApplyRemoveSignal
    <2>2. apply' \in ApplyStates
      BY <1>3, <1>6 DEF ApplyRemoveSignal
    <2> QED BY <1>0, <1>1, <1>2, <1>6, <2>1, <2>2 DEF ApplyRemoveSignal
  <1>7. CASE ApplyInsertPlan
    <2> DEFINE q == Request(apply.zone, "Catalog", used.plan + 1)
    <2>1. apply.zone \in Zones
      BY <1>7 DEF ApplyInsertPlan, ControlInv, Members
    <2>2. q \in Requests
      BY <1>0, <2>1, RequestType DEF Reasons
    <2>3. apply' = [apply EXCEPT !.pc = IF apply.what = "policy" THEN "next" ELSE "loading",
                 !.sends = @ \cup {q}]
      BY <1>7 DEF ApplyInsertPlan
    <2> HIDE DEF q
    <2>4. apply' \in ApplyStates
      BY <1>0, <2>2, <2>3 DEF ApplyStates
    <2>5. plan' \in [Zones -> Nat] /\ used' \in [plan : Nat, gen : Nat, token : Nat]
      BY <1>0, <1>7 DEF ApplyInsertPlan
    <2> QED BY <1>0, <1>1, <1>2, <1>7, <2>4, <2>5 DEF ApplyInsertPlan
  <1>8. CASE ApplyLoadingStart
    <2>1. apply' \in ApplyStates
      BY <1>3, <1>8 DEF ApplyLoadingStart
    <2>2. apply.zone \in Zones
      BY <1>8 DEF ApplyLoadingStart, ControlInv, Members
    <2>3. status' \in [Zones -> Statuses] /\ used' \in [plan : Nat, gen : Nat, token : Nat]
      <3> DEFINE z == apply.zone
      <3>1. PICK restored \in {"none", "later", "now"} :
              \/ /\ status' = IF restored = "none" THEN status
                              ELSE [status EXCEPT ![z].inProgress = FALSE, ![z].next = restored]
                 /\ UNCHANGED used
              \/ /\ used' = [used EXCEPT !.gen = @ + 1]
                 /\ status' = [status EXCEPT ![z] = [gen |-> used.gen + 1, inProgress |-> FALSE,
                                                     next |-> restored]]
        BY <1>8 DEF ApplyLoadingStart
      <3>2. restored \in Deadlines
        BY DEF Deadlines
      <3>3. CASE /\ status' = IF restored = "none" THEN status
                              ELSE [status EXCEPT ![z].inProgress = FALSE, ![z].next = restored]
                 /\ UNCHANGED used
        BY <1>0, <2>2, <3>2, <3>3 DEF Statuses
      <3>4. CASE /\ used' = [used EXCEPT !.gen = @ + 1]
                 /\ status' = [status EXCEPT ![z] = [gen |-> used.gen + 1, inProgress |-> FALSE,
                                                     next |-> restored]]
        <4>1. [gen |-> used.gen + 1, inProgress |-> FALSE, next |-> restored] \in Statuses
          BY <1>0, <3>2 DEF Statuses
        <4> QED BY <1>0, <2>2, <3>4, <4>1
      <3> QED BY <3>1, <3>3, <3>4
    <2> QED BY <1>0, <1>1, <1>2, <1>8, <2>1, <2>3 DEF ApplyLoadingStart
  <1>9. CASE ApplySend
    <2>1. PICK r \in apply.sends :
            /\ apply' = [apply EXCEPT !.sends = @ \ {r}]
            /\ \/ HasRoom /\ outer' = Append(outer, r)
               \/ ~rxOpen /\ UNCHANGED outer
      BY <1>9 DEF ApplySend
    <2>2. r \in Requests /\ apply' \in ApplyStates
      BY <1>0, <2>1 DEF ApplyStates
    <2>3. CASE HasRoom /\ outer' = Append(outer, r)
      <3>1. outer' \in Seq(Requests) /\ Len(outer') = Len(outer) + 1
        BY <1>0, <2>2, <2>3, AppendFacts
      <3>2. Len(outer') <= Capacity
        BY <1>0, <2>3, <3>1 DEF HasRoom
      <3> QED BY <1>0, <1>1, <1>9, <2>2, <3>1, <3>2 DEF ApplySend
    <2>4. CASE UNCHANGED outer
      BY <1>0, <1>1, <1>2, <1>9, <2>2, <2>4 DEF ApplySend
    <2> QED BY <2>1, <2>3, <2>4
  <1>10. CASE ApplyEnds
    <2>1. apply' = NoApply /\ TaskGoes(Catalog, "finishing")
          /\ UNCHANGED <<plan, status, signal, notify, outer, pending, pendingKeys, disp, sched,
                         admission, rxOpen, used>>
      BY <1>10 DEF ApplyEnds
    <2>2. task' \in [Zones -> TaskStates]
      BY <2>1, EmptyTypes, TaskFacts
    <2>3. apply' \in ApplyStates
      BY <2>1, EmptyTypes
    <2> QED BY <2>1, <2>2, <2>3 DEF TypeOK
  <1> QED BY <1>4, <1>5, <1>6, <1>7, <1>8, <1>9, <1>10 DEF Apply

\* Every step keeps the types.
LEMMA NextType ==
  ASSUME TypeOK, ControlInv, [Next]_vars
  PROVE  TypeOK'
  <1>1. CASE CloseAdmission
    BY <1>1 DEF CloseAdmission, TypeOK
  <1>2. CASE UNCHANGED vars
    BY <1>2 DEF vars, TypeOK
  <1>3. ASSUME NEW z \in Zones, Task(z) \/ Interrupt(z) \/ SecretsReloaded(z) PROVE TypeOK'
    BY <1>3, TaskType
  <1> QED BY <1>1, <1>2, <1>3, IncomingType, ScanType, ReceiveType, ApplyType, Zenon DEF Next

(***************************************************************************)
(* The control of the dispatcher and of the reconciliation.                *)
(***************************************************************************)

\* A request stays current while its zone keeps its plan and, where a NOTIFY made it, its status.
LEMMA StaysCurrent ==
  ASSUME NEW r, plan'[r.zone] = plan[r.zone],
         r.ngen = 0 \/ status'[r.zone].gen = status[r.zone].gen
  PROVE  RequestIsCurrent(r)' = RequestIsCurrent(r)
  BY DEF RequestIsCurrent, IsCurrent

\* ControlInv holds when the program starts.
LEMMA InitControl == Init => ControlInv
  <1> SUFFICES ASSUME Init PROVE ControlInv
    OBVIOUS
  <1>1. apply.pc = "idle" /\ apply.sends = {} /\ disp = "scan" /\ admission = TRUE /\ rxOpen = TRUE
    BY DEF Init, NoApply
  <1>2. task[Catalog].pc = "none"
    BY QueueAssumption DEF Init, NoTask
  <1> QED BY <1>1, <1>2 DEF ControlInv

\* A step that leaves the plans and the reconciliation alone keeps ControlInv, if the catalog's
\* task is reconciling after it as before it and the dispatcher heeds the admission.
LEMMA ControlCalm ==
  ASSUME TypeOK, ControlInv, UNCHANGED <<plan, apply>>,
         (task'[Catalog].pc = "applying") = (task[Catalog].pc = "applying"),
         admission' => rxOpen', disp' = "drain" => ~admission'
  PROVE  ControlInv'
  <1>1. ASSUME NEW r \in apply.sends PROVE RequestIsCurrent(r)' = RequestIsCurrent(r)
    BY <1>1, StaysCurrent DEF ControlInv
  <1>2. apply.pc = "loading" => \E r \in apply.sends : r.zone = apply.zone /\ RequestIsCurrent(r)'
    BY <1>1 DEF ControlInv
  <1> QED BY <1>2 DEF ControlInv

\* Only the catalog's own success starts a reconciliation, and only the reconciliation itself
\* ends it: no other step of a task is a step to or from "applying".
LEMMA ControlTask ==
  ASSUME TypeOK, ControlInv, NEW z \in Zones, Task(z) \/ Interrupt(z) \/ SecretsReloaded(z)
  PROVE  ControlInv'
  <1>0. task \in [Zones -> TaskStates] /\ Catalog \in Zones
    BY EmptyTypes DEF TypeOK
  <1>1. UNCHANGED <<plan, disp, admission, rxOpen>>
    BY DEF Task, BeginStale, BeginAttempt, StartTransfer, TransferObsolete, TransferFails,
           TransferSucceeds, FinishAttempt, Interrupt, SecretsReloaded
  <1>2. (admission' => rxOpen') /\ (disp' = "drain" => ~admission')
    BY <1>1 DEF ControlInv
  <1>3. task[z].pc # "applying"
    BY DEF Task, BeginStale, BeginAttempt, StartTransfer, TransferObsolete, TransferFails,
           TransferSucceeds, FinishAttempt, Interrupt, SecretsReloaded
  <1>4. ASSUME NEW pc \in {"started", "running", "finishing", "done"}, TaskGoes(z, pc)
        PROVE  (task'[Catalog].pc = "applying") = (task[Catalog].pc = "applying")
    BY <1>0, <1>3, <1>4, TaskFacts
  <1>5. CASE BeginStale(z) \/ StartTransfer(z) \/ TransferFails(z) \/ FinishAttempt(z) \/ Interrupt(z)
             \/ TransferObsolete(z) \/ SecretsReloaded(z)
    <2>1. UNCHANGED apply /\ \E pc \in {"started", "running", "finishing", "done"} : TaskGoes(z, pc)
      BY <1>5 DEF BeginStale, StartTransfer, TransferFails, FinishAttempt, Interrupt,
                  TransferObsolete, SecretsReloaded, DiscardObsolete
    <2> QED BY <1>1, <1>2, <1>4, <2>1, ControlCalm DEF ControlInv
  <1>6. CASE BeginAttempt(z)
    <2>1. (task'[Catalog].pc = "applying") = (task[Catalog].pc = "applying")
      BY <1>0, <1>3, <1>6 DEF BeginAttempt, TaskStates
    <2>2. UNCHANGED apply
      BY <1>6 DEF BeginAttempt
    <2> QED BY <1>1, <1>2, <2>1, <2>2, ControlCalm DEF ControlInv
  <1>7. CASE TransferSucceeds(z)
    <2>1. CASE TaskGoes(z, "finishing") /\ UNCHANGED apply
      BY <1>1, <1>2, <1>4, <2>1, ControlCalm DEF ControlInv
    <2>2. ASSUME NEW todo, z = Catalog, TaskGoes(z, "applying"),
                 apply' = [NoApply EXCEPT !.pc = "next", !.todo = todo]
          PROVE  ControlInv'
      <3>1. apply'.pc = "next" /\ apply'.sends = {}
        BY <2>2 DEF NoApply
      <3>2. task'[Catalog].pc = "applying"
        BY <2>2, TaskFacts
      <3> QED BY <1>1, <1>2, <3>1, <3>2 DEF ControlInv
    <2> QED BY <1>7, <2>1, <2>2 DEF TransferSucceeds
  <1> QED BY <1>5, <1>6, <1>7 DEF Task

\* The steps of a reconciliation keep ControlInv: a plan that is inserted has its request in
\* `sends` while the status of its zone is still to be made.
LEMMA ControlApply ==
  ASSUME TypeOK, ControlInv, Apply
  PROVE  ControlInv'
  <1>0. apply \in ApplyStates /\ plan \in [Zones -> Nat] /\ used.plan \in Nat
    BY DEF TypeOK
  <1>1. UNCHANGED <<disp, admission, rxOpen>>
    BY DEF Apply, ApplyNext, ApplyRemoveStatus, ApplyRemoveSignal, ApplyInsertPlan,
           ApplyLoadingStart, ApplySend, ApplyEnds
  <1>2. (admission' => rxOpen') /\ (disp' = "drain" => ~admission')
    BY <1>1 DEF ControlInv
  <1>3. CASE ApplyNext
    <2>1. PICK c \in apply.todo :
            apply' = [apply EXCEPT !.zone = c.zone, !.what = c.what, !.todo = @ \ {c},
                      !.pc = IF c.what \in {"remove", "rename"} THEN "status" ELSE "insert"]
      BY <1>3 DEF ApplyNext
    <2>2. c.zone \in Members
      BY <1>0 DEF ApplyStates
    <2>3. apply'.pc \in {"status", "insert"} /\ apply'.zone \in Members /\ apply'.sends = apply.sends
      BY <1>0, <2>1, <2>2 DEF ApplyStates
    <2>4. UNCHANGED task /\ apply.pc = "next"
      BY <1>3 DEF ApplyNext
    <2> QED BY <1>2, <2>3, <2>4 DEF ControlInv
  <1>4. CASE ApplyRemoveStatus
    <2>1. apply.pc = "status" /\ apply' = [apply EXCEPT !.pc = "signal"] /\ UNCHANGED task
      BY <1>4 DEF ApplyRemoveStatus
    <2>2. apply'.pc = "signal" /\ apply'.zone = apply.zone /\ apply'.sends = apply.sends
      BY <1>0, <2>1 DEF ApplyStates
    <2> QED BY <1>2, <2>1, <2>2 DEF ControlInv
  <1>5. CASE ApplyRemoveSignal
    <2>1. /\ apply.pc = "signal" /\ UNCHANGED task
          /\ apply' = [apply EXCEPT !.pc = IF apply.what = "remove" THEN "next" ELSE "insert"]
      BY <1>5 DEF ApplyRemoveSignal
    <2>2. apply'.pc \in {"next", "insert"} /\ apply'.zone = apply.zone /\ apply'.sends = apply.sends
      BY <1>0, <2>1 DEF ApplyStates
    <2> QED BY <1>2, <2>1, <2>2 DEF ControlInv
  <1>6. CASE ApplyInsertPlan
    <2> DEFINE q == Request(apply.zone, "Catalog", used.plan + 1)
    <2>1. /\ apply.pc = "insert" /\ UNCHANGED task
          /\ plan' = [plan EXCEPT ![apply.zone] = used.plan + 1]
          /\ apply' = [apply EXCEPT !.pc = IF apply.what = "policy" THEN "next" ELSE "loading",
                         !.sends = @ \cup {q}]
      BY <1>6 DEF ApplyInsertPlan
    <2>2. apply.zone \in Zones /\ apply.zone \in Members
      BY <2>1 DEF ControlInv, Members
    <2>3. /\ q.zone = apply.zone /\ q.plan = used.plan + 1 /\ q.token = 0 /\ q.ngen = 0
          /\ q.retry = "Catalog"
      BY <1>0, <2>2, RequestType DEF Reasons
    <2>4. /\ apply'.pc \in {"next", "loading"} /\ apply'.zone = apply.zone
          /\ apply'.sends = apply.sends \cup {q}
      BY <1>0, <2>1 DEF ApplyStates
    <2>5. plan'[apply.zone] = used.plan + 1 /\ used.plan + 1 # 0
      BY <1>0, <2>1, <2>2
    <2> HIDE DEF q
    <2>6. ASSUME NEW r, r = q PROVE RequestIsCurrent(r)'
      BY <2>3, <2>5, <2>6 DEF RequestIsCurrent, IsCurrent
    <2>7. \E r \in apply'.sends : r.zone = apply'.zone /\ RequestIsCurrent(r)'
      BY <2>3, <2>4, <2>6
    <2> QED BY <1>2, <2>1, <2>2, <2>3, <2>4, <2>7 DEF ControlInv
  <1>7. CASE ApplyLoadingStart
    <2>1. apply.pc = "loading" /\ apply' = [apply EXCEPT !.pc = "next"] /\ UNCHANGED task
      BY <1>7 DEF ApplyLoadingStart
    <2>2. apply'.pc = "next" /\ apply'.zone = apply.zone /\ apply'.sends = apply.sends
      BY <1>0, <2>1 DEF ApplyStates
    <2> QED BY <1>2, <2>1, <2>2 DEF ControlInv
  <1>8. CASE ApplySend
    <2>1. PICK r \in apply.sends : apply' = [apply EXCEPT !.sends = @ \ {r}]
      BY <1>8 DEF ApplySend
    <2>2. apply'.pc = "next" /\ apply'.zone = apply.zone /\ apply'.sends \subseteq apply.sends
          /\ apply.pc = "next" /\ UNCHANGED task
      BY <1>0, <1>8, <2>1 DEF ApplyStates, ApplySend
    <2> QED BY <1>2, <2>2 DEF ControlInv
  <1>9. CASE ApplyEnds
    <2>1. apply' = NoApply /\ TaskGoes(Catalog, "finishing")
      BY <1>9 DEF ApplyEnds
    <2>2. task'[Catalog].pc = "finishing" /\ apply'.pc = "idle" /\ apply'.sends = {}
      BY <2>1, EmptyTypes, TaskFacts DEF NoApply
    <2> QED BY <1>2, <2>2 DEF ControlInv
  <1> QED BY <1>3, <1>4, <1>5, <1>6, <1>7, <1>8, <1>9 DEF Apply

\* Every step keeps ControlInv.
LEMMA NextControl ==
  ASSUME TypeOK, ControlInv, [Next]_vars
  PROVE  ControlInv'
  <1>0. task \in [Zones -> TaskStates] /\ Catalog \in Zones
    BY EmptyTypes DEF TypeOK
  <1>1. CASE Elapse \/ NotifyArrives \/ NotifySignals \/ PruneSignal \/ ControlPlaneRetry \/ Scheduler
    <2>1. UNCHANGED <<plan, apply, task, disp, admission, rxOpen>>
      BY <1>1 DEF Elapse, NotifyArrives, NotifySignals, PruneSignal, ControlPlaneRetry, Scheduler,
                  StartDue, SendDue
    <2> QED BY <2>1, ControlCalm DEF ControlInv
  <1>2. CASE Receive
    <2>1. Received
      BY <1>2 DEF Receive, ReceiveObsolete, ReceiveFull, ReceiveSuperseded, ReceiveAdmit,
                  ReceiveEvict, ReceiveMerge
    <2>2. UNCHANGED <<plan, apply, task, admission, rxOpen>> /\ (disp' = "drain" => ~admission)
      BY <2>1, ReceivedFacts
    <2> QED BY <2>2, ControlCalm DEF ControlInv
  <1>3. CASE DrainOnClose
    <2>1. UNCHANGED <<plan, apply, task, admission>> /\ disp' = "scan" /\ disp = "drain"
      BY <1>3 DEF DrainOnClose
    <2> QED BY <2>1, ControlCalm DEF ControlInv
  <1>4. CASE Dispatch
    <2>1. Ready # {} /\ UNCHANGED <<plan, apply, disp, admission, rxOpen>>
      BY <1>4 DEF Dispatch
    <2>2. pending[FirstReady].zone \in Zones \ Active
      BY <2>1, FirstReadyFacts DEF Requests
    <2> DEFINE r == pending[FirstReady]
               v == [NoTask EXCEPT !.pc = "spawned", !.plan = r.plan, !.ngen = r.ngen]
    <2>3. task' = [task EXCEPT ![r.zone] = v] /\ v.pc = "spawned"
      BY <1>4 DEF Dispatch, NoTask
    <2> HIDE DEF v
    <2>4. (task'[Catalog].pc = "applying") = (task[Catalog].pc = "applying")
      BY <1>0, <2>2, <2>3 DEF Active
    <2> QED BY <2>1, <2>4, ControlCalm DEF ControlInv
  <1>5. CASE AdmitFails \/ ScanEnds
    <2>1. UNCHANGED <<plan, apply, task, admission, rxOpen>> /\ disp' # "drain"
      BY <1>5 DEF AdmitFails, ScanEnds
    <2> QED BY <2>1, ControlCalm DEF ControlInv
  <1>6. CASE ClosedWakes
    <2>1. UNCHANGED <<plan, apply, task, admission, rxOpen>> /\ ~admission
      BY <1>6 DEF ClosedWakes
    <2> QED BY <2>1, ControlCalm DEF ControlInv
  <1>7. ASSUME NEW z \in Zones, Retire(z) PROVE ControlInv'
    <2>1. /\ UNCHANGED <<plan, apply, admission, rxOpen>> /\ (disp' = "drain" => ~admission)
          /\ task' = [task EXCEPT ![z] = NoTask] /\ task[z].pc = "done"
      BY <1>7 DEF Retire, LoopTop
    <2>2. (task'[Catalog].pc = "applying") = (task[Catalog].pc = "applying")
      BY <1>0, <2>1 DEF NoTask
    <2> QED BY <2>1, <2>2, ControlCalm DEF ControlInv
  <1>8. CASE CloseAdmission
    <2>1. UNCHANGED <<plan, apply, task>> /\ admission' = FALSE
      BY <1>8 DEF CloseAdmission
    <2> QED BY <2>1, ControlCalm DEF ControlInv
  <1>9. ASSUME NEW z \in Zones, Task(z) \/ Interrupt(z) \/ SecretsReloaded(z) PROVE ControlInv'
    BY <1>9, ControlTask
  <1>10. CASE UNCHANGED vars
    <2>1. UNCHANGED <<plan, apply, task, disp, admission, rxOpen>>
      BY <1>10 DEF vars
    <2> QED BY <2>1, ControlCalm DEF ControlInv
  <1> QED BY <1>1, <1>2, <1>3, <1>4, <1>5, <1>6, <1>7, <1>8, <1>9, <1>10, ControlApply, Zenon
          DEF Next, Scan

(***************************************************************************)
(* The pending queue and its keys.                                         *)
(***************************************************************************)

\* What a scan that passes everything leaves: one request per zone as before, of the zones that
\* it has not dropped.
LEMMA KeptKeys ==
  ASSUME NEW s \in Seq(Requests), OnePerZone(s)
  PROVE  /\ OnePerZone(Kept(s))
         /\ ZonesOf(Kept(s)) = ZonesOf(s) \ {q.zone : q \in Obsolete(s)}
  <1>0. Len(s) \in Nat /\ DOMAIN s = 1 .. Len(s) /\ ToSet(s) = {s[i] : i \in 1 .. Len(s)}
    BY DEF ToSet
  <1>1. PICK from \in [1 .. Len(Kept(s)) -> 1 .. Len(s)] :
          /\ \A k \in 1 .. Len(Kept(s)) : Kept(s)[k] = s[from[k]]
          /\ \A k, l \in 1 .. Len(Kept(s)) : from[k] = from[l] => k = l
    BY KeptFacts
  <1>2. OnePerZone(Kept(s))
    <2> SUFFICES ASSUME NEW k \in 1 .. Len(Kept(s)), NEW l \in 1 .. Len(Kept(s)),
                        Kept(s)[k].zone = Kept(s)[l].zone
                 PROVE  k = l
      BY DEF OnePerZone
    <2>1. from[k] \in 1 .. Len(s) /\ from[l] \in 1 .. Len(s) /\ s[from[k]].zone = s[from[l]].zone
      BY <1>1
    <2>2. from[k] = from[l]
      BY <2>1 DEF OnePerZone
    <2> QED BY <1>1, <2>2
  <1>3. ASSUME NEW r \in ToSet(s), NEW q \in ToSet(s), r.zone = q.zone PROVE r = q
    BY <1>0, <1>3 DEF OnePerZone
  <1>4. ToSet(Kept(s)) = {r \in ToSet(s) : RequestIsCurrent(r)}
    BY KeptFacts
  <1>5. Obsolete(s) = {r \in ToSet(s) : ~RequestIsCurrent(r)}
    BY DEF Obsolete
  <1>6. ZonesOf(Kept(s)) = {r.zone : r \in ToSet(Kept(s))} /\ ZonesOf(s) = {r.zone : r \in ToSet(s)}
    BY DEF ZonesOf
  <1>7. ASSUME NEW z \in ZonesOf(Kept(s)) PROVE z \in ZonesOf(s) \ {q.zone : q \in Obsolete(s)}
    <2>1. PICK r \in ToSet(s) : RequestIsCurrent(r) /\ r.zone = z
      BY <1>4, <1>6
    <2>2. ASSUME NEW q \in Obsolete(s), q.zone = z PROVE FALSE
      BY <1>3, <1>5, <2>1, <2>2
    <2> QED BY <1>6, <2>1, <2>2
  <1>8. ASSUME NEW z \in ZonesOf(s), z \notin {q.zone : q \in Obsolete(s)} PROVE z \in ZonesOf(Kept(s))
    <2>1. PICK r \in ToSet(s) : r.zone = z
      BY <1>6
    <2>2. RequestIsCurrent(r)
      BY <1>5, <1>8, <2>1
    <2> QED BY <1>4, <1>6, <2>1, <2>2
  <1> QED BY <1>2, <1>7, <1>8

\* What a scan that takes out the request at `i` leaves.
LEMMA ScannedKeys ==
  ASSUME NEW s \in Seq(Requests), NEW i \in 1 .. Len(s), OnePerZone(s)
  PROVE  /\ OnePerZone(Scanned(s, i))
         /\ ZonesOf(Scanned(s, i)) =
              ZonesOf(s) \ {q.zone : q \in Obsolete(SubSeq(s, 1, i - 1)) \cup {s[i]}}
  <1> DEFINE t == Scanned(s, i)
             D == Obsolete(SubSeq(s, 1, i - 1)) \cup {s[i]}
  <1>0. Len(s) \in Nat /\ DOMAIN s = 1 .. Len(s) /\ ToSet(s) = {s[j] : j \in 1 .. Len(s)}
    BY DEF ToSet
  <1>1. /\ t \in Seq(Requests)
        /\ \A j \in (1 .. Len(s)) \ {i} : j > i \/ RequestIsCurrent(s[j]) => s[j] \in ToSet(t)
    BY ScannedPlaces
  <1>2. PICK from \in [1 .. Len(t) -> (1 .. Len(s)) \ {i}] :
          /\ \A k \in 1 .. Len(t) : t[k] = s[from[k]]
          /\ \A k, l \in 1 .. Len(t) : from[k] = from[l] => k = l
          /\ \A k \in 1 .. Len(t) : from[k] > i \/ RequestIsCurrent(s[from[k]])
    BY ScannedPlaces
  <1>3. D = {s[j] : j \in {l \in 1 .. i - 1 : ~RequestIsCurrent(s[l])} \cup {i}}
    <2>1. Obsolete(SubSeq(s, 1, i - 1)) = {r \in {s[j] : j \in 1 .. i - 1} : ~RequestIsCurrent(r)}
      BY ScannedPlaces
    <2> QED BY <2>1
  <1> HIDE DEF t, D
  <1>4. DOMAIN t = 1 .. Len(t) /\ ToSet(t) = {t[k] : k \in 1 .. Len(t)}
    BY <1>1 DEF ToSet
  <1>5. OnePerZone(t)
    <2> SUFFICES ASSUME NEW k \in 1 .. Len(t), NEW l \in 1 .. Len(t), t[k].zone = t[l].zone
                 PROVE  k = l
      BY DEF OnePerZone
    <2>1. from[k] \in 1 .. Len(s) /\ from[l] \in 1 .. Len(s) /\ s[from[k]].zone = s[from[l]].zone
      BY <1>2
    <2>2. from[k] = from[l]
      BY <2>1 DEF OnePerZone
    <2> QED BY <1>2, <2>2
  <1>6. ZonesOf(t) = {r.zone : r \in ToSet(t)} /\ ZonesOf(s) = {r.zone : r \in ToSet(s)}
    BY DEF ZonesOf
  <1>7. ASSUME NEW z \in ZonesOf(t) PROVE z \in ZonesOf(s) \ {q.zone : q \in D}
    <2>1. PICK k \in 1 .. Len(t) : t[k].zone = z
      BY <1>4, <1>6
    <2>2. from[k] \in 1 .. Len(s) /\ from[k] # i /\ s[from[k]].zone = z
      BY <1>2, <2>1
    <2>3. ASSUME NEW q \in D, q.zone = z PROVE FALSE
      <3>1. PICK j \in {l \in 1 .. i - 1 : ~RequestIsCurrent(s[l])} \cup {i} : q = s[j]
        BY <1>3
      <3>2. j \in 1 .. Len(s)
        BY <1>0
      <3>3. j = from[k]
        BY <2>2, <2>3, <3>1, <3>2 DEF OnePerZone
      <3> QED BY <1>0, <1>2, <2>2, <3>3
    <2>4. z \in ZonesOf(s)
      BY <1>0, <1>6, <2>2
    <2> QED BY <2>3, <2>4
  <1>8. ASSUME NEW z \in ZonesOf(s), z \notin {q.zone : q \in D} PROVE z \in ZonesOf(t)
    <2>1. PICK j \in 1 .. Len(s) : s[j].zone = z
      BY <1>0, <1>6
    <2>2. s[j] \notin D
      BY <1>8, <2>1
    <2>3. j # i /\ (j > i \/ RequestIsCurrent(s[j]))
      BY <1>0, <1>3, <2>2
    <2> QED BY <1>1, <1>6, <2>1, <2>3
  <1>9. OnePerZone(t) /\ ZonesOf(t) = ZonesOf(s) \ {q.zone : q \in D}
    BY <1>5, <1>7, <1>8
  <1> QED BY <1>9, Zenon DEF t, D

\* pending_keys are the zones of the pending requests, which are one per zone.
KeysMatch == pendingKeys = ZonesOf(pending) /\ OnePerZone(pending)

\* A key says that a request of its zone is pending, and only while the drain is due may it lie.
LEMMA KeysMatchWhenOpen ==
  PendingKeysExact <=> (admission \/ ~rxOpen => KeysMatch)
  BY DEF PendingKeysExact, KeysMatch, OnePerZone, ZonesOf

\* A step that leaves the pending queue alone keeps its keys exact.
LEMMA KeysCalm ==
  ASSUME PendingKeysExact, UNCHANGED <<pending, pendingKeys>>,
         admission' \/ ~rxOpen' => admission \/ ~rxOpen
  PROVE  PendingKeysExact'
  BY DEF PendingKeysExact

\* A request that is received joins the queue with its key, replaces one with its key, or is
\* merged into the one that has the key.
LEMMA KeysReceive ==
  ASSUME TypeOK, PendingKeysExact, Receive
  PROVE  PendingKeysExact'
  <1> DEFINE r == Head(outer)
  <1>0. Received
    BY DEF Receive, ReceiveObsolete, ReceiveFull, ReceiveSuperseded, ReceiveAdmit,
           ReceiveEvict, ReceiveMerge
  <1>1. r \in Requests /\ r.zone \in Zones /\ UNCHANGED <<admission, rxOpen>>
    BY <1>0, ReceivedFacts
  <1>2. SUFFICES ASSUME admission \/ ~rxOpen PROVE KeysMatch'
    BY <1>1 DEF PendingKeysExact, KeysMatch, OnePerZone, ZonesOf
  <1>3. pendingKeys = ZonesOf(pending) /\ OnePerZone(pending)
    BY <1>2, KeysMatchWhenOpen DEF KeysMatch
  <1>4. CASE UNCHANGED <<pending, pendingKeys>>
    BY <1>4, <1>3 DEF KeysMatch, OnePerZone, ZonesOf
  <1>5. /\ pending \in Seq(Requests) /\ Len(pending) \in Nat /\ DOMAIN pending = 1 .. Len(pending)
        /\ Capacity \in Nat \ {0}
    BY QueueAssumption DEF TypeOK
  <1>6. /\ Committed(r) \in Requests /\ Committed(r).zone = r.zone
        /\ ToSet(pending) = {pending[i] : i \in 1 .. Len(pending)}
    BY <1>1, <1>5, CommittedType DEF ToSet
  <1>7. ASSUME NEW s \in Seq(Requests), OnePerZone(s), r.zone \notin ZonesOf(s)
        PROVE  /\ OnePerZone(Append(s, Committed(r)))
               /\ ZonesOf(Append(s, Committed(r))) = ZonesOf(s) \cup {r.zone}
    <2> DEFINE t == Append(s, Committed(r))
    <2>1. /\ t \in Seq(Requests) /\ Len(t) = Len(s) + 1 /\ ToSet(t) = ToSet(s) \cup {Committed(r)}
      BY <1>6, AppendFacts
    <2>2. Len(s) \in Nat /\ DOMAIN s = 1 .. Len(s) /\ \A i \in 1 .. Len(s) : t[i] = s[i]
      OBVIOUS
    <2>3. t[Len(s) + 1].zone = r.zone
      BY <1>6
    <2>4. \A i \in 1 .. Len(s) : s[i].zone # r.zone
      BY <1>7, <2>2 DEF ZonesOf, ToSet
    <2> HIDE DEF t
    <2>5. ASSUME NEW i \in 1 .. Len(t), NEW j \in 1 .. Len(t), t[i].zone = t[j].zone PROVE i = j
      <3>1. CASE i \in 1 .. Len(s) /\ j \in 1 .. Len(s)
        BY <1>7, <2>2, <2>5, <3>1 DEF OnePerZone
      <3>2. CASE i = Len(s) + 1 \/ j = Len(s) + 1
        BY <2>1, <2>2, <2>3, <2>4, <2>5, <3>2
      <3> QED BY <2>1, <2>2, <3>1, <3>2
    <2>6. ZonesOf(t) = ZonesOf(s) \cup {r.zone}
      BY <1>6, <2>1 DEF ZonesOf
    <2>7. OnePerZone(t)
      BY <2>5 DEF OnePerZone
    <2> QED BY <2>6, <2>7 DEF t
  <1>8. CASE ReceiveAdmit
    <2>1. /\ pending' = Append(pending, Committed(r)) /\ r.zone \notin pendingKeys
          /\ pendingKeys' = pendingKeys \cup {r.zone}
      BY <1>8 DEF ReceiveAdmit, Queued
    <2>2. OnePerZone(pending') /\ ZonesOf(pending') = pendingKeys'
      BY <1>3, <1>5, <1>7, <2>1
    <2> QED BY <2>2 DEF KeysMatch, OnePerZone, ZonesOf
  <1>9. CASE ReceiveEvict
    <2>1. /\ pending' = Append(Front(pending), Committed(r)) /\ IsFull /\ r.zone \notin pendingKeys
          /\ pendingKeys' = (pendingKeys \ {Last(pending).zone}) \cup {r.zone}
      BY <1>9 DEF ReceiveEvict, EvictedKeys, Queued
    <2>2. pending # <<>>
      BY <1>5, <2>1 DEF IsFull
    <2>3. /\ Front(pending) \in Seq(Requests) /\ Len(Front(pending)) = Len(pending) - 1
          /\ \A i \in 1 .. Len(pending) - 1 : Front(pending)[i] = pending[i]
          /\ Last(pending) = pending[Len(pending)]
          /\ ToSet(pending) = ToSet(Front(pending)) \cup {Last(pending)}
      BY <1>5, <2>2, FrontFacts
    <2>4. OnePerZone(Front(pending))
      BY <1>3, <1>5, <2>3 DEF OnePerZone
    <2>5. \A i \in 1 .. Len(Front(pending)) : Front(pending)[i].zone # Last(pending).zone
      BY <1>3, <1>5, <2>3 DEF OnePerZone
    <2>6. ToSet(Front(pending)) = {Front(pending)[i] : i \in 1 .. Len(Front(pending))}
      BY <2>3 DEF ToSet
    <2>7. Last(pending).zone \notin ZonesOf(Front(pending))
      BY <2>5, <2>6 DEF ZonesOf
    <2>8. ZonesOf(pending) = ZonesOf(Front(pending)) \cup {Last(pending).zone}
      BY <2>3 DEF ZonesOf
    <2>9. OnePerZone(pending') /\ ZonesOf(pending') = ZonesOf(Front(pending)) \cup {r.zone}
      BY <1>3, <1>7, <2>1, <2>3, <2>4, <2>8
    <2>10. ZonesOf(pending') = pendingKeys'
      BY <1>3, <2>1, <2>7, <2>8, <2>9
    <2> QED BY <2>9, <2>10 DEF KeysMatch, OnePerZone, ZonesOf
  <1>10. CASE ReceiveMerge
    <2>1. UNCHANGED pendingKeys
      BY <1>10 DEF ReceiveMerge
    <2>2. ASSUME NEW i \in 1 .. Len(pending), NEW x \in Requests, x.zone = pending[i].zone,
                 pending' = [pending EXCEPT ![i] = x]
          PROVE  KeysMatch'
      <3>1. /\ pending' \in Seq(Requests) /\ Len(pending') = Len(pending)
            /\ \A j \in 1 .. Len(pending) : pending'[j] = IF j = i THEN x ELSE pending[j]
        BY <1>5, <2>2, ReplaceFacts
      <3>2. \A j \in 1 .. Len(pending) : pending'[j].zone = pending[j].zone
        BY <2>2, <3>1
      <3>3. DOMAIN pending' = 1 .. Len(pending)
        BY <3>1
      <3>4. ZonesOf(pending) = {pending[j].zone : j \in 1 .. Len(pending)}
        BY <1>6 DEF ZonesOf
      <3>5. ZonesOf(pending') = {pending'[j].zone : j \in 1 .. Len(pending)}
        BY <3>3 DEF ZonesOf, ToSet
      <3>6. ZonesOf(pending') = pendingKeys'
        BY <1>3, <2>1, <3>2, <3>4, <3>5
      <3>7. OnePerZone(pending')
        BY <1>3, <3>1, <3>2 DEF OnePerZone
      <3> QED BY <3>6, <3>7 DEF KeysMatch, OnePerZone, ZonesOf
    <2>3. \A i \in 1 .. Len(pending) : /\ pending[i] \in Requests
                                       /\ Merged(pending[i], Committed(r)) \in Requests
                                       /\ Merged(pending[i], Committed(r)).zone = r.zone
      BY <1>5, <1>6, MergedType
    <2> QED BY <1>4, <1>6, <1>10, <2>1, <2>2, <2>3, MergeFacts, Zenon
  <1>11. ReceiveObsolete \/ ReceiveFull \/ ReceiveSuperseded => UNCHANGED <<pending, pendingKeys>>
    BY DEF ReceiveObsolete, ReceiveFull, ReceiveSuperseded
  <1> QED BY <1>4, <1>8, <1>9, <1>10, <1>11 DEF Receive

\* Every step keeps the keys exact.
LEMMA NextKeys ==
  ASSUME TypeOK, ControlInv, PendingKeysExact, [Next]_vars
  PROVE  PendingKeysExact'
  <1>0. pending \in Seq(Requests)
    BY DEF TypeOK
  <1>1. CASE Receive
    BY <1>1, KeysReceive
  <1>2. CASE Dispatch
    <2>1. /\ Ready # {} /\ admission /\ UNCHANGED <<admission, rxOpen>>
          /\ pending' = Scanned(pending, FirstReady)
          /\ pendingKeys' = pendingKeys \ {q.zone : q \in
               Obsolete(SubSeq(pending, 1, FirstReady - 1)) \cup {pending[FirstReady]}}
      BY <1>2 DEF Dispatch, Scanned, KeysWithout
    <2>2. KeysMatch
      BY <2>1, KeysMatchWhenOpen
    <2>3. FirstReady \in 1 .. Len(pending)
      BY <2>1, FirstReadyFacts
    <2>4. OnePerZone(pending') /\ ZonesOf(pending') = pendingKeys'
      BY <1>0, <2>1, <2>2, <2>3, ScannedKeys DEF KeysMatch
    <2> QED BY <2>4 DEF PendingKeysExact, OnePerZone, ZonesOf
  <1>3. CASE AdmitFails
    BY <1>3 DEF AdmitFails, PendingKeysExact
  <1>4. CASE DrainOnClose
    <2>1. pending' = <<>> /\ pendingKeys' = {}
      BY <1>4 DEF DrainOnClose
    <2>2. ToSet(pending') = {} /\ \A i \in 1 .. Len(pending') : FALSE
      BY <2>1 DEF ToSet
    <2> QED BY <2>1, <2>2 DEF PendingKeysExact
  <1>5. CASE ScanEnds
    <2>1. CASE UNCHANGED <<pending, pendingKeys>>
      BY <1>5, <2>1, KeysCalm DEF ScanEnds
    <2>2. CASE /\ admission /\ pending' = Kept(pending)
               /\ pendingKeys' = KeysWithout(Obsolete(pending))
      <3>1. KeysMatch
        BY <2>2, KeysMatchWhenOpen
      <3>2. OnePerZone(pending') /\ ZonesOf(pending') = pendingKeys'
        BY <1>0, <2>2, <3>1, KeptKeys DEF KeysMatch, KeysWithout
      <3> QED BY <3>2 DEF PendingKeysExact, OnePerZone, ZonesOf
    <2> QED BY <1>5, <2>1, <2>2, Zenon DEF ScanEnds
  <1>6. CASE CloseAdmission
    <2>1. ~admission' /\ rxOpen'
      BY <1>6 DEF CloseAdmission, ControlInv
    <2> QED BY <2>1 DEF PendingKeysExact
  <1>7. CASE \/ Elapse \/ NotifyArrives \/ NotifySignals \/ PruneSignal \/ ControlPlaneRetry
             \/ Scheduler \/ ClosedWakes \/ Apply \/ UNCHANGED vars
    <2>1. UNCHANGED <<pending, pendingKeys, admission, rxOpen>>
      BY <1>7 DEF Elapse, NotifyArrives, NotifySignals, PruneSignal, ControlPlaneRetry, Scheduler,
                  StartDue, SendDue, ClosedWakes, Apply, ApplyNext, ApplyRemoveStatus,
                  ApplyRemoveSignal, ApplyInsertPlan, ApplyLoadingStart, ApplySend, ApplyEnds, vars
    <2> QED BY <2>1, KeysCalm
  <1>8. ASSUME NEW z \in Zones, Retire(z) \/ Task(z) \/ Interrupt(z) \/ SecretsReloaded(z)
        PROVE  PendingKeysExact'
    <2>1. UNCHANGED <<pending, pendingKeys, admission, rxOpen>>
      BY <1>8 DEF Retire, Task, BeginStale, BeginAttempt, StartTransfer, TransferObsolete,
                  TransferFails, TransferSucceeds, FinishAttempt, Interrupt, SecretsReloaded
    <2> QED BY <2>1, KeysCalm
  <1> QED BY <1>1, <1>2, <1>3, <1>4, <1>5, <1>6, <1>7, <1>8, Zenon DEF Next, Scan

\* What is pending may be retried, and a NOTIFY may not before it is: a step keeps it so.
LEMMA NextRetry ==
  ASSUME TypeOK, ControlInv, RetryInv, [Next]_vars
  PROVE  RetryInv'
  <1>0. /\ pending \in Seq(Requests) /\ outer \in Seq(Requests) /\ Len(pending) \in Nat
        /\ plan \in [Zones -> Nat] /\ Capacity \in Nat \ {0}
        /\ DOMAIN pending = 1 .. Len(pending) /\ ToSet(pending) = {pending[i] : i \in 1 .. Len(pending)}
    BY QueueAssumption DEF TypeOK, ToSet
  <1>1. ASSUME NEW q \in Requests, q.token # 0 => q.retry = "none", UNCHANGED pending,
               outer' = Append(outer, q)
        PROVE  RetryInv'
    <2>1. ToSet(outer') = ToSet(outer) \cup {q}
      BY <1>0, <1>1, AppendFacts
    <2> QED BY <1>1, <2>1 DEF RetryInv
  <1>2. ASSUME ToSet(outer') \subseteq ToSet(outer), \A q \in ToSet(pending') : q.retry # "none"
        PROVE  RetryInv'
    BY <1>2 DEF RetryInv
  <1>3. ASSUME UNCHANGED <<pending, outer>> PROVE RetryInv'
    BY <1>3 DEF RetryInv
  <1>4. CASE Receive
    <2> DEFINE r == Head(outer)
    <2>1. Received
      BY <1>4 DEF Receive, ReceiveObsolete, ReceiveFull, ReceiveSuperseded, ReceiveAdmit,
             ReceiveEvict, ReceiveMerge
    <2>2. r \in Requests /\ ToSet(outer') \subseteq ToSet(outer)
      BY <2>1, ReceivedFacts
    <2>3. Committed(r) \in Requests /\ Committed(r).retry # "none"
      BY <2>2, CommittedType
    <2>4. \A i \in 1 .. Len(pending) : /\ pending[i] \in Requests
                                       /\ Merged(pending[i], Committed(r)) \in Requests
                                       /\ Merged(pending[i], Committed(r)).retry # "none"
      BY <1>0, <2>3, MergedType
    <2> HIDE DEF r
    <2>5. ASSUME NEW x \in Requests, x.retry # "none", ToSet(pending') \subseteq ToSet(pending) \cup {x}
          PROVE  RetryInv'
      BY <1>2, <2>2, <2>5 DEF RetryInv
    <2>6. ASSUME UNCHANGED pending PROVE RetryInv'
      BY <1>2, <2>2, <2>6 DEF RetryInv
    <2>7. CASE ReceiveAdmit
      <3>1. pending' = Append(pending, Committed(r))
        BY <2>7 DEF ReceiveAdmit, r
      <3>2. ToSet(pending') = ToSet(pending) \cup {Committed(r)}
        BY <1>0, <2>3, <3>1, AppendFacts
      <3> QED BY <2>3, <2>5, <3>2
    <2>8. CASE ReceiveEvict
      <3>1. pending' = Append(Front(pending), Committed(r)) /\ IsFull
        BY <2>8 DEF ReceiveEvict, r
      <3>2. pending # <<>>
        BY <1>0, <3>1 DEF IsFull
      <3>3. Front(pending) \in Seq(Requests) /\ ToSet(Front(pending)) \subseteq ToSet(pending)
        BY <1>0, <3>2, FrontFacts
      <3>4. ToSet(pending') = ToSet(Front(pending)) \cup {Committed(r)}
        BY <2>3, <3>1, <3>3, AppendFacts
      <3> QED BY <2>3, <2>5, <3>3, <3>4
    <2>9. CASE ReceiveMerge
      <3>1. ASSUME NEW i \in 1 .. Len(pending), NEW x \in Requests, x.retry # "none",
                   pending' = [pending EXCEPT ![i] = x]
            PROVE  RetryInv'
        <4>1. ToSet(pending') \subseteq ToSet(pending) \cup {x}
          BY <1>0, <3>1, ReplaceFacts
        <4> QED BY <2>5, <3>1, <4>1
      <3> QED BY <2>3, <2>4, <2>6, <2>9, <3>1, MergeFacts, Zenon DEF r
    <2>10. ReceiveObsolete \/ ReceiveFull \/ ReceiveSuperseded => UNCHANGED pending
      BY DEF ReceiveObsolete, ReceiveFull, ReceiveSuperseded
    <2> QED BY <1>4, <2>6, <2>7, <2>8, <2>9, <2>10 DEF Receive
  <1>5. CASE Dispatch \/ AdmitFails
    <2>1. Ready # {} /\ pending' = Scanned(pending, FirstReady) /\ UNCHANGED outer
      BY <1>5 DEF Dispatch, AdmitFails, Scanned
    <2>2. \A q \in ToSet(pending') : q \in ToSet(pending)
      BY <1>0, <2>1, FirstReadyFacts, ScannedPlaces
    <2> QED BY <2>1, <2>2 DEF RetryInv
  <1>6. CASE DrainOnClose
    <2>1. ToSet(pending') = {} /\ ToSet(outer') = {}
      BY <1>6 DEF DrainOnClose, ToSet
    <2> QED BY <2>1 DEF RetryInv
  <1>7. CASE ScanEnds
    <2>1. UNCHANGED outer /\ (UNCHANGED pending \/ pending' = Kept(pending))
      BY <1>7 DEF ScanEnds
    <2>2. ToSet(Kept(pending)) \subseteq ToSet(pending)
      BY <1>0, KeptFacts
    <2> QED BY <1>3, <2>1, <2>2 DEF RetryInv
  <1>8. CASE NotifySignals
    <2> DEFINE z == notify.zone
               q == [Request(z, "Notify", notify.plan) EXCEPT
                       !.token = used.token + 1, !.ngen = status[z].gen]
    <2>1. CASE UNCHANGED outer
      BY <1>3, <1>8, <2>1 DEF NotifySignals
    <2>2. CASE outer' = Append(outer, q)
      <3>1. z \in Zones /\ notify.plan \in Nat /\ status[z].gen \in Nat /\ used.token + 1 \in Nat
        BY <1>8 DEF NotifySignals, TypeOK, Statuses
      <3>2. Request(z, "Notify", notify.plan) \in Requests /\ Request(z, "Notify", notify.plan).retry = "none"
        BY <3>1, RequestType DEF Reasons
      <3>3. q \in Requests /\ q.retry = "none"
        BY <3>1, <3>2 DEF Requests
      <3> HIDE DEF q, z
      <3> QED BY <1>1, <1>8, <2>2, <3>3 DEF NotifySignals
    <2> QED BY <1>8, <2>1, <2>2, Zenon DEF NotifySignals
  <1>9. ASSUME NEW z \in Zones, NEW reason \in Reasons, UNCHANGED pending,
               outer' = Append(outer, Request(z, reason, plan[z]))
        PROVE  RetryInv'
    <2>1. Request(z, reason, plan[z]) \in Requests /\ Request(z, reason, plan[z]).token = 0
      BY <1>0, RequestType
    <2> QED BY <1>1, <1>9, <2>1
  <1>10. CASE ControlPlaneRetry
    <2>1. PICK z \in Zones : outer' = Append(outer, Request(z, "ControlPlane", plan[z])) /\ UNCHANGED pending
      BY <1>10 DEF ControlPlaneRetry
    <2> QED BY <1>9, <2>1 DEF Reasons
  <1>11. CASE SendDue
    <2>1. PICK z \in sched : SendOrCancel(z)
      BY <1>11 DEF SendDue
    <2>2. z \in Zones /\ UNCHANGED pending
      BY <1>11 DEF TypeOK, SendDue
    <2>3. \/ outer' = Append(outer, Request(z, "Scheduled", plan[z]))
          \/ UNCHANGED outer
      BY <2>1 DEF SendOrCancel
    <2> QED BY <1>3, <1>9, <2>2, <2>3 DEF Reasons
  <1>12. CASE ApplySend
    <2>1. PICK r \in apply.sends : UNCHANGED outer \/ outer' = Append(outer, r)
      BY <1>12 DEF ApplySend
    <2>2. r \in Requests /\ r.token = 0 /\ UNCHANGED pending
      BY <1>12 DEF TypeOK, ApplyStates, ControlInv, ApplySend
    <2> QED BY <1>1, <1>3, <2>1, <2>2
  <1>13. CASE \/ Elapse \/ NotifyArrives \/ PruneSignal \/ StartDue \/ ClosedWakes \/ CloseAdmission
              \/ UNCHANGED vars
    BY <1>3, <1>13 DEF Elapse, NotifyArrives, PruneSignal, StartDue, ClosedWakes, CloseAdmission, vars
  <1>14. CASE Apply /\ ~ApplySend
    BY <1>3, <1>14 DEF Apply, ApplyNext, ApplyRemoveStatus, ApplyRemoveSignal, ApplyInsertPlan,
                       ApplyLoadingStart, ApplyEnds
  <1>15. ASSUME NEW z \in Zones, Retire(z) \/ Task(z) \/ Interrupt(z) \/ SecretsReloaded(z)
         PROVE  RetryInv'
    BY <1>3, <1>15 DEF Retire, Task, BeginStale, BeginAttempt, StartTransfer, TransferObsolete,
                  TransferFails, TransferSucceeds, FinishAttempt, Interrupt, SecretsReloaded
  <1> QED BY <1>4, <1>5, <1>6, <1>7, <1>8, <1>10, <1>11, <1>12, <1>13, <1>14, <1>15, Zenon
          DEF Next, Scan, Scheduler

(***************************************************************************)
(* In-progress marks.                                                      *)
(***************************************************************************)

\* A zone without a status is not marked, whatever happens.
LEMMA NextStatus ==
  ASSUME TypeOK, StatusInv, [Next]_vars
  PROVE  StatusInv'
  <1>0. status \in [Zones -> Statuses] /\ used.gen + 1 \in Nat /\ used.gen + 1 # 0
    BY DEF TypeOK
  <1>1. ASSUME UNCHANGED status PROVE StatusInv'
    BY <1>1 DEF StatusInv
  <1>2. ASSUME NEW D, status' = DeferredDrop(D) PROVE StatusInv'
    BY <1>2, DeferredDropFacts DEF StatusInv
  <1>3. ASSUME NEW y \in Zones, NEW v, v.gen = 0 => ~v.inProgress, status' = [status EXCEPT ![y] = v]
        PROVE  StatusInv'
    BY <1>0, <1>3 DEF StatusInv
  <1>4. ASSUME NEW y \in Zones, NEW b, NEW d, status[y].gen # 0 \/ ~b,
               \/ status' = [status EXCEPT ![y].inProgress = b]
               \/ status' = [status EXCEPT ![y].inProgress = b, ![y].next = d]
        PROVE  StatusInv'
    <2>1. status'[y].gen = status[y].gen /\ status'[y].inProgress = b
      BY <1>0, <1>4 DEF Statuses
    <2>2. \A z \in Zones \ {y} : status'[z] = status[z]
      BY <1>0, <1>4
    <2> QED BY <1>4, <2>1, <2>2 DEF StatusInv
  <1>5. ASSUME NEW y \in Zones, NEW d, status' = [status EXCEPT ![y].next = d]
        PROVE  StatusInv'
    <2>1. status'[y].gen = status[y].gen /\ status'[y].inProgress = status[y].inProgress
      BY <1>0, <1>5 DEF Statuses
    <2>2. \A z \in Zones \ {y} : status'[z] = status[z]
      BY <1>0, <1>5
    <2> QED BY <2>1, <2>2 DEF StatusInv
  <1>6. CASE Elapse
    BY <1>5, <1>6 DEF Elapse
  <1>7. CASE StartDue
    <2>1. PICK chosen : /\ \A z \in chosen : status[z].gen # 0
                        /\ status' = [z \in Zones |-> IF z \in chosen
                                            THEN [status[z] EXCEPT !.inProgress = TRUE]
                                            ELSE status[z]]
      BY <1>7 DEF StartDue
    <2>2. \A z \in Zones : [status[z] EXCEPT !.inProgress = TRUE].gen = status[z].gen
      BY <1>0 DEF Statuses
    <2> QED BY <2>1, <2>2 DEF StatusInv
  <1>8. CASE SendDue
    <2>1. PICK y \in sched : SendOrCancel(y)
      BY <1>8 DEF SendDue
    <2>2. y \in Zones /\ (UNCHANGED status \/ status' = [status EXCEPT ![y].inProgress = FALSE])
      BY <2>1 DEF SendOrCancel, TypeOK
    <2> QED BY <1>1, <1>4, <2>2
  <1>9. CASE \/ NotifyArrives \/ NotifySignals \/ PruneSignal \/ ControlPlaneRetry \/ ClosedWakes
             \/ CloseAdmission \/ Dispatch \/ ScanEnds \/ UNCHANGED vars
    BY <1>1, <1>9 DEF NotifyArrives, NotifySignals, PruneSignal, ControlPlaneRetry, ClosedWakes,
                      CloseAdmission, Dispatch, ScanEnds, vars
  <1>10. CASE DrainOnClose \/ AdmitFails
    BY <1>2, <1>10 DEF DrainOnClose, AdmitFails
  <1>11. CASE Receive
    <2>1. UNCHANGED status \/ \E q : status' = DeferredDrop({q})
      <3>1. CASE ReceiveMerge
        <4>1. UNCHANGED status \/ \E q : Drop(q)
          BY <3>1, MergeFacts, Zenon
        <4> QED BY <4>1 DEF Drop
      <3>2. CASE ReceiveObsolete \/ ReceiveFull \/ ReceiveSuperseded \/ ReceiveAdmit \/ ReceiveEvict
        BY <3>2 DEF ReceiveObsolete, ReceiveFull, ReceiveSuperseded, ReceiveAdmit, ReceiveEvict, Drop
      <3> QED BY <1>11, <3>1, <3>2 DEF Receive
    <2> QED BY <1>1, <1>2, <2>1
  <1>12. ASSUME NEW z \in Zones, Retire(z) \/ Task(z) \/ Interrupt(z) \/ SecretsReloaded(z)
         PROVE  StatusInv'
    <2>1. CASE Retire(z) \/ BeginStale(z) \/ StartTransfer(z)
      BY <1>1, <2>1 DEF Retire, BeginStale, StartTransfer
    <2>2. CASE BeginAttempt(z)
      <3> DEFINE v == [NoStatus EXCEPT !.gen = used.gen + 1, !.inProgress = TRUE]
      <3>1. v.gen # 0
        BY <1>0 DEF NoStatus
      <3>2. \/ status[z].gen # 0 /\ status' = [status EXCEPT ![z].inProgress = TRUE]
            \/ status' = [status EXCEPT ![z] = v]
        BY <2>2 DEF BeginAttempt
      <3> HIDE DEF v
      <3> QED BY <1>3, <1>4, <3>1, <3>2
    <2>3. CASE TransferObsolete(z) \/ SecretsReloaded(z) \/ Interrupt(z)
      <3>1. NoStatus.gen = 0 => ~NoStatus.inProgress
        BY DEF NoStatus
      <3>2. \/ UNCHANGED status \/ status' = [status EXCEPT ![z] = NoStatus]
            \/ status' = [status EXCEPT ![z].inProgress = FALSE, ![z].next = "now"]
        BY <2>3 DEF TransferObsolete, SecretsReloaded, Interrupt, DiscardObsolete, Deferred
      <3> QED BY <1>1, <1>3, <1>4, <3>1, <3>2
    <2>4. CASE TransferFails(z) \/ FinishAttempt(z)
      <3>1. \/ UNCHANGED status \/ status' = [status EXCEPT ![z].inProgress = FALSE]
            \/ status' = [status EXCEPT ![z].inProgress = FALSE, ![z].next = "later"]
        BY <2>4 DEF TransferFails, FinishAttempt
      <3> QED BY <1>1, <1>4, <3>1
    <2>5. CASE TransferSucceeds(z)
      BY <1>5, <2>5 DEF TransferSucceeds
    <2> QED BY <1>12, <2>1, <2>2, <2>3, <2>4, <2>5 DEF Task
  <1>13. CASE ApplyNext \/ ApplyRemoveSignal \/ ApplyInsertPlan \/ ApplySend \/ ApplyEnds
    BY <1>1, <1>13 DEF ApplyNext, ApplyRemoveSignal, ApplyInsertPlan, ApplySend, ApplyEnds
  <1>14. CASE ApplyRemoveStatus
    <2>1. \A z \in Zones : status'[z] = status[z] \/ status'[z] = NoStatus
      BY <1>0, <1>14 DEF ApplyRemoveStatus
    <2> QED BY <2>1 DEF StatusInv, NoStatus
  <1>15. CASE ApplyLoadingStart
    <2> DEFINE y == apply.zone
    <2>1. PICK d : \/ UNCHANGED status
                   \/ status' = [status EXCEPT ![y].inProgress = FALSE, ![y].next = d]
                   \/ status' = [status EXCEPT ![y] = [gen |-> used.gen + 1, inProgress |-> FALSE,
                                                       next |-> d]]
      BY <1>15 DEF ApplyLoadingStart
    <2>2. \A z \in Zones : status'[z] = status[z] \/ ~status'[z].inProgress
      BY <1>0, <2>1 DEF Statuses
    <2> QED BY <2>2 DEF StatusInv
  <1> QED BY <1>6, <1>7, <1>8, <1>9, <1>10, <1>11, <1>12, <1>13, <1>14, <1>15, Zenon
          DEF Next, Scan, Scheduler, Apply

\* Everything that is queued or about to be.
Everywhere == ToSet(outer) \cup ToSet(pending) \cup apply.sends

\* A zone is asked for by any request of it that is current and may be retried.
LEMMA AskedNow ==
  ASSUME NEW z, NEW r, r \in Everywhere', r.zone = z, RequestIsCurrent(r)', r.retry # "none"
  PROVE  Asked(z)'
  BY DEF Asked, Everywhere

\* Its requests still ask for it when they are all still there, and its incarnation is the same.
LEMMA AskedStays ==
  ASSUME NEW z, Asked(z), plan'[z] = plan[z], status'[z].gen = status[z].gen,
         \A r \in Everywhere :
           r.zone = z /\ RequestIsCurrent(r) /\ r.retry # "none" => r \in Everywhere'
  PROVE  Asked(z)'
  <1>1. PICK r \in Everywhere : r.zone = z /\ RequestIsCurrent(r) /\ r.retry # "none"
    BY DEF Asked, Everywhere
  <1>2. r \in Everywhere'
    BY <1>1
  <1>3. RequestIsCurrent(r)'
    BY <1>1, StaysCurrent
  <1> QED BY <1>1, <1>2, <1>3, AskedNow

\* Its task still looks after it when nothing has happened to either.
LEMMA AttemptedStays ==
  ASSUME NEW z, Attempted(z), plan'[z] = plan[z], status'[z].gen = status[z].gen, task'[z] = task[z]
  PROVE  Attempted(z)'
  BY DEF Attempted, TaskIsCurrent, IsCurrent

\* What keeps zone z held: nothing that held it is taken away.
LEMMA HoldsStays ==
  ASSUME NEW z, Holds(z), plan'[z] = plan[z], status'[z].gen = status[z].gen, task'[z] = task[z],
         z \in sched => z \in sched', Replanned(z) => Replanned(z)',
         \A r \in Everywhere :
           r.zone = z /\ RequestIsCurrent(r) /\ r.retry # "none" => r \in Everywhere'
  PROVE  Holds(z)'
  BY AskedStays, AttemptedStays DEF Holds

\* The same, for a step that leaves every queue as it is or longer.
LEMMA MarkCalm ==
  ASSUME MarkInv, admission' => admission, UNCHANGED <<plan, task, apply>>, sched \subseteq sched',
         \A z \in Zones : /\ status'[z].gen = status[z].gen
                          /\ status'[z].inProgress => status[z].inProgress \/ z \in sched',
         ToSet(outer) \subseteq ToSet(outer'), ToSet(pending) \subseteq ToSet(pending')
  PROVE  MarkInv'
  <1> SUFFICES ASSUME admission', NEW z \in Zones, status'[z].inProgress PROVE Holds(z)'
    BY DEF MarkInv
  <1>1. CASE z \in sched'
    BY <1>1 DEF Holds
  <1>2. CASE z \notin sched'
    <2>1. Holds(z)
      BY <1>2 DEF MarkInv
    <2>2. \A r \in Everywhere : r \in Everywhere'
      BY DEF Everywhere
    <2>3. Replanned(z) => Replanned(z)'
      BY DEF Replanned
    <2> QED BY <2>1, <2>2, <2>3, HoldsStays
  <1> QED BY <1>1, <1>2

\* The scheduler's mark is backed by its own list until it has sent the request or taken the mark
\* back.
LEMMA MarkIncoming ==
  ASSUME TypeOK, ControlInv, StatusInv, MarkInv,
         Elapse \/ NotifyArrives \/ NotifySignals \/ PruneSignal \/ ControlPlaneRetry \/ Scheduler
  PROVE  MarkInv'
  <1>0. /\ status \in [Zones -> Statuses] /\ plan \in [Zones -> Nat] /\ outer \in Seq(Requests)
        /\ sched \subseteq Zones
    BY DEF TypeOK
  <1>1. CASE NotifyArrives \/ PruneSignal
    BY <1>1, MarkCalm DEF NotifyArrives, PruneSignal
  <1>2. CASE Elapse
    <2>1. /\ UNCHANGED <<plan, task, apply, sched, outer, pending, admission>>
          /\ \E z \in Zones : status' = [status EXCEPT ![z].next = "now"]
      BY <1>2 DEF Elapse
    <2>2. \A z \in Zones : /\ status'[z].gen = status[z].gen
                           /\ status'[z].inProgress = status[z].inProgress
      BY <1>0, <2>1 DEF Statuses
    <2> QED BY <2>1, <2>2, MarkCalm
  <1>3. CASE NotifySignals
    <2> DEFINE z == notify.zone
               q == [Request(z, "Notify", notify.plan) EXCEPT
                       !.token = used.token + 1, !.ngen = status[z].gen]
    <2>1. UNCHANGED <<plan, task, apply, sched, pending, admission, status>>
      BY <1>3 DEF NotifySignals
    <2>2. CASE outer' = Append(outer, q)
      <3>1. z \in Zones /\ notify.plan \in Nat /\ status[z].gen \in Nat /\ used.token + 1 \in Nat
        BY <1>3 DEF NotifySignals, TypeOK, Statuses
      <3>2. Request(z, "Notify", notify.plan) \in Requests
        BY <3>1, RequestType DEF Reasons
      <3>3. q \in Requests
        BY <3>1, <3>2 DEF Requests
      <3> HIDE DEF q, z
      <3>4. ToSet(outer) \subseteq ToSet(outer')
        BY <1>0, <2>2, <3>3, AppendFacts
      <3> QED BY <2>1, <3>4, MarkCalm
    <2>3. CASE UNCHANGED outer
      BY <2>1, <2>3, MarkCalm
    <2> QED BY <1>3, <2>2, <2>3, Zenon DEF NotifySignals
  <1>4. ASSUME NEW z \in Zones, NEW reason \in Reasons,
               outer' = Append(outer, Request(z, reason, plan[z]))
        PROVE  /\ Request(z, reason, plan[z]) \in ToSet(outer') /\ ToSet(outer) \subseteq ToSet(outer')
    <2>1. Request(z, reason, plan[z]) \in Requests
      BY <1>0, RequestType
    <2>2. ToSet(outer') = ToSet(outer) \cup {Request(z, reason, plan[z])}
      BY <1>0, <1>4, <2>1, AppendFacts
    <2> QED BY <2>2
  <1>5. CASE ControlPlaneRetry
    <2>1. /\ UNCHANGED <<plan, task, apply, sched, pending, admission, status>>
          /\ \E z \in Zones : outer' = Append(outer, Request(z, "ControlPlane", plan[z]))
      BY <1>5 DEF ControlPlaneRetry
    <2>2. ToSet(outer) \subseteq ToSet(outer')
      BY <1>4, <2>1 DEF Reasons
    <2> QED BY <2>1, <2>2, MarkCalm
  <1>6. CASE StartDue
    <2>1. UNCHANGED <<plan, task, apply, outer, pending, admission>> /\ sched = {}
      BY <1>6 DEF StartDue
    <2>2. status' = [z \in Zones |-> IF z \in sched'
                                       THEN [status[z] EXCEPT !.inProgress = TRUE]
                                       ELSE status[z]]
      BY <1>6 DEF StartDue
    <2>3. \A z \in Zones : [status[z] EXCEPT !.inProgress = TRUE].gen = status[z].gen
      BY <1>0 DEF Statuses
    <2>4. \A z \in Zones : /\ status'[z].gen = status[z].gen
                           /\ status'[z].inProgress => status[z].inProgress \/ z \in sched'
      BY <2>2, <2>3
    <2> QED BY <2>1, <2>4, MarkCalm
  <1>7. CASE SendDue
    <2> SUFFICES ASSUME admission', NEW z \in Zones, status'[z].inProgress PROVE Holds(z)'
      BY DEF MarkInv
    <2>1. PICK y \in sched : SendOrCancel(y)
      BY <1>7 DEF SendDue
    <2>2. UNCHANGED <<plan, task, apply, pending, admission, rxOpen>> /\ y \in Zones /\ rxOpen
      BY <1>0, <1>7 DEF SendDue, ControlInv
    <2>3. sched' = sched \ {y}
      BY <2>1, <2>2 DEF SendOrCancel
    <2>4. CASE plan[y] # 0 /\ outer' = Append(outer, Request(y, "Scheduled", plan[y])) /\ UNCHANGED status
      <3> DEFINE q == Request(y, "Scheduled", plan[y])
      <3>1. q \in ToSet(outer') /\ ToSet(outer) \subseteq ToSet(outer')
        BY <1>4, <2>2, <2>4 DEF Reasons
      <3>2. q.zone = y /\ q.plan = plan[y] /\ q.ngen = 0 /\ q.retry = "Scheduled"
        BY <1>0, <2>2, RequestType DEF Reasons
      <3> HIDE DEF q
      <3>3. CASE z = y
        <4>1. ASSUME NEW r, r = q PROVE Asked(z)'
          <5>1. RequestIsCurrent(r)'
            BY <2>2, <2>4, <3>2, <4>1 DEF RequestIsCurrent, IsCurrent
          <5>2. r \in Everywhere'
            BY <3>1, <4>1 DEF Everywhere
          <5> QED BY <3>2, <3>3, <4>1, <5>1, <5>2, AskedNow
        <4> QED BY <4>1 DEF Holds
      <3>4. CASE z # y
        <4>1. Holds(z)
          BY <2>2, <2>4 DEF MarkInv
        <4>2. \A r \in Everywhere : r \in Everywhere'
          BY <2>2, <3>1 DEF Everywhere
        <4>3. Replanned(z) => Replanned(z)'
          BY <2>2 DEF Replanned
        <4> QED BY <2>2, <2>3, <2>4, <3>4, <4>1, <4>2, <4>3, HoldsStays
      <3> QED BY <3>3, <3>4
    <2>5. CASE /\ status' = IF status[y].gen = 0 THEN status
                            ELSE [status EXCEPT ![y].inProgress = FALSE]
               /\ UNCHANGED outer
      <3>1. z # y
        BY <1>0, <2>2, <2>5 DEF StatusInv, Statuses
      <3>2. status'[z] = status[z]
        BY <1>0, <2>5, <3>1
      <3>3. Holds(z)
        BY <2>2, <3>2 DEF MarkInv
      <3>4. Replanned(z) => Replanned(z)'
        BY <2>2 DEF Replanned
      <3>5. \A r \in Everywhere : r \in Everywhere'
        BY <2>2, <2>5 DEF Everywhere
      <3> QED BY <2>2, <2>3, <3>1, <3>2, <3>3, <3>4, <3>5, HoldsStays
    <2> QED BY <2>1, <2>4, <2>5 DEF SendOrCancel
  <1> QED BY <1>1, <1>2, <1>3, <1>5, <1>6, <1>7 DEF Scheduler

\* A scan passes current requests on to a task or keeps them.
LEMMA MarkScan ==
  ASSUME TypeOK, ControlInv, MarkInv, Scan \/ ClosedWakes \/ \E y \in Zones : Retire(y)
  PROVE  MarkInv'
  <1> SUFFICES ASSUME admission', NEW z \in Zones, status'[z].inProgress PROVE Holds(z)'
    BY DEF MarkInv
  <1>0. /\ task \in [Zones -> TaskStates] /\ pending \in Seq(Requests)
        /\ DOMAIN pending = 1 .. Len(pending) /\ ToSet(pending) = {pending[i] : i \in 1 .. Len(pending)}
    BY DEF TypeOK, ToSet
  <1>1. UNCHANGED <<plan, apply, sched, admission>> /\ admission
    BY DEF Scan, DrainOnClose, Dispatch, AdmitFails, ScanEnds, ClosedWakes, Retire
  <1>2. UNCHANGED <<status, outer>>
    BY <1>1 DEF Scan, DrainOnClose, Dispatch, AdmitFails, ScanEnds, ClosedWakes, Retire, ControlInv
  <1>3. Holds(z)
    BY <1>1, <1>2 DEF MarkInv
  <1>4. Replanned(z) => Replanned(z)'
    BY <1>1 DEF Replanned
  <1>5. CASE Dispatch
    <2> DEFINE q == pending[FirstReady]
               v == [NoTask EXCEPT !.pc = "spawned", !.plan = q.plan, !.ngen = q.ngen]
    <2>1. Ready # {} /\ pending' = Scanned(pending, FirstReady) /\ task' = [task EXCEPT ![q.zone] = v]
      BY <1>5 DEF Dispatch, Scanned
    <2>2. FirstReady \in 1 .. Len(pending) /\ q \in Requests /\ RequestIsCurrent(q)
      BY <2>1, FirstReadyFacts
    <2>3. v.pc = "spawned" /\ v.plan = q.plan /\ v.ngen = q.ngen /\ q.zone \in Zones
      BY <2>2 DEF NoTask, Requests
    <2>4. \A j \in 1 .. Len(pending) : j # FirstReady /\ RequestIsCurrent(pending[j])
                                         => pending[j] \in ToSet(pending')
      BY <1>0, <2>1, <2>2, ScannedPlaces
    <2> HIDE DEF v, q
    <2>5. CASE z = q.zone
      <3>1. task'[z] = v
        BY <1>0, <2>1, <2>3, <2>5
      <3>2. Attempted(z)'
        BY <1>1, <1>2, <2>2, <2>3, <2>5, <3>1
           DEF Attempted, TaskIsCurrent, IsCurrent, RequestIsCurrent
      <3> QED BY <3>2 DEF Holds
    <2>6. CASE z # q.zone
      <3>1. task'[z] = task[z]
        BY <1>0, <2>1, <2>6
      <3>2. ASSUME NEW r \in ToSet(pending), r.zone = z, RequestIsCurrent(r) PROVE r \in ToSet(pending')
        <4>1. PICK j \in 1 .. Len(pending) : r = pending[j]
          BY <1>0
        <4>2. j # FirstReady
          BY <2>6, <3>2, <4>1 DEF q
        <4> QED BY <2>4, <3>2, <4>1, <4>2
      <3>3. \A r \in Everywhere : r.zone = z /\ RequestIsCurrent(r) => r \in Everywhere'
        BY <1>1, <1>2, <3>2 DEF Everywhere
      <3> QED BY <1>1, <1>2, <1>3, <1>4, <3>1, <3>3, HoldsStays
    <2> QED BY <2>5, <2>6
  <1>6. CASE ScanEnds
    <2>1. UNCHANGED pending \/ pending' = Kept(pending)
      BY <1>6 DEF ScanEnds
    <2>2. ToSet(Kept(pending)) = {r \in ToSet(pending) : RequestIsCurrent(r)}
      BY <1>0, KeptFacts
    <2>3. \A r \in Everywhere : r.zone = z /\ RequestIsCurrent(r) => r \in Everywhere'
      BY <1>1, <1>2, <2>1, <2>2 DEF Everywhere
    <2>4. UNCHANGED task
      BY <1>6 DEF ScanEnds
    <2> QED BY <1>1, <1>2, <1>3, <1>4, <2>3, <2>4, HoldsStays
  <1>7. ASSUME NEW y \in Zones, Retire(y) PROVE Holds(z)'
    <2>1. UNCHANGED pending /\ task' = [task EXCEPT ![y] = NoTask] /\ task[y].pc = "done"
      BY <1>7 DEF Retire
    <2>2. \A r \in Everywhere : r \in Everywhere'
      BY <1>1, <1>2, <2>1 DEF Everywhere
    <2>3. Attempted(z) => z # y
      BY <2>1 DEF Attempted
    <2>4. Attempted(z) => Attempted(z)'
      BY <1>0, <1>1, <1>2, <2>1, <2>3, AttemptedStays
    <2>5. Asked(z) => Asked(z)'
      BY <1>1, <1>2, <2>2, AskedStays
    <2> QED BY <1>1, <1>3, <1>4, <2>4, <2>5 DEF Holds
  <1>8. ~DrainOnClose /\ ~AdmitFails /\ ~ClosedWakes
    BY <1>1 DEF DrainOnClose, AdmitFails, ClosedWakes, ControlInv
  <1> QED BY <1>5, <1>6, <1>7, <1>8 DEF Scan

\* A request that is received asks for its zone from the pending queue, or is given up with the
\* mark taken back; so is the one that it takes the place of.
LEMMA MarkReceive ==
  ASSUME TypeOK, ControlInv, StatusInv, RetryInv, PendingKeysExact, MarkInv, Receive
  PROVE  MarkInv'
  <1> DEFINE r == Head(outer)
  <1> SUFFICES ASSUME admission', NEW z \in Zones, status'[z].inProgress PROVE Holds(z)'
    BY DEF MarkInv
  <1>0. /\ pending \in Seq(Requests) /\ Len(pending) \in Nat /\ Capacity \in Nat \ {0}
        /\ DOMAIN pending = 1 .. Len(pending) /\ ToSet(pending) = {pending[i] : i \in 1 .. Len(pending)}
        /\ \A q \in ToSet(pending) : q \in Requests /\ q.retry # "none"
    BY QueueAssumption DEF TypeOK, ToSet, RetryInv
  <1>1. Received
    BY DEF Receive, ReceiveObsolete, ReceiveFull, ReceiveSuperseded, ReceiveAdmit,
           ReceiveEvict, ReceiveMerge
  <1>2. /\ r \in Requests /\ r.zone \in Zones /\ ToSet(outer) = ToSet(outer') \cup {r}
        /\ UNCHANGED <<plan, task, sched, apply, admission>> /\ admission
    BY <1>1, ReceivedFacts
  <1>3. /\ Committed(r) \in Requests /\ Committed(r).retry # "none" /\ Committed(r).zone = r.zone
        /\ Committed(r).plan = r.plan /\ Committed(r).ngen = r.ngen
    BY <1>2, CommittedType
  <1>4. Replanned(z) => Replanned(z)'
    BY <1>2 DEF Replanned
  <1> HIDE DEF r
  \* what becomes of the zones whose requests are all kept
  <1>5. ASSUME status'[z].gen = status[z].gen, status[z].inProgress,
               \A q \in ToSet(pending) : q.zone = z /\ RequestIsCurrent(q) => q \in ToSet(pending'),
               z = r.zone => ~RequestIsCurrent(r) \/ r.retry = "none"
        PROVE  Holds(z)'
    <2>1. Holds(z)
      BY <1>2, <1>5 DEF MarkInv
    <2>2. \A q \in Everywhere : q.zone = z /\ RequestIsCurrent(q) /\ q.retry # "none" => q \in Everywhere'
      BY <1>2, <1>5 DEF Everywhere
    <2> QED BY <1>2, <1>4, <1>5, <2>1, <2>2, HoldsStays
  \* and of the zone of a request that is admitted in some form
  <1>6. ASSUME NEW x \in ToSet(pending'), x.zone = r.zone, x.plan = r.plan, x.ngen = r.ngen,
               x.retry # "none", RequestIsCurrent(r), status'[r.zone].gen = status[r.zone].gen,
               z = r.zone
        PROVE  Holds(z)'
    <2>1. RequestIsCurrent(x)'
      BY <1>2, <1>6 DEF RequestIsCurrent, IsCurrent
    <2>2. x \in Everywhere'
      BY <1>6 DEF Everywhere
    <2>3. Asked(z)'
      BY <1>6, <2>1, <2>2, AskedNow
    <2> QED BY <2>3 DEF Holds
  \* and of the zone of a request that is dropped
  <1>7. ASSUME NEW q \in Requests, status' = DeferredDrop({q})
        PROVE  /\ status'[z].gen = status[z].gen /\ status[z].inProgress
               /\ z = q.zone => ~RequestIsCurrent(q) \/ q.retry = "none"
    <2>1. /\ status'[z].gen = status[z].gen /\ (status'[z].inProgress => status[z].inProgress)
          /\ (\E x \in {q} : x.zone = z /\ RequestIsCurrent(x) /\ x.retry # "none")
                => status'[z].inProgress = FALSE \/ status[z].gen = 0
      BY <1>7, DeferredDropFacts
    <2>2. status[z].gen # 0
      BY <2>1 DEF StatusInv
    <2> QED BY <2>1, <2>2
  <1>8. CASE ReceiveObsolete
    BY <1>5, <1>8 DEF ReceiveObsolete, r
  <1>9. CASE ReceiveFull
    <2>1. status' = DeferredDrop({r}) /\ UNCHANGED pending
      BY <1>9 DEF ReceiveFull, Drop, r
    <2> QED BY <1>2, <1>5, <1>7, <2>1
  <1>10. CASE ReceiveSuperseded
    <2>1. ~Commits(r) /\ UNCHANGED <<status, pending>>
      BY <1>10 DEF ReceiveSuperseded, r
    <2>2. r.retry = "none"
      BY <1>2, <2>1 DEF Commits, RetryInv
    <2> QED BY <1>5, <2>1, <2>2
  <1>11. CASE ReceiveAdmit
    <2>1. RequestIsCurrent(r) /\ pending' = Append(pending, Committed(r)) /\ UNCHANGED status
      BY <1>11 DEF ReceiveAdmit, r
    <2>2. ToSet(pending') = ToSet(pending) \cup {Committed(r)}
      BY <1>0, <1>3, <2>1, AppendFacts
    <2> QED BY <1>3, <1>5, <1>6, <2>1, <2>2
  <1>12. CASE ReceiveEvict
    <2>1. /\ RequestIsCurrent(r) /\ IsFull /\ pending' = Append(Front(pending), Committed(r))
          /\ status' = DeferredDrop({Last(pending)})
      BY <1>12 DEF ReceiveEvict, Drop, r
    <2>2. pending # <<>>
      BY <1>0, <2>1 DEF IsFull
    <2>3. /\ Front(pending) \in Seq(Requests) /\ Last(pending) \in Requests
          /\ ToSet(pending) = ToSet(Front(pending)) \cup {Last(pending)}
      BY <1>0, <2>2, FrontFacts
    <2>4. ToSet(pending') = ToSet(Front(pending)) \cup {Committed(r)}
      BY <1>3, <2>1, <2>3, AppendFacts
    <2>5. /\ status'[z].gen = status[z].gen /\ status[z].inProgress
          /\ z = Last(pending).zone => ~RequestIsCurrent(Last(pending))
      BY <1>0, <1>7, <2>1, <2>3
    <2>6. CASE z = r.zone
      BY <1>3, <1>6, <2>1, <2>4, <2>5, <2>6
    <2>7. CASE z # r.zone
      <3>1. \A q \in ToSet(pending) : q.zone = z /\ RequestIsCurrent(q) => q \in ToSet(pending')
        BY <2>3, <2>4, <2>5
      <3> QED BY <1>5, <2>5, <2>7, <3>1
    <2> QED BY <2>6, <2>7
  <1>13. CASE ReceiveMerge
    <2>1. RequestIsCurrent(r) /\ Queued(r.zone)
      BY <1>13, MergeFacts, Zenon DEF r
    <2>2. ASSUME \A i \in 1 .. Len(pending) : pending[i].zone # r.zone PROVE FALSE
      <3>1. pendingKeys = {q.zone : q \in ToSet(pending)}
        BY <1>2 DEF PendingKeysExact
      <3> QED BY <1>0, <2>1, <2>2, <3>1 DEF Queued
    <2>3. ASSUME NEW i \in 1 .. Len(pending), pending[i].zone = r.zone,
                 NEW x \in Requests, x.zone = r.zone, x.plan = r.plan, x.ngen = r.ngen,
                 x.retry # "none", pending' = [pending EXCEPT ![i] = x],
                 UNCHANGED status \/ status' = DeferredDrop({pending[i]})
          PROVE  Holds(z)'
      <3>1. /\ x \in ToSet(pending')
            /\ \A q \in ToSet(pending) : q = pending[i] \/ q \in ToSet(pending')
        BY <1>0, <2>3, ReplaceFacts
      <3>2. status'[r.zone].gen = status[r.zone].gen /\ status'[z].gen = status[z].gen
            /\ status[z].inProgress
        <4> DEFINE late == DeferredDrop({pending[i]})
        <4>1. \A y \in Zones : late[y].gen = status[y].gen /\ (late[y].inProgress => status[y].inProgress)
          BY DeferredDropFacts
        <4> HIDE DEF late
        <4>2. UNCHANGED status \/ status' = late
          BY <2>3 DEF late
        <4> QED BY <1>2, <4>1, <4>2
      <3>3. CASE z = r.zone
        BY <1>6, <2>1, <2>3, <3>1, <3>2, <3>3
      <3>4. CASE z # r.zone
        <4>1. \A q \in ToSet(pending) : q.zone = z => q \in ToSet(pending')
          BY <2>3, <3>1, <3>4
        <4> QED BY <1>5, <3>2, <3>4, <4>1
      <3> QED BY <3>3, <3>4
    <2>4. ASSUME Drop(Committed(r)), UNCHANGED pending PROVE Holds(z)'
      <3>1. status' = DeferredDrop({Committed(r)})
        BY <2>4 DEF Drop
      <3>2. RequestIsCurrent(Committed(r))
        BY <1>3, <2>1 DEF RequestIsCurrent
      <3>3. status'[z].gen = status[z].gen /\ status[z].inProgress /\ z # r.zone
        BY <1>3, <1>7, <3>1, <3>2
      <3> QED BY <1>5, <2>4, <3>3
    <2>5. ASSUME NEW i \in 1 .. Len(pending), pending[i].zone = r.zone
          PROVE  LET x == Merged(pending[i], Committed(r))
                 IN  /\ x \in Requests /\ x.zone = r.zone /\ x.plan = r.plan /\ x.ngen = r.ngen
                     /\ x.retry # "none"
      BY <1>0, <1>3, MergedType
    <2>6. ASSUME NEW i \in 1 .. Len(pending), pending[i].zone = r.zone,
                 pending' = [pending EXCEPT ![i] = Merged(pending[i], Committed(r))], UNCHANGED status
          PROVE  Holds(z)'
      BY <2>3, <2>5, <2>6, Zenon
    <2>7. ASSUME NEW i \in 1 .. Len(pending), pending[i].zone = r.zone,
                 pending' = [pending EXCEPT ![i] = Committed(r)], Drop(pending[i])
          PROVE  Holds(z)'
      <3>1. status' = DeferredDrop({pending[i]})
        BY <2>7 DEF Drop
      <3> QED BY <1>3, <2>3, <2>7, <3>1, Zenon
    <2> QED BY <1>13, <2>2, <2>4, <2>6, <2>7, MergeFacts, Zenon DEF r
  <1> QED BY <1>8, <1>9, <1>10, <1>11, <1>12, <1>13 DEF Receive

\* An attempt marks its zone while it lasts, and takes the mark back with its last step.
LEMMA MarkTask ==
  ASSUME TypeOK, ControlInv, MarkInv, NEW y \in Zones, Task(y) \/ Interrupt(y) \/ SecretsReloaded(y)
  PROVE  MarkInv'
  <1> SUFFICES ASSUME admission', NEW z \in Zones, status'[z].inProgress PROVE Holds(z)'
    BY DEF MarkInv
  <1>0. /\ status \in [Zones -> Statuses] /\ task \in [Zones -> TaskStates] /\ Catalog \in Zones
    BY EmptyTypes DEF TypeOK
  <1>1. UNCHANGED <<plan, outer, pending, sched, admission>> /\ admission
    BY DEF Task, BeginStale, BeginAttempt, StartTransfer, TransferObsolete, TransferFails,
           TransferSucceeds, FinishAttempt, Interrupt, SecretsReloaded
  <1>2. UNCHANGED apply \/ (apply.pc = "idle" /\ apply.sends = {})
    <2>1. CASE TransferSucceeds(y)
      <3>1. UNCHANGED apply \/ (y = Catalog /\ task[y].pc = "running")
        BY <2>1 DEF TransferSucceeds
      <3> QED BY <3>1 DEF ControlInv
    <2>2. CASE ~TransferSucceeds(y)
      BY <2>2 DEF Task, BeginStale, BeginAttempt, StartTransfer, TransferObsolete, TransferFails,
                  FinishAttempt, Interrupt, SecretsReloaded
    <2> QED BY <2>1, <2>2
  <1>3. \A r \in Everywhere : r \in Everywhere'
    BY <1>1, <1>2 DEF Everywhere
  <1>4. Replanned(z) => Replanned(z)'
    BY <1>2 DEF Replanned
  \* a zone whose status is as it was, and whose task was not what held it
  <1>5. ASSUME status'[z] = status[z], Attempted(z) => Attempted(z)' PROVE Holds(z)'
    <2>1. Holds(z)
      BY <1>1, <1>5 DEF MarkInv
    <2>2. Asked(z) => Asked(z)'
      BY <1>1, <1>3, <1>5, AskedStays
    <2> QED BY <1>1, <1>4, <1>5, <2>1, <2>2 DEF Holds
  <1>6. ASSUME z # y, status'[z] = status[z], task'[z] = task[z] PROVE Holds(z)'
    BY <1>1, <1>5, <1>6, AttemptedStays
  <1>7. CASE BeginStale(y)
    <2>1. TaskGoes(y, "done") /\ UNCHANGED status /\ task[y].pc = "spawned" /\ ~TaskIsCurrent(y)
      BY <1>7 DEF BeginStale
    <2>2. z # y => task'[z] = task[z]
      BY <2>1, TaskFacts
    <2>3. ~Attempted(y)
      BY <2>1 DEF Attempted
    <2> QED BY <1>5, <1>6, <2>1, <2>2, <2>3
  <1>8. CASE BeginAttempt(y)
    <2>1. CASE z = y
      <3>1. task'[y].pc = "started" /\ task'[y].gen = status'[y].gen
        <4>1. CASE /\ status' = [status EXCEPT ![y].inProgress = TRUE]
                   /\ task' = [task EXCEPT ![y].pc = "started", ![y].gen = status[y].gen]
          BY <1>0, <4>1 DEF TaskStates, Statuses
        <4>2. CASE /\ status' = [status EXCEPT ![y] = [NoStatus EXCEPT !.gen = used.gen + 1,
                                                         !.inProgress = TRUE]]
                   /\ task' = [task EXCEPT ![y].pc = "started", ![y].gen = used.gen + 1,
                                           ![y].created = TRUE]
          <5>1. [NoStatus EXCEPT !.gen = used.gen + 1, !.inProgress = TRUE].gen = used.gen + 1
            BY DEF NoStatus
          <5>2. status'[y] = [NoStatus EXCEPT !.gen = used.gen + 1, !.inProgress = TRUE]
            BY <1>0, <4>2
          <5>3. task'[y].pc = "started" /\ task'[y].gen = used.gen + 1
            BY <1>0, <4>2 DEF TaskStates
          <5> QED BY <5>1, <5>2, <5>3
        <4> QED BY <1>8, <4>1, <4>2, Zenon DEF BeginAttempt
      <3>2. Attempted(z)'
        BY <2>1, <3>1 DEF Attempted
      <3> QED BY <3>2 DEF Holds
    <2>2. CASE z # y
      <3>1. status'[z] = status[z] /\ task'[z] = task[z]
        BY <1>0, <1>8, <2>2 DEF BeginAttempt
      <3> QED BY <1>6, <2>2, <3>1
    <2> QED BY <2>1, <2>2
  <1>9. CASE StartTransfer(y)
    <2>1. TaskGoes(y, "running") /\ UNCHANGED status /\ task[y].pc = "started"
      BY <1>9 DEF StartTransfer
    <2>2. /\ task'[y].pc = "running" /\ task'[y].gen = task[y].gen /\ (z # y => task'[z] = task[z])
      BY <2>1, TaskFacts
    <2>3. z = y => (Attempted(z) => Attempted(z)')
      BY <2>1, <2>2 DEF Attempted
    <2> QED BY <1>5, <1>6, <2>1, <2>2, <2>3
  <1>10. CASE TransferObsolete(y) \/ SecretsReloaded(y)
    <2>1. DiscardObsolete(y) /\ task[y].pc \in {"started", "running"}
      BY <1>10 DEF TransferObsolete, SecretsReloaded
    <2>2. /\ z # y => task'[z] = task[z] /\ status'[z] = status[z]
          /\ status[y].gen # task[y].gen => status' = status
          /\ status[y].gen = task[y].gen => status'[y].inProgress = FALSE
      BY <2>1, DiscardFacts
    <2>3. status[y].gen # task[y].gen => ~Attempted(y)
      BY <2>1 DEF Attempted
    <2> QED BY <1>5, <1>6, <2>2, <2>3
  <1>11. CASE Interrupt(y)
    <2>1. TaskGoes(y, "done") /\ status' = Deferred(y) /\ task[y].pc \in {"started", "running"}
      BY <1>11 DEF Interrupt
    <2>2. /\ z # y => status'[z] = status[z]
          /\ status[y].gen # task[y].gen => status' = status
          /\ status[y].gen = task[y].gen => status'[y].inProgress = FALSE
      BY <2>1, DeferredFacts
    <2>3. z # y => task'[z] = task[z]
      BY <2>1, TaskFacts
    <2>4. status[y].gen # task[y].gen => ~Attempted(y)
      BY <2>1 DEF Attempted
    <2> QED BY <1>5, <1>6, <2>2, <2>3, <2>4
  <1>12. CASE TransferFails(y) \/ FinishAttempt(y)
    <2>1. TaskGoes(y, "done") /\ task[y].pc \in {"running", "finishing"}
      BY <1>12 DEF TransferFails, FinishAttempt
    <2>2. \/ status[y].gen # task[y].gen /\ UNCHANGED status
          \/ status' = [status EXCEPT ![y].inProgress = FALSE]
          \/ status' = [status EXCEPT ![y].inProgress = FALSE, ![y].next = "later"]
      BY <1>12 DEF TransferFails, FinishAttempt
    <2>3. /\ z # y => status'[z] = status[z]
          /\ (status[y].gen # task[y].gen /\ UNCHANGED status) \/ status'[y].inProgress = FALSE
      BY <1>0, <2>2 DEF Statuses
    <2>4. z # y => task'[z] = task[z]
      BY <2>1, TaskFacts
    <2>5. status[y].gen # task[y].gen => ~Attempted(y)
      BY <2>1 DEF Attempted
    <2> QED BY <1>5, <1>6, <2>3, <2>4, <2>5
  <1>13. CASE TransferSucceeds(y)
    <2>1. /\ status[y].gen = task[y].gen /\ status' = [status EXCEPT ![y].next = "later"]
          /\ \E pc \in {"finishing", "applying"} : TaskGoes(y, pc)
      BY <1>13 DEF TransferSucceeds
    <2>2. status'[y].gen = status[y].gen /\ (z # y => status'[z] = status[z])
      BY <1>0, <2>1 DEF Statuses
    <2>3. /\ task'[y].pc \in {"finishing", "applying"} /\ task'[y].gen = task[y].gen
          /\ z # y => task'[z] = task[z]
      BY <2>1, TaskFacts
    <2>4. Attempted(y)'
      BY <2>1, <2>2, <2>3 DEF Attempted
    <2> QED BY <1>6, <2>2, <2>3, <2>4 DEF Holds
  <1> QED BY <1>7, <1>8, <1>9, <1>10, <1>11, <1>12, <1>13 DEF Task

\* A reconciliation gives a zone a request before the plan that made the old ones obsolete is the
\* zone's, or takes its status away.
LEMMA MarkApply ==
  ASSUME TypeOK, ControlInv, MarkInv, Apply
  PROVE  MarkInv'
  <1> SUFFICES ASSUME admission', NEW z \in Zones, status'[z].inProgress PROVE Holds(z)'
    BY DEF MarkInv
  <1>0. /\ status \in [Zones -> Statuses] /\ task \in [Zones -> TaskStates] /\ plan \in [Zones -> Nat]
        /\ apply \in ApplyStates /\ outer \in Seq(Requests) /\ used.plan \in Nat /\ Catalog \in Zones
    BY EmptyTypes DEF TypeOK
  <1>1. UNCHANGED <<pending, sched, admission, rxOpen>> /\ admission /\ rxOpen
    BY DEF Apply, ApplyNext, ApplyRemoveStatus, ApplyRemoveSignal, ApplyInsertPlan,
           ApplyLoadingStart, ApplySend, ApplyEnds, ControlInv
  <1>2. ASSUME status[z].inProgress, plan'[z] = plan[z], status'[z].gen = status[z].gen,
               task'[z] = task[z], Replanned(z) => Replanned(z)',
               ToSet(outer) \cup apply.sends \subseteq ToSet(outer') \cup apply'.sends
        PROVE  Holds(z)'
    <2>1. Holds(z)
      BY <1>1, <1>2 DEF MarkInv
    <2>2. \A r \in Everywhere : r \in Everywhere'
      BY <1>1, <1>2 DEF Everywhere
    <2> QED BY <1>1, <1>2, <2>1, <2>2, HoldsStays
  <1>3. CASE ApplyNext
    <2>1. PICK c \in apply.todo :
            /\ apply' = [apply EXCEPT !.zone = c.zone, !.what = c.what, !.todo = @ \ {c},
                      !.pc = IF c.what \in {"remove", "rename"} THEN "status" ELSE "insert"]
            /\ plan' = IF c.what \in {"remove", "rename"} THEN [plan EXCEPT ![c.zone] = 0] ELSE plan
      BY <1>3 DEF ApplyNext
    <2>2. /\ apply'.zone = c.zone /\ apply'.pc \in {"status", "insert"} /\ apply'.sends = apply.sends
          /\ apply.pc = "next" /\ UNCHANGED <<status, task, outer>>
      BY <1>0, <1>3, <2>1 DEF ApplyStates, ApplyNext
    <2>3. CASE z = c.zone
      BY <2>2, <2>3 DEF Holds, Replanned
    <2>4. CASE z # c.zone
      <3>1. plan'[z] = plan[z]
        BY <1>0, <2>1, <2>4
      <3>2. ~Replanned(z)
        BY <2>2 DEF Replanned
      <3> QED BY <1>2, <2>2, <3>1, <3>2
    <2> QED BY <2>3, <2>4
  <1>4. CASE ApplyRemoveStatus
    <2>1. /\ status' = [status EXCEPT ![apply.zone] = NoStatus] /\ apply' = [apply EXCEPT !.pc = "signal"]
          /\ UNCHANGED <<plan, task, outer>>
      BY <1>4 DEF ApplyRemoveStatus
    <2>2. z # apply.zone
      BY <1>0, <2>1 DEF NoStatus
    <2>3. status'[z] = status[z] /\ apply'.sends = apply.sends /\ ~Replanned(z)
      BY <1>0, <2>1, <2>2 DEF ApplyStates, Replanned
    <2> QED BY <1>2, <2>1, <2>3
  <1>5. CASE ApplyRemoveSignal
    <2>1. /\ apply' = [apply EXCEPT !.pc = IF apply.what = "remove" THEN "next" ELSE "insert"]
          /\ apply.pc = "signal" /\ UNCHANGED <<status, plan, task, outer>>
      BY <1>5 DEF ApplyRemoveSignal
    <2>2. apply'.sends = apply.sends /\ ~Replanned(z)
      BY <1>0, <2>1 DEF ApplyStates, Replanned
    <2> QED BY <1>2, <2>1, <2>2
  <1>6. CASE ApplyInsertPlan
    <2> DEFINE q == Request(apply.zone, "Catalog", used.plan + 1)
    <2>1. /\ apply.pc = "insert" /\ UNCHANGED <<task, status, outer>>
          /\ plan' = [plan EXCEPT ![apply.zone] = used.plan + 1]
          /\ apply' = [apply EXCEPT !.pc = IF apply.what = "policy" THEN "next" ELSE "loading",
                         !.sends = @ \cup {q}]
      BY <1>6 DEF ApplyInsertPlan
    <2>2. apply.zone \in Zones
      BY <2>1 DEF ControlInv, Members
    <2>3. q.zone = apply.zone /\ q.plan = used.plan + 1 /\ q.ngen = 0 /\ q.retry = "Catalog"
      BY <1>0, <2>2, RequestType DEF Reasons
    <2>4. apply'.sends = apply.sends \cup {q}
      BY <1>0, <2>1 DEF ApplyStates
    <2>5. plan'[apply.zone] = used.plan + 1 /\ used.plan + 1 # 0
      BY <1>0, <2>1, <2>2
    <2> HIDE DEF q
    <2>6. CASE z = apply.zone
      <3>1. ASSUME NEW r, r = q PROVE Asked(z)'
        <4>1. RequestIsCurrent(r)'
          BY <2>3, <2>5, <3>1 DEF RequestIsCurrent, IsCurrent
        <4>2. r \in Everywhere'
          BY <2>4, <3>1 DEF Everywhere
        <4> QED BY <2>3, <2>6, <3>1, <4>1, <4>2, AskedNow
      <3> QED BY <3>1 DEF Holds
    <2>7. CASE z # apply.zone
      <3>1. plan'[z] = plan[z] /\ ~Replanned(z)
        BY <1>0, <2>1, <2>7 DEF Replanned
      <3> QED BY <1>2, <2>1, <2>4, <3>1
    <2> QED BY <2>6, <2>7
  <1>7. CASE ApplyLoadingStart
    <2>1. /\ apply' = [apply EXCEPT !.pc = "next"] /\ apply.pc = "loading"
          /\ UNCHANGED <<plan, task, outer>>
      BY <1>7 DEF ApplyLoadingStart
    <2>2. apply'.sends = apply.sends /\ ~Replanned(z)
      BY <1>0, <2>1 DEF ApplyStates, Replanned
    <2>3. \E d : \/ UNCHANGED status
                 \/ status' = [status EXCEPT ![apply.zone].inProgress = FALSE, ![apply.zone].next = d]
                 \/ status' = [status EXCEPT ![apply.zone] = [gen |-> used.gen + 1, inProgress |-> FALSE,
                                                     next |-> d]]
      BY <1>7 DEF ApplyLoadingStart
    <2>4. status'[z] = status[z]
      BY <1>0, <2>3 DEF Statuses
    <2> QED BY <1>2, <2>1, <2>2, <2>4
  <1>8. CASE ApplySend
    <2>1. PICK r \in apply.sends :
            apply' = [apply EXCEPT !.sends = @ \ {r}] /\ outer' = Append(outer, r)
      BY <1>1, <1>8 DEF ApplySend
    <2>2. r \in Requests
      BY <1>0 DEF ApplyStates
    <2>3. ToSet(outer') = ToSet(outer) \cup {r}
      BY <1>0, <2>1, <2>2, AppendFacts
    <2>4. /\ apply'.sends = apply.sends \ {r} /\ apply.pc = "next"
          /\ UNCHANGED <<plan, task, status>>
      BY <1>0, <1>8, <2>1 DEF ApplyStates, ApplySend
    <2>5. ~Replanned(z)
      BY <2>4 DEF Replanned
    <2>6. ToSet(outer) \cup apply.sends \subseteq ToSet(outer') \cup apply'.sends
      BY <2>3, <2>4
    <2> QED BY <1>2, <2>4, <2>5, <2>6
  <1>9. CASE ApplyEnds
    <2>1. /\ apply.pc = "next" /\ apply.sends = {} /\ TaskGoes(Catalog, "finishing")
          /\ UNCHANGED <<plan, status, outer>>
      BY <1>9 DEF ApplyEnds
    <2>2. /\ task'[Catalog].pc = "finishing" /\ task'[Catalog].gen = task[Catalog].gen
          /\ z # Catalog => task'[z] = task[z]
      BY <1>0, <2>1, TaskFacts
    <2>3. ~Replanned(z) /\ task[Catalog].pc = "applying"
      BY <2>1 DEF Replanned, ControlInv
    <2>4. CASE z # Catalog
      BY <1>2, <2>1, <2>2, <2>3, <2>4
    <2>5. CASE z = Catalog
      <3>1. Holds(z)
        BY <1>1, <2>1 DEF MarkInv
      <3>2. Attempted(z) => Attempted(z)'
        BY <2>1, <2>2, <2>3, <2>5 DEF Attempted
      <3>3. \A r \in Everywhere : r \in Everywhere'
        BY <1>1, <2>1 DEF Everywhere
      <3>4. Asked(z) => Asked(z)'
        BY <2>1, <3>3, AskedStays
      <3> QED BY <1>1, <2>3, <3>1, <3>2, <3>4 DEF Holds
    <2> QED BY <2>4, <2>5
  <1> QED BY <1>3, <1>4, <1>5, <1>6, <1>7, <1>8, <1>9 DEF Apply

\* Every step leaves each mark with something that will take it back.
LEMMA NextMark ==
  ASSUME TypeOK, ControlInv, StatusInv, RetryInv, PendingKeysExact, MarkInv, [Next]_vars
  PROVE  MarkInv'
  <1>1. CASE CloseAdmission
    BY <1>1 DEF CloseAdmission, MarkInv
  <1>2. CASE UNCHANGED vars
    <2>1. UNCHANGED <<plan, task, apply, sched, status, outer, pending, admission>>
      BY <1>2 DEF vars
    <2> QED BY <2>1, MarkCalm
  <1>3. ASSUME NEW z \in Zones, Task(z) \/ Interrupt(z) \/ SecretsReloaded(z) PROVE MarkInv'
    BY <1>3, MarkTask
  <1> QED BY <1>1, <1>2, <1>3, MarkIncoming, MarkScan, MarkReceive, MarkApply, Zenon DEF Next

\* The marks are backed when the program starts: there are none.
LEMMA InitMark == Init => StatusInv /\ RetryInv /\ PendingKeysExact /\ MarkInv
  <1> SUFFICES ASSUME Init PROVE StatusInv /\ RetryInv /\ PendingKeysExact /\ MarkInv
    OBVIOUS
  <1>1. PICK next \in {"none", "later", "now"} :
          status = [z \in Zones |-> IF z = Catalog THEN [NoStatus EXCEPT !.gen = 1, !.next = next]
                                    ELSE NoStatus]
    BY DEF Init
  <1>2. \A z \in Zones : status[z].inProgress = FALSE
    BY <1>1 DEF NoStatus
  <1>3. ToSet(outer) = {} /\ ToSet(pending) = {} /\ Len(pending) = 0 /\ pendingKeys = {}
    BY DEF Init, ToSet
  <1>4. \A i \in 1 .. Len(pending) : FALSE
    BY <1>3
  <1> QED BY <1>2, <1>3, <1>4 DEF StatusInv, RetryInv, PendingKeysExact, MarkInv

(***************************************************************************)
(* Generations and tokens.                                                 *)
(***************************************************************************)

\* Two forms of one request: admission and merge change its retry reason only.
SameRequest(q, r) == q.zone = r.zone /\ q.token = r.token /\ q.plan = r.plan /\ q.ngen = r.ngen

\* What a step may do to the reservations (no step but a NOTIFY's makes one), to the generations
\* (what it hands out is new), and to the queued requests (no step but a NOTIFY's queues one with
\* a token).
SignalsKept ==
  \A z \in Zones :
    \/ signal'[z] = NoSignal
    \/ /\ signal'[z].token = signal[z].token /\ signal'[z].plan = signal[z].plan
       /\ signal'[z].gen = signal[z].gen
       /\ (signal[z].token # 0 /\ signal[z].seen => signal'[z].seen)
GensHanded ==
  /\ used'.plan >= used.plan /\ used'.gen >= used.gen /\ used'.token >= used.token
  /\ \A z \in Zones : /\ plan'[z] = plan[z] \/ plan'[z] <= used'.plan
                      /\ status'[z].gen = status[z].gen \/ status'[z].gen <= used'.gen
RequestsKept ==
  \A r \in ToSet(outer') \cup ToSet(pending') :
    r.token = 0 \/ \E q \in ToSet(outer) \cup ToSet(pending) : SameRequest(q, r)

\* Such a step keeps HandedInv.
LEMMA HandedCalm ==
  ASSUME TypeOK, TypeOK', HandedInv, SignalsKept, GensHanded, RequestsKept, UNCHANGED notify
  PROVE  HandedInv'
  <1>0. /\ used \in [plan : Nat, gen : Nat, token : Nat] /\ used' \in [plan : Nat, gen : Nat, token : Nat]
        /\ plan \in [Zones -> Nat] /\ plan' \in [Zones -> Nat]
        /\ status \in [Zones -> Statuses] /\ status' \in [Zones -> Statuses]
        /\ signal \in [Zones -> Signals] /\ signal' \in [Zones -> Signals] /\ notify.plan \in Nat
    BY DEF TypeOK
  <1>1. \A z \in Zones : plan[z] \in Nat /\ plan'[z] \in Nat /\ status[z].gen \in Nat /\ status'[z].gen \in Nat
                         /\ signal[z].token \in Nat /\ signal[z].plan \in Nat /\ signal[z].gen \in Nat
    BY <1>0 DEF Statuses, Signals
  <1>2. \A z \in Zones : plan'[z] <= used'.plan /\ status'[z].gen <= used'.gen
    BY <1>0, <1>1 DEF HandedInv, GensHanded
  <1>3. NoSignal.token = 0 /\ NoSignal.plan = 0 /\ NoSignal.gen = 0
    BY DEF NoSignal
  <1>4. ASSUME NEW z \in Zones
        PROVE  /\ signal'[z].token <= used'.token /\ signal'[z].plan <= used'.plan
               /\ signal'[z].gen <= used'.gen /\ (signal'[z].token # 0 => signal'[z].plan # 0)
    <2>1. CASE signal'[z] = NoSignal
      BY <1>0, <1>3, <2>1
    <2>2. CASE signal'[z] # NoSignal
      <3>1. /\ signal'[z].token = signal[z].token /\ signal'[z].plan = signal[z].plan
            /\ signal'[z].gen = signal[z].gen
        BY <2>2 DEF SignalsKept
      <3>2. /\ signal[z].token <= used.token /\ signal[z].plan <= used.plan
            /\ signal[z].gen <= used.gen /\ (signal[z].token # 0 => signal[z].plan # 0)
        BY DEF HandedInv
      <3>3. used'.plan >= used.plan /\ used'.gen >= used.gen /\ used'.token >= used.token
        BY DEF GensHanded
      <3> QED BY <1>0, <1>1, <3>1, <3>2, <3>3
    <2> QED BY <2>1, <2>2
  <1>5. notify'.plan <= used'.plan /\ (notify'.zone # NoZone => notify'.plan # 0)
    BY <1>0 DEF HandedInv, GensHanded
  <1>6. ASSUME NEW r \in ToSet(outer') \cup ToSet(pending')
        PROVE  /\ r.token <= used'.token
               /\ r.token # 0 /\ r.token = signal'[r.zone].token
                    => r.plan = signal'[r.zone].plan /\ r.ngen = signal'[r.zone].gen
    <2>1. CASE r.token = 0
      BY <1>0, <2>1
    <2>2. CASE r.token # 0
      <3>1. PICK q \in ToSet(outer) \cup ToSet(pending) : SameRequest(q, r)
        BY <2>2 DEF RequestsKept
      <3>2. q \in Requests
        BY ToSetType DEF TypeOK
      <3>3. q.zone \in Zones /\ q.token \in Nat
        BY <3>2 DEF Requests
      <3>4. /\ q.token <= used.token
            /\ q.token # 0 /\ q.token = signal[q.zone].token
                 => q.plan = signal[q.zone].plan /\ q.ngen = signal[q.zone].gen
        BY DEF HandedInv
      <3>5. r.token <= used'.token
        BY <1>0, <3>1, <3>3, <3>4 DEF SameRequest, GensHanded
      <3>6. signal'[q.zone] = NoSignal
            \/ (/\ signal'[q.zone].token = signal[q.zone].token
                /\ signal'[q.zone].plan = signal[q.zone].plan
                /\ signal'[q.zone].gen = signal[q.zone].gen)
        BY <3>3 DEF SignalsKept
      <3> QED BY <1>3, <2>2, <3>1, <3>4, <3>5, <3>6 DEF SameRequest
    <2> QED BY <2>1, <2>2
  <1> QED BY <1>2, <1>4, <1>5, <1>6 DEF HandedInv

\* A rollback makes no reservation.
LEMMA RolledBackKeeps ==
  ASSUME TypeOK, NEW D, signal' = RolledBack(D)
  PROVE  SignalsKept
  BY RolledBackFacts DEF SignalsKept

\* What a received request leaves: itself in another form or nothing, the reservations that are
\* not dropped, and every generation.
LEMMA ReceiveKeeps ==
  ASSUME TypeOK, Receive
  PROVE  /\ SignalsKept /\ RequestsKept
         /\ \A z \in Zones : status'[z].gen = status[z].gen
  <1> DEFINE r == Head(outer)
  <1>0. /\ pending \in Seq(Requests) /\ Len(pending) \in Nat /\ Capacity \in Nat \ {0}
        /\ DOMAIN pending = 1 .. Len(pending) /\ \A i \in 1 .. Len(pending) : pending[i] \in Requests
    BY QueueAssumption DEF TypeOK
  <1>1. Received
    BY DEF Receive, ReceiveObsolete, ReceiveFull, ReceiveSuperseded, ReceiveAdmit,
           ReceiveEvict, ReceiveMerge
  <1>2. /\ r \in Requests /\ r \in ToSet(outer) /\ ToSet(outer') \subseteq ToSet(outer)
    BY <1>1, ReceivedFacts
  <1>3. Committed(r) \in Requests /\ SameRequest(r, Committed(r))
    BY <1>2, CommittedType DEF SameRequest
  <1> HIDE DEF r
  <1>4. ASSUME NEW x \in Requests, SameRequest(r, x), ToSet(pending') \subseteq ToSet(pending) \cup {x}
        PROVE  RequestsKept
    <2>1. \A q : SameRequest(q, q)
      BY DEF SameRequest
    <2> QED BY <1>2, <1>4, <2>1 DEF RequestsKept
  <1>5. ASSUME UNCHANGED pending PROVE RequestsKept
    BY <1>2, <1>3, <1>4, <1>5
  <1>6. ASSUME NEW q, Drop(q)
        PROVE  SignalsKept /\ \A z \in Zones : status'[z].gen = status[z].gen
    BY <1>6, RolledBackKeeps, DeferredDropFacts DEF Drop
  <1>7. ASSUME UNCHANGED signal PROVE SignalsKept
    BY <1>7 DEF SignalsKept
  <1>8. CASE ReceiveObsolete
    BY <1>5, <1>8, RolledBackKeeps DEF ReceiveObsolete
  <1>9. CASE ReceiveFull
    BY <1>5, <1>6, <1>9 DEF ReceiveFull
  <1>10. CASE ReceiveSuperseded
    BY <1>5, <1>7, <1>10 DEF ReceiveSuperseded
  <1>11. CASE ReceiveAdmit
    <2>1. pending' = Append(pending, Committed(r)) /\ UNCHANGED <<signal, status>>
      BY <1>11 DEF ReceiveAdmit, r
    <2>2. ToSet(pending') = ToSet(pending) \cup {Committed(r)}
      BY <1>0, <1>3, <2>1, AppendFacts
    <2> QED BY <1>3, <1>4, <1>7, <2>1, <2>2
  <1>12. CASE ReceiveEvict
    <2>1. IsFull /\ pending' = Append(Front(pending), Committed(r)) /\ Drop(Last(pending))
      BY <1>12 DEF ReceiveEvict, r
    <2>2. pending # <<>>
      BY <1>0, <2>1 DEF IsFull
    <2>3. Front(pending) \in Seq(Requests) /\ ToSet(Front(pending)) \subseteq ToSet(pending)
      BY <1>0, <2>2, FrontFacts
    <2>4. ToSet(pending') = ToSet(Front(pending)) \cup {Committed(r)}
      BY <1>3, <2>1, <2>3, AppendFacts
    <2>5. RequestsKept
      BY <1>3, <1>4, <2>3, <2>4
    <2> QED BY <1>6, <2>1, <2>5
  <1>13. CASE ReceiveMerge
    <2>1. ASSUME NEW i \in 1 .. Len(pending), NEW x \in Requests, SameRequest(r, x),
                 pending' = [pending EXCEPT ![i] = x]
          PROVE  RequestsKept
      <3>1. ToSet(pending') \subseteq ToSet(pending) \cup {x}
        BY <1>0, <2>1, ReplaceFacts
      <3> QED BY <1>4, <2>1, <3>1
    <2>2. \A i \in 1 .. Len(pending) : /\ Merged(pending[i], Committed(r)) \in Requests
                                       /\ SameRequest(r, Merged(pending[i], Committed(r)))
      BY <1>0, <1>3, MergedType DEF SameRequest
    <2>3. ASSUME NEW i \in 1 .. Len(pending), signal' = TakenOver(pending[i], r) PROVE SignalsKept
      BY <1>0, <1>2, <2>3, TakenOverFacts DEF SignalsKept
    <2>4. CASE UNCHANGED <<pending, signal, status>>
      BY <1>5, <1>7, <2>4
    <2>5. ASSUME NEW i \in 1 .. Len(pending),
                 pending' = [pending EXCEPT ![i] = Merged(pending[i], Committed(r))],
                 signal' = TakenOver(pending[i], r), UNCHANGED status
          PROVE  SignalsKept /\ RequestsKept /\ UNCHANGED status
      BY <2>1, <2>2, <2>3, <2>5, Zenon
    <2>6. ASSUME NEW i \in 1 .. Len(pending), pending' = [pending EXCEPT ![i] = Committed(r)],
                 Drop(pending[i])
          PROVE  SignalsKept /\ RequestsKept /\ \A z \in Zones : status'[z].gen = status[z].gen
      BY <1>3, <1>6, <2>1, <2>6, Zenon
    <2>7. ASSUME UNCHANGED pending, Drop(Committed(r))
          PROVE  SignalsKept /\ RequestsKept /\ \A z \in Zones : status'[z].gen = status[z].gen
      BY <1>5, <1>6, <2>7, Zenon
    <2> QED BY <1>13, <2>4, <2>5, <2>6, <2>7, MergeFacts, Zenon DEF r
  <1> QED BY <1>8, <1>9, <1>10, <1>11, <1>12, <1>13 DEF Receive

\* A change of a mark or of a deadline is not a change of generation.
LEMMA SameGens ==
  ASSUME TypeOK, NEW z \in Zones, NEW b, NEW d,
         \/ UNCHANGED status
         \/ status' = [status EXCEPT ![z].inProgress = b]
         \/ status' = [status EXCEPT ![z].next = d]
         \/ status' = [status EXCEPT ![z].inProgress = b, ![z].next = d]
  PROVE  \A y \in Zones : status'[y].gen = status[y].gen
  <1>0. status \in [Zones -> Statuses]
    BY DEF TypeOK
  <1>1. CASE UNCHANGED status
    BY <1>1
  <1>2. CASE status' = [status EXCEPT ![z].inProgress = b]
    BY <1>0, <1>2 DEF Statuses
  <1>3. CASE status' = [status EXCEPT ![z].next = d]
    BY <1>0, <1>3 DEF Statuses
  <1>4. CASE status' = [status EXCEPT ![z].inProgress = b, ![z].next = d]
    BY <1>0, <1>4 DEF Statuses
  <1> QED BY <1>1, <1>2, <1>3, <1>4

\* What a NOTIFY reserves is newer than every other token, and its request says the same.
LEMMA HandedNotify ==
  ASSUME TypeOK, TypeOK', HandedInv, NotifyArrives \/ NotifySignals
  PROVE  HandedInv'
  <1>0. /\ used \in [plan : Nat, gen : Nat, token : Nat] /\ used.token \in Nat /\ used.plan \in Nat
        /\ plan \in [Zones -> Nat] /\ status \in [Zones -> Statuses] /\ signal \in [Zones -> Signals]
        /\ outer \in Seq(Requests) /\ pending \in Seq(Requests) /\ NoZone \notin Zones
    BY QueueAssumption DEF TypeOK
  <1>1. CASE NotifyArrives
    <2>1. PICK z \in Zones : plan[z] # 0 /\ notify' = [zone |-> z, plan |-> plan[z]]
      BY <1>1 DEF NotifyArrives
    <2>2. UNCHANGED <<plan, status, signal, outer, pending, used>>
      BY <1>1 DEF NotifyArrives
    <2>3. notify'.plan <= used.plan /\ notify'.plan # 0
      BY <2>1 DEF HandedInv
    <2> QED BY <2>2, <2>3 DEF HandedInv
  <1>2. CASE NotifySignals
    <2> DEFINE z == notify.zone
               q == [Request(z, "Notify", notify.plan) EXCEPT
                       !.token = used.token + 1, !.ngen = status[z].gen]
               g == [token |-> used.token + 1, plan |-> notify.plan,
                     gen |-> status[z].gen, seen |-> FALSE]
    <2>1. /\ z \in Zones /\ notify.plan \in Nat /\ status[z].gen \in Nat /\ used.token + 1 \in Nat
          /\ UNCHANGED <<plan, status, pending>> /\ notify'.plan = 0 /\ notify'.zone = NoZone
      BY <1>0, <1>2 DEF NotifySignals, TypeOK, Statuses
    <2>2. CASE UNCHANGED <<signal, outer, used>>
      BY <1>0, <2>1, <2>2 DEF HandedInv
    <2>3. CASE /\ used' = [used EXCEPT !.token = @ + 1]
               /\ signal' = [signal EXCEPT ![z] = g] /\ outer' = Append(outer, q)
      <3>1. Request(z, "Notify", notify.plan) \in Requests
            /\ Request(z, "Notify", notify.plan).zone = z
            /\ Request(z, "Notify", notify.plan).plan = notify.plan
        BY <2>1, RequestType DEF Reasons
      <3>2. /\ q \in Requests /\ q.zone = z /\ q.plan = notify.plan /\ q.token = used.token + 1
            /\ q.ngen = status[z].gen
        BY <2>1, <3>1 DEF Requests
      <3>3. /\ g.token = used.token + 1 /\ g.plan = notify.plan /\ g.gen = status[z].gen
        OBVIOUS
      <3>4. used'.token = used.token + 1 /\ used'.plan = used.plan /\ used'.gen = used.gen
        BY <1>0, <2>3
      <3>5. notify.plan # 0 /\ notify.plan <= used.plan /\ status[z].gen <= used.gen
        BY <1>0, <2>1 DEF HandedInv
      <3> HIDE DEF q, g, z
      <3>6. signal'[z] = g /\ \A y \in Zones \ {z} : signal'[y] = signal[y]
        BY <1>0, <2>1, <2>3
      <3>7. ToSet(outer') = ToSet(outer) \cup {q}
        BY <1>0, <2>3, <3>2, AppendFacts
      <3>8. ASSUME NEW y \in Zones
            PROVE  /\ plan'[y] <= used'.plan /\ status'[y].gen <= used'.gen
                   /\ signal'[y].token <= used'.token /\ signal'[y].plan <= used'.plan
                   /\ signal'[y].gen <= used'.gen
                   /\ signal'[y].token # 0 => signal'[y].plan # 0
        <4>0. signal[y].token \in Nat
          BY <1>0 DEF Signals
        <4>1. CASE y = z
          BY <1>0, <2>1, <3>3, <3>4, <3>5, <3>6, <4>1 DEF HandedInv
        <4>2. CASE y # z
          BY <1>0, <2>1, <3>4, <3>6, <4>0, <4>2 DEF HandedInv
        <4> QED BY <4>1, <4>2
      <3>9. ASSUME NEW r \in ToSet(outer') \cup ToSet(pending')
            PROVE  /\ r.token <= used'.token
                   /\ r.token # 0 /\ r.token = signal'[r.zone].token
                        => r.plan = signal'[r.zone].plan /\ r.ngen = signal'[r.zone].gen
        <4>1. CASE r = q
          BY <1>0, <3>2, <3>3, <3>4, <3>6, <4>1
        <4>2. CASE r # q
          <5>1. r \in ToSet(outer) \cup ToSet(pending)
            BY <2>1, <3>7, <4>2
          <5>2. r \in Requests
            BY <1>0, <5>1, ToSetType
          <5>3. r.token \in Nat /\ r.zone \in Zones
            BY <5>2 DEF Requests
          <5>4. /\ r.token <= used.token
                /\ r.token # 0 /\ r.token = signal[r.zone].token
                     => r.plan = signal[r.zone].plan /\ r.ngen = signal[r.zone].gen
            BY <5>1 DEF HandedInv
          <5>5. r.zone = z => r.token # signal'[r.zone].token
            BY <1>0, <3>3, <3>6, <5>3, <5>4
          <5>6. r.zone # z => signal'[r.zone] = signal[r.zone]
            BY <3>6, <5>3
          <5>7. r.token <= used'.token
            BY <1>0, <3>4, <5>3, <5>4
          <5> QED BY <5>4, <5>5, <5>6, <5>7
        <4> QED BY <4>1, <4>2
      <3>10. notify'.plan <= used'.plan /\ (notify'.zone # NoZone => notify'.plan # 0)
        BY <1>0, <2>1, <3>4
      <3> QED BY <3>8, <3>9, <3>10 DEF HandedInv
    <2> QED BY <1>2, <2>2, <2>3, Zenon DEF NotifySignals
  <1> QED BY <1>1, <1>2

\* Every step keeps HandedInv.
LEMMA NextHanded ==
  ASSUME TypeOK, TypeOK', ControlInv, HandedInv, [Next]_vars
  PROVE  HandedInv'
  <1>0. /\ used \in [plan : Nat, gen : Nat, token : Nat]
        /\ used.plan \in Nat /\ used.gen \in Nat /\ used.token \in Nat
        /\ plan \in [Zones -> Nat] /\ status \in [Zones -> Statuses] /\ signal \in [Zones -> Signals]
        /\ outer \in Seq(Requests) /\ pending \in Seq(Requests) /\ apply \in ApplyStates
        /\ sched \subseteq Zones
    BY DEF TypeOK
  <1>1. \A q : SameRequest(q, q)
    BY DEF SameRequest
  <1>2. ASSUME UNCHANGED signal PROVE SignalsKept
    BY <1>2 DEF SignalsKept
  <1>3. ASSUME UNCHANGED <<used, plan>>, \A z \in Zones : status'[z].gen = status[z].gen PROVE GensHanded
    BY <1>0, <1>3 DEF GensHanded
  <1>4. ASSUME ToSet(outer') \subseteq ToSet(outer), ToSet(pending') \subseteq ToSet(pending)
        PROVE  RequestsKept
    BY <1>1, <1>4 DEF RequestsKept
  <1>5. ASSUME NEW q \in Requests, q.token = 0, outer' = Append(outer, q), UNCHANGED pending
        PROVE  RequestsKept
    <2>1. ToSet(outer') = ToSet(outer) \cup {q}
      BY <1>0, <1>5, AppendFacts
    <2> QED BY <1>1, <1>5, <2>1 DEF RequestsKept
  <1>6. ASSUME UNCHANGED <<notify, signal, used, plan, outer, pending>>,
               \A z \in Zones : status'[z].gen = status[z].gen
        PROVE  HandedInv'
    BY <1>2, <1>3, <1>4, <1>6, HandedCalm
  <1>7. CASE Elapse \/ StartDue
    <2>1. CASE Elapse
      <3>1. \E z \in Zones : status' = [status EXCEPT ![z].next = "now"]
        BY <2>1 DEF Elapse
      <3>2. \A z \in Zones : status'[z].gen = status[z].gen
        BY <1>0, <3>1 DEF Statuses
      <3> QED BY <1>6, <2>1, <3>2 DEF Elapse
    <2>2. CASE StartDue
      <3>1. status' = [z \in Zones |-> IF z \in sched' THEN [status[z] EXCEPT !.inProgress = TRUE]
                                       ELSE status[z]]
        BY <2>2 DEF StartDue
      <3>2. \A z \in Zones : status'[z].gen = status[z].gen
        BY <1>0, <3>1 DEF Statuses
      <3> QED BY <1>6, <2>2, <3>2 DEF StartDue
    <2> QED BY <1>7, <2>1, <2>2
  <1>8. CASE PruneSignal
    <2>1. SignalsKept
      BY <1>0, <1>8 DEF PruneSignal, SignalsKept
    <2>2. UNCHANGED <<notify, used, plan, outer, pending, status>>
      BY <1>8 DEF PruneSignal
    <2> QED BY <1>3, <1>4, <2>1, <2>2, HandedCalm
  <1>9. CASE ControlPlaneRetry
    <2>1. PICK z \in Zones : outer' = Append(outer, Request(z, "ControlPlane", plan[z]))
      BY <1>9 DEF ControlPlaneRetry
    <2>2. Request(z, "ControlPlane", plan[z]) \in Requests /\ Request(z, "ControlPlane", plan[z]).token = 0
      BY <1>0, RequestType DEF Reasons
    <2>3. UNCHANGED <<notify, signal, used, plan, pending, status>>
      BY <1>9 DEF ControlPlaneRetry
    <2> QED BY <1>2, <1>3, <1>5, <2>1, <2>2, <2>3, HandedCalm
  <1>10. CASE SendDue
    <2>1. PICK z \in sched : SendOrCancel(z)
      BY <1>10 DEF SendDue
    <2>2. Request(z, "Scheduled", plan[z]) \in Requests /\ Request(z, "Scheduled", plan[z]).token = 0
      BY <1>0, RequestType DEF Reasons
    <2>3. UNCHANGED <<notify, signal, used, plan, pending>>
      BY <1>10 DEF SendDue
    <2>4. \/ outer' = Append(outer, Request(z, "Scheduled", plan[z]))
          \/ UNCHANGED outer
      BY <2>1 DEF SendOrCancel
    <2>5. RequestsKept
      BY <1>4, <1>5, <2>2, <2>3, <2>4
    <2>6. UNCHANGED status \/ status' = [status EXCEPT ![z].inProgress = FALSE]
      BY <2>1 DEF SendOrCancel
    <2>7. \A y \in Zones : status'[y].gen = status[y].gen
      BY <1>0, <2>6, SameGens
    <2> QED BY <1>2, <1>3, <2>3, <2>5, <2>7, HandedCalm
  <1>11. CASE Receive
    <2>1. Received
      BY <1>11 DEF Receive, ReceiveObsolete, ReceiveFull, ReceiveSuperseded, ReceiveAdmit,
             ReceiveEvict, ReceiveMerge
    <2>2. UNCHANGED <<notify, used, plan>>
      BY <2>1, ReceivedFacts
    <2> QED BY <1>3, <1>11, <2>2, ReceiveKeeps, HandedCalm
  <1>12. CASE Scan
    <2>1. UNCHANGED <<notify, used, plan>>
      BY <1>12 DEF Scan, DrainOnClose, Dispatch, AdmitFails, ScanEnds
    <2>2. UNCHANGED signal \/ \E D : signal' = RolledBack(D)
      BY <1>12 DEF Scan, DrainOnClose, Dispatch, AdmitFails, ScanEnds
    <2>3. UNCHANGED status \/ \E D : status' = DeferredDrop(D)
      BY <1>12 DEF Scan, DrainOnClose, Dispatch, AdmitFails, ScanEnds
    <2>4. \A z \in Zones : status'[z].gen = status[z].gen
      BY <2>3, DeferredDropFacts
    <2>5. SignalsKept
      BY <1>2, <2>2, RolledBackKeeps
    <2>6. ToSet(outer') \subseteq ToSet(outer) /\ ToSet(pending') \subseteq ToSet(pending)
      <3>1. CASE DrainOnClose
        BY <3>1 DEF DrainOnClose, ToSet
      <3>2. CASE Dispatch \/ AdmitFails
        <4>1. Ready # {} /\ pending' = Scanned(pending, FirstReady) /\ UNCHANGED outer
          BY <3>2 DEF Dispatch, AdmitFails, Scanned
        <4>2. \A r \in ToSet(pending') : r \in ToSet(pending)
          BY <1>0, <4>1, FirstReadyFacts, ScannedPlaces
        <4> QED BY <4>1, <4>2
      <3>3. CASE ScanEnds
        <4>1. (UNCHANGED pending \/ pending' = Kept(pending)) /\ UNCHANGED outer
          BY <3>3 DEF ScanEnds
        <4>2. ToSet(Kept(pending)) \subseteq ToSet(pending)
          BY <1>0, KeptFacts
        <4> QED BY <4>1, <4>2
      <3> QED BY <1>12, <3>1, <3>2, <3>3 DEF Scan
    <2> QED BY <1>3, <1>4, <2>1, <2>4, <2>5, <2>6, HandedCalm
  <1>13. CASE ClosedWakes \/ CloseAdmission \/ UNCHANGED vars
    BY <1>6, <1>13 DEF ClosedWakes, CloseAdmission, vars
  <1>14. ASSUME NEW z \in Zones, Retire(z) \/ Task(z) \/ Interrupt(z) \/ SecretsReloaded(z)
         PROVE  HandedInv'
    <2>1. UNCHANGED <<notify, plan, outer, pending>>
      BY <1>14 DEF Retire, Task, BeginStale, BeginAttempt, StartTransfer, TransferObsolete,
                   TransferFails, TransferSucceeds, FinishAttempt, Interrupt, SecretsReloaded
    <2>2. RequestsKept
      BY <1>4, <2>1
    <2>3. CASE Retire(z) \/ BeginStale(z)
      BY <1>6, <2>1, <2>3 DEF Retire, BeginStale
    <2>4. CASE StartTransfer(z)
      <3>1. signal' = [signal EXCEPT ![z].seen = signal[z].token # 0] /\ UNCHANGED <<used, status>>
        BY <2>4 DEF StartTransfer
      <3>2. SignalsKept
        <4>1. \A y \in Zones \ {z} : signal'[y] = signal[y]
          BY <1>0, <3>1
        <4>2. /\ signal'[z].token = signal[z].token /\ signal'[z].plan = signal[z].plan
              /\ signal'[z].gen = signal[z].gen /\ signal'[z].seen = (signal[z].token # 0)
          BY <1>0, <3>1 DEF Signals
        <4> QED BY <4>1, <4>2 DEF SignalsKept
      <3> QED BY <1>3, <2>1, <2>2, <3>1, <3>2, HandedCalm
    <2>5. CASE BeginAttempt(z)
      <3>1. UNCHANGED signal
        BY <2>5 DEF BeginAttempt
      <3>2. CASE /\ status' = [status EXCEPT ![z].inProgress = TRUE] /\ UNCHANGED used
        <4>1. \A y \in Zones : status'[y].gen = status[y].gen
          BY <1>0, <3>2 DEF Statuses
        <4> QED BY <1>6, <2>1, <3>1, <3>2, <4>1
      <3>3. CASE /\ used' = [used EXCEPT !.gen = @ + 1]
                 /\ status' = [status EXCEPT ![z] = [NoStatus EXCEPT !.gen = used.gen + 1,
                                                       !.inProgress = TRUE]]
        <4>1. used'.gen = used.gen + 1 /\ used'.plan = used.plan /\ used'.token = used.token
          BY <1>0, <3>3
        <4>2. \A y \in Zones \ {z} : status'[y] = status[y]
          BY <1>0, <3>3
        <4>3. status'[z].gen = used.gen + 1
          <5>1. [NoStatus EXCEPT !.gen = used.gen + 1, !.inProgress = TRUE].gen = used.gen + 1
            BY DEF NoStatus
          <5> QED BY <1>0, <3>3, <5>1
        <4>4. GensHanded
          BY <1>0, <2>1, <4>1, <4>2, <4>3 DEF GensHanded
        <4> QED BY <1>2, <2>1, <2>2, <3>1, <4>4, HandedCalm
      <3> QED BY <2>5, <3>2, <3>3, Zenon DEF BeginAttempt
    <2>6. CASE \/ TransferObsolete(z) \/ SecretsReloaded(z) \/ Interrupt(z) \/ TransferFails(z)
               \/ FinishAttempt(z) \/ TransferSucceeds(z)
      <3>1. UNCHANGED <<signal, used>>
        BY <2>6 DEF TransferObsolete, SecretsReloaded, Interrupt, TransferFails, FinishAttempt,
                    TransferSucceeds
      <3>2. \/ status' = [status EXCEPT ![z] = NoStatus]
            \/ UNCHANGED status
            \/ status' = [status EXCEPT ![z].inProgress = FALSE]
            \/ status' = [status EXCEPT ![z].next = "later"]
            \/ status' = [status EXCEPT ![z].inProgress = FALSE, ![z].next = "later"]
            \/ status' = [status EXCEPT ![z].inProgress = FALSE, ![z].next = "now"]
        BY <2>6 DEF TransferObsolete, SecretsReloaded, Interrupt, TransferFails, FinishAttempt,
                    TransferSucceeds, DiscardObsolete, Deferred
      <3>3. \A y \in Zones : status'[y].gen = status[y].gen \/ status'[y].gen = 0
        <4>1. CASE status' = [status EXCEPT ![z] = NoStatus]
          BY <1>0, <4>1 DEF NoStatus
        <4>2. CASE status' # [status EXCEPT ![z] = NoStatus]
          BY <3>2, <4>2, SameGens
        <4> QED BY <4>1, <4>2
      <3>4. GensHanded
        BY <1>0, <2>1, <3>1, <3>3 DEF GensHanded
      <3> QED BY <1>2, <2>1, <2>2, <3>1, <3>4, HandedCalm
    <2> QED BY <1>14, <2>3, <2>4, <2>5, <2>6 DEF Task
  <1>15. CASE Apply
    <2>1. UNCHANGED <<notify, pending>>
      BY <1>15 DEF Apply, ApplyNext, ApplyRemoveStatus, ApplyRemoveSignal, ApplyInsertPlan,
                   ApplyLoadingStart, ApplySend, ApplyEnds
    <2>2. CASE ApplyNext
      <3>1. UNCHANGED <<status, signal, outer, used>>
        BY <2>2 DEF ApplyNext
      <3>2. \A z \in Zones : plan'[z] = plan[z] \/ plan'[z] = 0
        BY <1>0, <2>2 DEF ApplyNext
      <3>3. GensHanded
        BY <1>0, <3>1, <3>2 DEF GensHanded
      <3> QED BY <1>2, <1>4, <2>1, <3>1, <3>3, HandedCalm
    <2>3. CASE ApplyRemoveStatus
      <3>1. UNCHANGED <<plan, signal, outer, used>>
        BY <2>3 DEF ApplyRemoveStatus
      <3>2. \A z \in Zones : status'[z].gen = status[z].gen \/ status'[z].gen = 0
        BY <1>0, <2>3 DEF ApplyRemoveStatus, NoStatus
      <3>3. GensHanded
        BY <1>0, <3>1, <3>2 DEF GensHanded
      <3> QED BY <1>2, <1>4, <2>1, <3>1, <3>3, HandedCalm
    <2>4. CASE ApplyRemoveSignal
      <3>1. UNCHANGED <<plan, status, outer, used>>
        BY <2>4 DEF ApplyRemoveSignal
      <3>2. SignalsKept
        BY <1>0, <2>4 DEF ApplyRemoveSignal, SignalsKept
      <3> QED BY <1>3, <1>4, <2>1, <3>1, <3>2, HandedCalm
    <2>5. CASE ApplyInsertPlan
      <3>1. /\ UNCHANGED <<status, signal, outer>> /\ used' = [used EXCEPT !.plan = @ + 1]
            /\ plan' = [plan EXCEPT ![apply.zone] = used.plan + 1]
        BY <2>5 DEF ApplyInsertPlan
      <3>2. used'.plan = used.plan + 1 /\ used'.gen = used.gen /\ used'.token = used.token
        BY <1>0, <3>1
      <3>3. \A z \in Zones : plan'[z] = plan[z] \/ plan'[z] = used.plan + 1
        BY <1>0, <3>1
      <3>4. GensHanded
        BY <1>0, <3>1, <3>2, <3>3 DEF GensHanded
      <3> QED BY <1>2, <1>4, <2>1, <3>1, <3>4, HandedCalm
    <2>6. CASE ApplyLoadingStart
      <3>1. UNCHANGED <<plan, signal, outer>>
        BY <2>6 DEF ApplyLoadingStart
      <3> DEFINE z == apply.zone
      <3>2. PICK d : \/ UNCHANGED used /\ UNCHANGED status
                     \/ /\ UNCHANGED used
                        /\ status' = [status EXCEPT ![z].inProgress = FALSE, ![z].next = d]
                     \/ /\ used' = [used EXCEPT !.gen = @ + 1]
                        /\ status' = [status EXCEPT ![z] =
                                        [gen |-> used.gen + 1, inProgress |-> FALSE, next |-> d]]
        BY <2>6 DEF ApplyLoadingStart
      <3>3. /\ used'.plan = used.plan /\ used'.token = used.token /\ used'.gen >= used.gen
            /\ \A y \in Zones : status'[y].gen = status[y].gen \/ status'[y].gen <= used'.gen
        <4>0. z \in Zones
          BY <2>6 DEF ApplyLoadingStart, ControlInv, Members
        <4>1. CASE /\ UNCHANGED used
                   /\ \/ UNCHANGED status
                      \/ status' = [status EXCEPT ![z].inProgress = FALSE, ![z].next = d]
          <5>1. \A y \in Zones : status'[y].gen = status[y].gen
            BY <4>0, <4>1, SameGens
          <5> QED BY <1>0, <4>1, <5>1
        <4>2. CASE /\ used' = [used EXCEPT !.gen = @ + 1]
                   /\ status' = [status EXCEPT ![z] =
                                   [gen |-> used.gen + 1, inProgress |-> FALSE, next |-> d]]
          <5>1. used'.gen = used.gen + 1 /\ used'.plan = used.plan /\ used'.token = used.token
            BY <1>0, <4>2
          <5>2. \A y \in Zones : status'[y].gen = status[y].gen \/ status'[y].gen = used.gen + 1
            BY <1>0, <4>2
          <5> QED BY <1>0, <5>1, <5>2
        <4> QED BY <3>2, <4>1, <4>2
      <3>4. GensHanded
        BY <1>0, <3>1, <3>3 DEF GensHanded
      <3> QED BY <1>2, <1>4, <2>1, <3>1, <3>4, HandedCalm
    <2>7. CASE ApplySend
      <3>1. PICK r \in apply.sends : UNCHANGED outer \/ outer' = Append(outer, r)
        BY <2>7 DEF ApplySend
      <3>2. r \in Requests /\ r.token = 0 /\ UNCHANGED <<plan, status, signal, used>>
        BY <1>0, <2>7 DEF ApplyStates, ControlInv, ApplySend
      <3>3. RequestsKept
        BY <1>4, <1>5, <2>1, <3>1, <3>2
      <3> QED BY <1>2, <1>3, <2>1, <3>2, <3>3, HandedCalm
    <2>8. CASE ApplyEnds
      BY <1>6, <2>8 DEF ApplyEnds
    <2> QED BY <1>15, <2>2, <2>3, <2>4, <2>5, <2>6, <2>7, <2>8 DEF Apply
  <1> QED BY <1>7, <1>8, <1>9, <1>10, <1>11, <1>12, <1>13, <1>14, <1>15, HandedNotify, Zenon
          DEF Next, Scheduler

(***************************************************************************)
(* Reservations.                                                           *)
(***************************************************************************)

\* A reservation that suppresses NOTIFYs after a step did so before it, unless the step made it or
\* the incarnation.
LEMMA SuppressedBefore ==
  ASSUME NEW z \in Zones, Suppresses(z)', SignalsKept,
         plan'[z] = plan[z], status'[z].gen = status[z].gen
  PROVE  Suppresses(z) /\ signal'[z].token = signal[z].token /\ signal[z].token # 0
  <1>1. signal'[z] # NoSignal
    BY DEF Suppresses, NoSignal
  <1> QED BY <1>1 DEF Suppresses, SignalsKept

\* It is reserved while the request that made it, in whatever form, is queued.
LEMMA ReservedStays ==
  ASSUME NEW z, Reserved(z), signal'[z].token = signal[z].token,
         \A r \in ToSet(outer) \cup ToSet(pending) :
           r.zone = z /\ r.token = signal[z].token
             => \E q \in ToSet(outer') \cup ToSet(pending') : SameRequest(r, q)
  PROVE  Reserved(z)'
  BY DEF Reserved, SameRequest

\* The catalog seeks it while one of its requests is still there.
LEMMA SoughtNow ==
  ASSUME NEW z, NEW r, r \in Everywhere', r.zone = z, RequestIsCurrent(r)', r.retry = "Catalog"
  PROVE  Sought(z)'
  BY DEF Sought, Everywhere

\* It seeks the zone as before when its requests are all still there.
LEMMA SoughtStays ==
  ASSUME NEW z, Sought(z), plan'[z] = plan[z], status'[z].gen = status[z].gen,
         \A r \in Everywhere :
           r.zone = z /\ RequestIsCurrent(r) /\ r.retry = "Catalog" => r \in Everywhere'
  PROVE  Sought(z)'
  <1>1. PICK r \in Everywhere : r.zone = z /\ RequestIsCurrent(r) /\ r.retry = "Catalog"
    BY DEF Sought, Everywhere
  <1>2. r \in Everywhere'
    BY <1>1
  <1>3. RequestIsCurrent(r)'
    BY <1>1, StaysCurrent
  <1> QED BY <1>1, <1>2, <1>3, SoughtNow

\* An attempt is still coming when the task is as it was and no deadline is put off.
LEMMA ComingStays ==
  ASSUME NEW z, Coming(z), plan'[z] = plan[z], status'[z].gen = status[z].gen, task'[z] = task[z],
         status[z].next = "now" => status'[z].next = "now",
         Sought(z) => Sought(z)' \/ status'[z].next = "now"
  PROVE  Coming(z)'
  <1>1. NotTransferring(z)'
    BY DEF Coming, NotTransferring
  <1>2. Starting(z) => Starting(z)'
    BY DEF Starting, TaskIsCurrent, IsCurrent
  <1> QED BY <1>1, <1>2 DEF Coming

\* A step keeps ReservationInv if it takes no request away and puts no deadline off.
LEMMA ReservationCalm ==
  ASSUME ReservationInv, admission' => admission, UNCHANGED <<plan, task>>, SignalsKept,
         \A z \in Zones : /\ status'[z].gen = status[z].gen
                          /\ status[z].next = "now" => status'[z].next = "now",
         ToSet(outer) \subseteq ToSet(outer'), ToSet(pending) \subseteq ToSet(pending'),
         Everywhere \subseteq Everywhere'
  PROVE  ReservationInv'
  <1> SUFFICES ASSUME admission', NEW z \in Zones, Suppresses(z)' PROVE Reserved(z)' \/ Coming(z)'
    BY DEF ReservationInv
  <1>1. Suppresses(z) /\ signal'[z].token = signal[z].token
    BY SuppressedBefore
  <1>2. Reserved(z) \/ Coming(z)
    BY <1>1 DEF ReservationInv
  <1>3. Reserved(z) => Reserved(z)'
    <2>1. \A q : SameRequest(q, q)
      BY DEF SameRequest
    <2> QED BY <1>1, <2>1, ReservedStays
  <1>4. Sought(z) => Sought(z)'
    BY SoughtStays
  <1>5. Coming(z) => Coming(z)'
    BY <1>4, ComingStays
  <1> QED BY <1>2, <1>3, <1>5

\* Steps that bring requests in: a NOTIFY's own request backs its reservation.
LEMMA ReservationIncoming ==
  ASSUME TypeOK, ReservationInv,
         Elapse \/ NotifyArrives \/ NotifySignals \/ PruneSignal \/ ControlPlaneRetry \/ Scheduler
  PROVE  ReservationInv'
  <1>0. /\ status \in [Zones -> Statuses] /\ plan \in [Zones -> Nat] /\ outer \in Seq(Requests)
        /\ signal \in [Zones -> Signals] /\ sched \subseteq Zones
    BY DEF TypeOK
  <1>1. UNCHANGED <<plan, task, pending, apply, admission>>
    BY DEF Elapse, NotifyArrives, NotifySignals, PruneSignal, ControlPlaneRetry, Scheduler,
           StartDue, SendDue
  <1>2. ASSUME NEW q \in Requests, outer' = Append(outer, q)
        PROVE  ToSet(outer) \subseteq ToSet(outer') /\ Everywhere \subseteq Everywhere'
               /\ q \in ToSet(outer')
    <2>1. ToSet(outer') = ToSet(outer) \cup {q}
      BY <1>0, <1>2, AppendFacts
    <2> QED BY <1>1, <2>1 DEF Everywhere
  <1>3. ASSUME UNCHANGED outer
        PROVE  ToSet(outer) \subseteq ToSet(outer') /\ Everywhere \subseteq Everywhere'
    BY <1>1, <1>3 DEF Everywhere
  <1>4. UNCHANGED signal => SignalsKept
    BY DEF SignalsKept
  <1>5. CASE Elapse
    <2>1. PICK z \in Zones : status' = [status EXCEPT ![z].next = "now"]
      BY <1>5 DEF Elapse
    <2>2. \A y \in Zones : status'[y].gen = status[y].gen
      BY <2>1, SameGens
    <2>3. \A y \in Zones : status[y].next = "now" => status'[y].next = "now"
      BY <1>0, <2>1 DEF Statuses
    <2>4. UNCHANGED <<signal, outer>>
      BY <1>5 DEF Elapse
    <2> QED BY <1>1, <1>3, <1>4, <2>2, <2>3, <2>4, ReservationCalm
  <1>6. CASE NotifyArrives
    <2>1. UNCHANGED <<signal, outer, status>>
      BY <1>6 DEF NotifyArrives
    <2> QED BY <1>1, <1>3, <1>4, <2>1, ReservationCalm
  <1>7. CASE PruneSignal
    <2>1. UNCHANGED <<outer, status>>
      BY <1>7 DEF PruneSignal
    <2>2. SignalsKept
      BY <1>0, <1>7 DEF PruneSignal, SignalsKept
    <2> QED BY <1>1, <1>3, <2>1, <2>2, ReservationCalm
  <1>8. CASE ControlPlaneRetry
    <2>1. PICK z \in Zones : outer' = Append(outer, Request(z, "ControlPlane", plan[z]))
      BY <1>8 DEF ControlPlaneRetry
    <2>2. Request(z, "ControlPlane", plan[z]) \in Requests
      BY <1>0, RequestType DEF Reasons
    <2>3. UNCHANGED <<signal, status>>
      BY <1>8 DEF ControlPlaneRetry
    <2> QED BY <1>1, <1>2, <1>4, <2>1, <2>2, <2>3, ReservationCalm
  <1>9. CASE StartDue
    <2>1. status' = [z \in Zones |-> IF z \in sched' THEN [status[z] EXCEPT !.inProgress = TRUE]
                                     ELSE status[z]]
      BY <1>9 DEF StartDue
    <2>2. \A z \in Zones : status'[z].gen = status[z].gen /\ status'[z].next = status[z].next
      BY <1>0, <2>1 DEF Statuses
    <2>3. UNCHANGED <<signal, outer>>
      BY <1>9 DEF StartDue
    <2> QED BY <1>1, <1>3, <1>4, <2>2, <2>3, ReservationCalm
  <1>10. CASE SendDue
    <2>1. PICK z \in sched : SendOrCancel(z)
      BY <1>10 DEF SendDue
    <2>2. Request(z, "Scheduled", plan[z]) \in Requests /\ z \in Zones
      BY <1>0, RequestType DEF Reasons
    <2>3. \/ outer' = Append(outer, Request(z, "Scheduled", plan[z]))
          \/ UNCHANGED outer
      BY <2>1 DEF SendOrCancel
    <2>4. UNCHANGED status \/ status' = [status EXCEPT ![z].inProgress = FALSE]
      BY <2>1 DEF SendOrCancel
    <2>5. \A y \in Zones : status'[y].gen = status[y].gen
      BY <2>2, <2>4, SameGens
    <2>6. \A y \in Zones : status'[y].next = status[y].next
      <3>1. CASE UNCHANGED status
        BY <3>1
      <3>2. CASE status' = [status EXCEPT ![z].inProgress = FALSE]
        BY <1>0, <3>2 DEF Statuses
      <3> QED BY <2>4, <3>1, <3>2
    <2>7. UNCHANGED signal
      BY <1>10 DEF SendDue
    <2>8. ToSet(outer) \subseteq ToSet(outer') /\ Everywhere \subseteq Everywhere'
      BY <1>2, <1>3, <2>2, <2>3
    <2> QED BY <1>1, <1>4, <2>5, <2>6, <2>7, <2>8, ReservationCalm
  <1>11. CASE NotifySignals
    <2> DEFINE y == notify.zone
               q == [Request(y, "Notify", notify.plan) EXCEPT
                       !.token = used.token + 1, !.ngen = status[y].gen]
               g == [token |-> used.token + 1, plan |-> notify.plan,
                     gen |-> status[y].gen, seen |-> FALSE]
    <2>1. UNCHANGED status
      BY <1>11 DEF NotifySignals
    <2>2. CASE UNCHANGED <<signal, outer>>
      BY <1>1, <1>3, <1>4, <2>1, <2>2, ReservationCalm
    <2>3. CASE signal' = [signal EXCEPT ![y] = g] /\ outer' = Append(outer, q)
      <3>1. y \in Zones /\ notify.plan \in Nat /\ status[y].gen \in Nat /\ used.token + 1 \in Nat
        BY <1>0, <1>11 DEF NotifySignals, TypeOK, Statuses
      <3>2. /\ Request(y, "Notify", notify.plan) \in Requests
            /\ Request(y, "Notify", notify.plan).zone = y
        BY <3>1, RequestType DEF Reasons
      <3>3. q \in Requests /\ q.zone = y /\ q.token = used.token + 1
        BY <3>1, <3>2 DEF Requests
      <3>4. g.token = used.token + 1
        OBVIOUS
      <3> HIDE DEF q, g, y
      <3>5. signal'[y] = g /\ \A z \in Zones \ {y} : signal'[z] = signal[z]
        BY <1>0, <2>3, <3>1
      <3>6. /\ ToSet(outer) \subseteq ToSet(outer') /\ Everywhere \subseteq Everywhere'
            /\ q \in ToSet(outer')
        BY <1>2, <2>3, <3>3
      <3> SUFFICES ASSUME admission', NEW z \in Zones, Suppresses(z)'
                   PROVE  Reserved(z)' \/ Coming(z)'
        BY DEF ReservationInv
      <3>7. CASE z = y
        BY <3>3, <3>4, <3>5, <3>6, <3>7 DEF Reserved
      <3>8. CASE z # y
        <4>1. signal'[z] = signal[z] /\ Suppresses(z)
          BY <1>1, <2>1, <3>5, <3>8 DEF Suppresses
        <4>2. Reserved(z) \/ Coming(z)
          BY <1>1, <4>1 DEF ReservationInv
        <4>3. Reserved(z) => Reserved(z)'
          BY <1>1, <3>6, <4>1 DEF Reserved
        <4>4. Sought(z) => Sought(z)'
          BY <1>1, <2>1, <3>6, SoughtStays
        <4>5. Coming(z) => Coming(z)'
          BY <1>1, <2>1, <4>4, ComingStays
        <4> QED BY <4>2, <4>3, <4>5
      <3> QED BY <3>7, <3>8
    <2> QED BY <1>11, <2>2, <2>3, Zenon DEF NotifySignals
  <1> QED BY <1>5, <1>6, <1>7, <1>8, <1>9, <1>10, <1>11 DEF Scheduler

\* A scan passes a reserved request on to a task, keeps it, or rolls its reservation back.
LEMMA ReservationScan ==
  ASSUME TypeOK, ControlInv, ReservationInv, Scan \/ ClosedWakes \/ \E y \in Zones : Retire(y)
  PROVE  ReservationInv'
  <1> SUFFICES ASSUME admission', NEW z \in Zones, Suppresses(z)' PROVE Reserved(z)' \/ Coming(z)'
    BY DEF ReservationInv
  <1>0. /\ task \in [Zones -> TaskStates] /\ pending \in Seq(Requests) /\ Len(pending) \in Nat
        /\ DOMAIN pending = 1 .. Len(pending) /\ ToSet(pending) = {pending[i] : i \in 1 .. Len(pending)}
    BY DEF TypeOK, ToSet
  <1>1. UNCHANGED <<plan, apply, admission>> /\ admission
    BY DEF Scan, DrainOnClose, Dispatch, AdmitFails, ScanEnds, ClosedWakes, Retire
  <1>2. UNCHANGED <<status, outer>>
    BY <1>1 DEF Scan, DrainOnClose, Dispatch, AdmitFails, ScanEnds, ClosedWakes, Retire, ControlInv
  <1>3. UNCHANGED signal \/ \E D : signal' = RolledBack(D)
    BY <1>1 DEF Scan, DrainOnClose, Dispatch, AdmitFails, ScanEnds, ClosedWakes, Retire, ControlInv
  <1>4. SignalsKept
    <2>1. UNCHANGED signal => SignalsKept
      BY DEF SignalsKept
    <2> QED BY <1>3, <2>1, RolledBackKeeps
  <1>5. Suppresses(z) /\ signal'[z].token = signal[z].token /\ signal[z].token # 0
    BY <1>1, <1>2, <1>4, SuppressedBefore
  <1>6. Reserved(z) \/ Coming(z)
    BY <1>1, <1>5 DEF ReservationInv
  <1>7. \A q : SameRequest(q, q)
    BY DEF SameRequest
  \* what is rolled back does not suppress any more
  <1>8. ASSUME NEW D, signal' = RolledBack(D), NEW r \in D, r.zone = z, r.token = signal[z].token
        PROVE  FALSE
    <2>1. signal'[z] = NoSignal
      BY <1>5, <1>8, RolledBackFacts
    <2> QED BY <1>5, <2>1 DEF NoSignal
  \* and what is neither rolled back nor taken out is kept
  <1>9. ASSUME task'[z] = task[z],
               \A r \in ToSet(pending) :
                 r.zone = z /\ (r.token = signal[z].token \/ RequestIsCurrent(r)) => r \in ToSet(pending')
        PROVE  Reserved(z)' \/ Coming(z)'
    <2>1. Reserved(z) => Reserved(z)'
      BY <1>2, <1>5, <1>7, <1>9, ReservedStays
    <2>2. \A r \in Everywhere : r.zone = z /\ RequestIsCurrent(r) => r \in Everywhere'
      BY <1>1, <1>2, <1>9 DEF Everywhere
    <2>3. Sought(z) => Sought(z)'
      BY <1>1, <1>2, <2>2, SoughtStays
    <2>4. Coming(z) => Coming(z)'
      BY <1>1, <1>2, <1>9, <2>3, ComingStays
    <2> QED BY <1>6, <2>1, <2>4
  <1>10. CASE Dispatch
    <2> DEFINE q == pending[FirstReady]
               v == [NoTask EXCEPT !.pc = "spawned", !.plan = q.plan, !.ngen = q.ngen]
               D == Obsolete(SubSeq(pending, 1, FirstReady - 1))
    <2>1. /\ Ready # {} /\ pending' = Scanned(pending, FirstReady)
          /\ task' = [task EXCEPT ![q.zone] = v] /\ signal' = RolledBack(D)
      BY <1>10 DEF Dispatch, Scanned
    <2>2. FirstReady \in 1 .. Len(pending) /\ q \in Requests /\ RequestIsCurrent(q)
      BY <2>1, FirstReadyFacts
    <2>3. v.pc = "spawned" /\ v.plan = q.plan /\ v.ngen = q.ngen /\ q.zone \in Zones
      BY <2>2 DEF NoTask, Requests
    <2>4. /\ \A j \in (1 .. Len(pending)) \ {FirstReady} :
               j > FirstReady \/ RequestIsCurrent(pending[j]) => pending[j] \in ToSet(pending')
          /\ D = {r \in {pending[j] : j \in 1 .. FirstReady - 1} : ~RequestIsCurrent(r)}
      BY <1>0, <2>1, <2>2, ScannedPlaces
    <2> HIDE DEF v, q, D
    <2>5. CASE z = q.zone
      <3>1. task'[z] = v
        BY <1>0, <2>1, <2>3, <2>5
      <3>2. Starting(z)' /\ NotTransferring(z)'
        BY <1>1, <1>2, <2>2, <2>3, <2>5, <3>1
           DEF Starting, NotTransferring, TaskIsCurrent, IsCurrent, RequestIsCurrent
      <3> QED BY <3>2 DEF Coming
    <2>6. CASE z # q.zone
      <3>1. task'[z] = task[z]
        BY <1>0, <2>1, <2>6
      <3>2. ASSUME NEW r \in ToSet(pending), r.zone = z, r.token = signal[z].token \/ RequestIsCurrent(r)
            PROVE  r \in ToSet(pending')
        <4>1. PICK j \in 1 .. Len(pending) : r = pending[j]
          BY <1>0
        <4>2. j # FirstReady
          BY <2>6, <3>2, <4>1 DEF q
        <4>3. CASE RequestIsCurrent(r)
          BY <2>4, <4>1, <4>2, <4>3
        <4>4. CASE ~RequestIsCurrent(r)
          <5>1. r \notin D
            BY <1>8, <2>1, <3>2, <4>4
          <5>2. j > FirstReady
            BY <1>0, <2>2, <2>4, <4>1, <4>2, <4>4, <5>1
          <5> QED BY <2>4, <4>1, <4>2, <5>2
        <4> QED BY <4>3, <4>4
      <3> QED BY <1>9, <3>1, <3>2
    <2> QED BY <2>5, <2>6
  <1>11. CASE ScanEnds
    <2>1. UNCHANGED task
      BY <1>11 DEF ScanEnds
    <2>2. CASE UNCHANGED pending
      BY <1>9, <2>1, <2>2
    <2>3. CASE pending' = Kept(pending) /\ signal' = RolledBack(Obsolete(pending))
      <3>1. ToSet(pending') = {r \in ToSet(pending) : RequestIsCurrent(r)}
        BY <1>0, <2>3, KeptFacts
      <3>2. \A r \in ToSet(pending) : ~RequestIsCurrent(r) => r \in Obsolete(pending)
        BY DEF Obsolete
      <3>3. \A r \in ToSet(pending) : r.zone = z /\ r.token = signal[z].token => RequestIsCurrent(r)
        BY <1>8, <2>3, <3>2
      <3> QED BY <1>9, <2>1, <3>1, <3>3
    <2> QED BY <1>11, <2>2, <2>3, Zenon DEF ScanEnds
  <1>12. ASSUME NEW y \in Zones, Retire(y) PROVE Reserved(z)' \/ Coming(z)'
    <2>1. UNCHANGED pending /\ task' = [task EXCEPT ![y] = NoTask] /\ task[y].pc = "done"
      BY <1>12 DEF Retire
    <2>2. CASE z # y
      <3>1. task'[z] = task[z]
        BY <1>0, <2>1, <2>2
      <3> QED BY <1>9, <2>1, <3>1
    <2>3. CASE z = y
      <3>1. task'[z].pc = "none"
        BY <1>0, <2>1, <2>3 DEF NoTask
      <3>2. NotTransferring(z)' /\ ~Starting(z)
        BY <2>1, <2>3, <3>1 DEF NotTransferring, Starting
      <3>3. Reserved(z) => Reserved(z)'
        BY <1>2, <1>5, <1>7, <2>1, ReservedStays
      <3>4. \A r \in Everywhere : r \in Everywhere'
        BY <1>1, <1>2, <2>1 DEF Everywhere
      <3>5. Sought(z) => Sought(z)'
        BY <1>1, <1>2, <3>4, SoughtStays
      <3> QED BY <1>2, <1>6, <3>2, <3>3, <3>5 DEF Coming
    <2> QED BY <2>2, <2>3
  <1>13. ~DrainOnClose /\ ~AdmitFails /\ ~ClosedWakes
    BY <1>1 DEF DrainOnClose, AdmitFails, ClosedWakes, ControlInv
  <1> QED BY <1>10, <1>11, <1>12, <1>13 DEF Scan

\* The steps of a task: one that transfers has seen the reservation, or the reservation's own
\* request is still queued.
LEMMA ReservationTask ==
  ASSUME TypeOK, ControlInv, HandedInv, ReservationInv, NEW y \in Zones,
         Task(y) \/ Interrupt(y) \/ SecretsReloaded(y)
  PROVE  ReservationInv'
  <1> SUFFICES ASSUME admission', NEW z \in Zones, Suppresses(z)' PROVE Reserved(z)' \/ Coming(z)'
    BY DEF ReservationInv
  <1>0. /\ status \in [Zones -> Statuses] /\ task \in [Zones -> TaskStates] /\ Catalog \in Zones
        /\ signal \in [Zones -> Signals] /\ used.gen \in Nat
    BY EmptyTypes DEF TypeOK
  <1>1. UNCHANGED <<plan, outer, pending, admission>> /\ admission
    BY DEF Task, BeginStale, BeginAttempt, StartTransfer, TransferObsolete, TransferFails,
           TransferSucceeds, FinishAttempt, Interrupt, SecretsReloaded
  <1>2. UNCHANGED apply \/ (apply.pc = "idle" /\ apply.sends = {})
    <2>1. CASE TransferSucceeds(y)
      <3>1. UNCHANGED apply \/ (y = Catalog /\ task[y].pc = "running")
        BY <2>1 DEF TransferSucceeds
      <3> QED BY <3>1 DEF ControlInv
    <2>2. CASE ~TransferSucceeds(y)
      BY <2>2 DEF Task, BeginStale, BeginAttempt, StartTransfer, TransferObsolete, TransferFails,
                  FinishAttempt, Interrupt, SecretsReloaded
    <2> QED BY <2>1, <2>2
  <1>3. \A r \in Everywhere : r \in Everywhere'
    BY <1>1, <1>2 DEF Everywhere
  <1>4. CASE StartTransfer(y)
    <2>1. /\ signal' = [signal EXCEPT ![y].seen = signal[y].token # 0] /\ UNCHANGED status
          /\ TaskGoes(y, "running")
      BY <1>4 DEF StartTransfer
    <2>2. CASE z = y
      <3>1. signal'[z].token = signal[z].token /\ signal'[z].seen = (signal[z].token # 0)
        BY <1>0, <2>1, <2>2 DEF Signals
      <3> QED BY <3>1 DEF Suppresses
    <2>3. CASE z # y
      <3>1. signal'[z] = signal[z] /\ task'[z] = task[z]
        BY <1>0, <2>1, <2>3, TaskFacts
      <3>2. Suppresses(z)
        BY <1>1, <2>1, <3>1 DEF Suppresses
      <3>3. Reserved(z) \/ Coming(z)
        BY <1>1, <3>2 DEF ReservationInv
      <3>4. Reserved(z) => Reserved(z)'
        BY <1>1, <3>1 DEF Reserved
      <3>5. Sought(z) => Sought(z)'
        BY <1>1, <1>3, <2>1, SoughtStays
      <3>6. Coming(z) => Coming(z)'
        BY <1>1, <2>1, <3>1, <3>5, ComingStays
      <3> QED BY <3>3, <3>4, <3>6
    <2> QED BY <2>2, <2>3
  <1>5. CASE ~StartTransfer(y)
    <2>1. UNCHANGED signal
      BY <1>5 DEF Task, BeginStale, BeginAttempt, TransferObsolete, TransferFails,
                  TransferSucceeds, FinishAttempt, Interrupt, SecretsReloaded
    <2>2. Reserved(z) => Reserved(z)'
      BY <1>1, <2>1 DEF Reserved
    <2>3. ASSUME status'[z].gen = status[z].gen PROVE Suppresses(z) /\ (Reserved(z) \/ Coming(z))
      <3>1. Suppresses(z)
        BY <1>1, <2>1, <2>3 DEF Suppresses
      <3> QED BY <1>1, <3>1 DEF ReservationInv
    <2>4. ASSUME status'[z].gen = status[z].gen PROVE Sought(z) => Sought(z)'
      BY <1>1, <1>3, <2>4, SoughtStays
    <2>5. ASSUME z # y, status'[z] = status[z], task'[z] = task[z] PROVE Reserved(z)' \/ Coming(z)'
      <3>1. Coming(z) => Coming(z)'
        BY <1>1, <2>4, <2>5, ComingStays
      <3> QED BY <2>2, <2>3, <2>5, <3>1
    \* the task of z itself ends an attempt that was not yet its transfer
    <2>6. ASSUME z = y, task'[z].pc = "done",
                 status'[z] = status[z] \/ (status'[z].gen = status[z].gen /\ status'[z].next = "now"),
                 status'[z] = status[z] => ~Starting(z)
          PROVE  Reserved(z)' \/ Coming(z)'
      <3>1. NotTransferring(z)'
        BY <2>6 DEF NotTransferring
      <3>2. CASE status'[z].next = "now"
        BY <3>1, <3>2 DEF Coming
      <3>3. CASE status'[z].next # "now"
        <4>1. status'[z] = status[z] /\ ~Starting(z)
          BY <2>6, <3>3
        <4> QED BY <2>2, <2>3, <2>4, <3>1, <3>3, <4>1 DEF Coming
      <3> QED BY <3>2, <3>3
    \* a task that transfers: only the queued request backs the reservation
    <2>7. ASSUME z = y, task[z].pc \in {"running", "finishing"}, status'[z].gen = status[z].gen
          PROVE  Reserved(z)'
      <3>1. ~Coming(z)
        BY <2>7 DEF Coming, NotTransferring
      <3> QED BY <2>2, <2>3, <2>7, <3>1
    <2>8. CASE BeginStale(y)
      <3>1. TaskGoes(y, "done") /\ UNCHANGED status /\ task[y].pc = "spawned" /\ ~TaskIsCurrent(y)
        BY <2>8 DEF BeginStale
      <3>2. task'[y].pc = "done" /\ (z # y => task'[z] = task[z])
        BY <3>1, TaskFacts
      <3>3. ~Starting(y)
        BY <3>1 DEF Starting
      <3> QED BY <2>5, <2>6, <3>1, <3>2, <3>3
    <2>9. CASE BeginAttempt(y)
      <3>0. task[y].pc = "spawned"
        BY <2>9 DEF BeginAttempt
      <3>1. CASE z # y
        <4>1. status'[z] = status[z] /\ task'[z] = task[z]
          BY <1>0, <2>9, <3>1 DEF BeginAttempt
        <4> QED BY <2>5, <3>1, <4>1
      <3>2. CASE /\ z = y /\ status' = [status EXCEPT ![y].inProgress = TRUE]
                 /\ task' = [task EXCEPT ![y].pc = "started", ![y].gen = status[y].gen]
        <4>1. status'[z].gen = status[z].gen /\ status'[z].next = status[z].next
          BY <1>0, <3>2 DEF Statuses
        <4>2. /\ task'[z].pc = "started" /\ task'[z].gen = status[z].gen
              /\ task'[z].plan = task[z].plan /\ task'[z].ngen = task[z].ngen
          BY <1>0, <3>2 DEF TaskStates
        <4>3. NotTransferring(z)' /\ (Starting(z) => Starting(z)')
          BY <1>1, <4>1, <4>2 DEF NotTransferring, Starting, TaskIsCurrent, IsCurrent
        <4> QED BY <2>2, <2>3, <2>4, <4>1, <4>3 DEF Coming
      <3>3. CASE /\ z = y
                 /\ status' = [status EXCEPT ![y] = [NoStatus EXCEPT !.gen = used.gen + 1,
                                                       !.inProgress = TRUE]]
        <4>1. [NoStatus EXCEPT !.gen = used.gen + 1, !.inProgress = TRUE].gen = used.gen + 1
          BY DEF NoStatus
        <4>2. status'[z].gen = used.gen + 1
          BY <1>0, <3>3, <4>1
        <4>3. signal[z].gen <= used.gen /\ signal[z].gen \in Nat
          BY <1>0 DEF HandedInv, Signals
        <4>4. signal'[z].gen # status'[z].gen
          BY <1>0, <2>1, <4>2, <4>3
        <4> QED BY <4>4 DEF Suppresses
      <3> QED BY <2>9, <3>1, <3>2, <3>3, Zenon DEF BeginAttempt
    <2>10. CASE TransferObsolete(y) \/ SecretsReloaded(y) \/ Interrupt(y)
      <3>1. task[y].pc \in {"started", "running"}
        BY <2>10 DEF TransferObsolete, SecretsReloaded, Interrupt
      <3>2. /\ task'[y].pc = "done" /\ (z # y => task'[z] = task[z] /\ status'[z] = status[z])
            /\ status[y].gen # task[y].gen => status' = status
            /\ status[y].gen = task[y].gen =>
                 status'[y].gen = 0 \/ (status'[y].gen = status[y].gen /\ status'[y].next = "now")
        <4>1. CASE TransferObsolete(y) \/ SecretsReloaded(y)
          <5>1. DiscardObsolete(y)
            BY <4>1 DEF TransferObsolete, SecretsReloaded
          <5> QED BY <5>1, DiscardFacts
        <4>2. CASE Interrupt(y)
          <5>1. TaskGoes(y, "done") /\ status' = Deferred(y)
            BY <4>2 DEF Interrupt
          <5> QED BY <5>1, TaskFacts, DeferredFacts
        <4> QED BY <2>10, <4>1, <4>2
      <3>3. CASE z # y
        BY <2>5, <3>2, <3>3
      <3>4. CASE z = y /\ status[y].gen = task[y].gen
        <4>1. status'[y].gen # 0
          BY <3>4 DEF Suppresses
        <4>2. NotTransferring(y)'
          BY <3>2 DEF NotTransferring
        <4> QED BY <3>2, <3>4, <4>1, <4>2 DEF Coming
      <3>5. CASE z = y /\ status[y].gen # task[y].gen
        <4>1. ~Starting(y)
          BY <3>1, <3>5 DEF Starting
        <4> QED BY <2>6, <3>2, <3>5, <4>1
      <3> QED BY <3>3, <3>4, <3>5
    <2>11. CASE TransferFails(y) \/ FinishAttempt(y) \/ TransferSucceeds(y)
      <3>1. task[y].pc \in {"running", "finishing"}
        BY <2>11 DEF TransferFails, FinishAttempt, TransferSucceeds
      <3>2. \E pc \in {"done", "finishing", "applying"} : TaskGoes(y, pc)
        BY <2>11 DEF TransferFails, FinishAttempt, TransferSucceeds
      <3>3. z # y => task'[z] = task[z]
        BY <3>2, TaskFacts
      <3>4. \/ UNCHANGED status
            \/ status' = [status EXCEPT ![y].inProgress = FALSE]
            \/ status' = [status EXCEPT ![y].next = "later"]
            \/ status' = [status EXCEPT ![y].inProgress = FALSE, ![y].next = "later"]
        BY <2>11 DEF TransferFails, FinishAttempt, TransferSucceeds
      <3>5. status'[z].gen = status[z].gen
        BY <3>4, SameGens
      <3>6. z # y => status'[z] = status[z]
        BY <1>0, <3>4
      <3> QED BY <2>5, <2>7, <3>1, <3>3, <3>5, <3>6
    <2> QED BY <1>5, <2>8, <2>9, <2>10, <2>11 DEF Task
  <1> QED BY <1>4, <1>5

\* The steps of a reconciliation: a new plan or a new status is not the reservation's, and the
\* deadline that a restored copy brings is put off only with the catalog's request in hand.
LEMMA ReservationApply ==
  ASSUME TypeOK, ControlInv, HandedInv, ReservationInv, Apply
  PROVE  ReservationInv'
  <1> SUFFICES ASSUME admission', NEW z \in Zones, Suppresses(z)' PROVE Reserved(z)' \/ Coming(z)'
    BY DEF ReservationInv
  <1>0. /\ status \in [Zones -> Statuses] /\ task \in [Zones -> TaskStates] /\ plan \in [Zones -> Nat]
        /\ signal \in [Zones -> Signals] /\ apply \in ApplyStates /\ outer \in Seq(Requests)
        /\ used.plan \in Nat /\ used.gen \in Nat /\ Catalog \in Zones
    BY EmptyTypes DEF TypeOK
  <1>1. UNCHANGED <<pending, admission, rxOpen>> /\ admission /\ rxOpen
    BY DEF Apply, ApplyNext, ApplyRemoveStatus, ApplyRemoveSignal, ApplyInsertPlan,
           ApplyLoadingStart, ApplySend, ApplyEnds, ControlInv
  <1>2. /\ signal[z].token \in Nat /\ signal[z].plan \in Nat /\ signal[z].gen \in Nat
        /\ signal[z].plan <= used.plan /\ signal[z].gen <= used.gen
        /\ signal[z].token # 0 => signal[z].plan # 0
    BY <1>0 DEF Signals, HandedInv
  <1>3. ASSUME plan'[z] = plan[z], status'[z] = status[z], task'[z] = task[z], signal'[z] = signal[z],
               ToSet(outer) \subseteq ToSet(outer'),
               ToSet(outer) \cup apply.sends \subseteq ToSet(outer') \cup apply'.sends
        PROVE  Reserved(z)' \/ Coming(z)'
    <2>1. Suppresses(z)
      BY <1>3 DEF Suppresses
    <2>2. Reserved(z) \/ Coming(z)
      BY <1>1, <2>1 DEF ReservationInv
    <2>3. Reserved(z) => Reserved(z)'
      BY <1>1, <1>3 DEF Reserved
    <2>4. \A r \in Everywhere : r \in Everywhere'
      BY <1>1, <1>3 DEF Everywhere
    <2>5. Sought(z) => Sought(z)'
      BY <1>3, <2>4, SoughtStays
    <2>6. Coming(z) => Coming(z)'
      BY <1>3, <2>5, ComingStays
    <2> QED BY <2>2, <2>3, <2>6
  <1>4. CASE ApplyNext
    <2>1. PICK c \in apply.todo :
            /\ apply' = [apply EXCEPT !.zone = c.zone, !.what = c.what, !.todo = @ \ {c},
                      !.pc = IF c.what \in {"remove", "rename"} THEN "status" ELSE "insert"]
            /\ plan' = IF c.what \in {"remove", "rename"} THEN [plan EXCEPT ![c.zone] = 0] ELSE plan
      BY <1>4 DEF ApplyNext
    <2>2. apply'.sends = apply.sends /\ UNCHANGED <<status, signal, task, outer>>
      BY <1>0, <1>4, <2>1 DEF ApplyStates, ApplyNext
    <2>3. plan'[z] = plan[z] \/ plan'[z] = 0
      BY <1>0, <2>1
    <2>4. plan'[z] # 0
      BY <1>2, <2>2 DEF Suppresses
    <2> QED BY <1>3, <2>2, <2>3, <2>4
  <1>5. CASE ApplyRemoveStatus
    <2>1. /\ status' = [status EXCEPT ![apply.zone] = NoStatus] /\ apply' = [apply EXCEPT !.pc = "signal"]
          /\ UNCHANGED <<plan, task, outer, signal>>
      BY <1>5 DEF ApplyRemoveStatus
    <2>2. status'[z].gen # 0
      BY DEF Suppresses
    <2>3. status'[z] = status[z] /\ apply'.sends = apply.sends
      BY <1>0, <2>1, <2>2 DEF NoStatus, ApplyStates
    <2> QED BY <1>3, <2>1, <2>3
  <1>6. CASE ApplyRemoveSignal
    <2>1. /\ apply' = [apply EXCEPT !.pc = IF apply.what = "remove" THEN "next" ELSE "insert"]
          /\ signal' = [signal EXCEPT ![apply.zone] = NoSignal] /\ UNCHANGED <<status, plan, task, outer>>
      BY <1>6 DEF ApplyRemoveSignal
    <2>2. signal'[z].token # 0
      BY DEF Suppresses
    <2>3. signal'[z] = signal[z] /\ apply'.sends = apply.sends
      BY <1>0, <2>1, <2>2 DEF NoSignal, ApplyStates
    <2> QED BY <1>3, <2>1, <2>3
  <1>7. CASE ApplyInsertPlan
    <2>1. /\ UNCHANGED <<task, status, outer, signal>>
          /\ plan' = [plan EXCEPT ![apply.zone] = used.plan + 1]
          /\ apply' = [apply EXCEPT !.pc = IF apply.what = "policy" THEN "next" ELSE "loading",
                         !.sends = @ \cup {Request(apply.zone, "Catalog", used.plan + 1)}]
      BY <1>7 DEF ApplyInsertPlan
    <2>2. apply.sends \subseteq apply'.sends
      BY <1>0, <2>1 DEF ApplyStates
    <2>3. plan'[z] # used.plan + 1
      BY <1>0, <1>2, <2>1 DEF Suppresses
    <2>4. plan'[z] = plan[z]
      BY <1>0, <2>1, <2>3
    <2> QED BY <1>3, <2>1, <2>2, <2>4
  <1>8. CASE ApplyLoadingStart
    <2> DEFINE y == apply.zone
    <2>1. /\ apply' = [apply EXCEPT !.pc = "next"] /\ apply.pc = "loading"
          /\ UNCHANGED <<plan, task, outer, signal>>
      BY <1>8 DEF ApplyLoadingStart
    <2>2. apply'.sends = apply.sends
      BY <1>0, <2>1 DEF ApplyStates
    <2>3. PICK d : \/ UNCHANGED status
                   \/ status' = [status EXCEPT ![y].inProgress = FALSE, ![y].next = d]
                   \/ status' = [status EXCEPT ![y] = [gen |-> used.gen + 1, inProgress |-> FALSE,
                                                       next |-> d]]
      BY <1>8 DEF ApplyLoadingStart
    <2>4. status'[z].gen # used.gen + 1
      BY <1>0, <1>2, <2>1 DEF Suppresses
    <2>5. status'[z] = status[z] \/ (z = y /\ status' = [status EXCEPT ![y].inProgress = FALSE, ![y].next = d])
      BY <1>0, <2>3, <2>4
    <2>6. CASE status'[z] = status[z]
      BY <1>3, <2>1, <2>2, <2>6
    <2>7. CASE z = y /\ status' = [status EXCEPT ![y].inProgress = FALSE, ![y].next = d]
      <3>1. status'[z].gen = status[z].gen
        BY <2>7, SameGens
      <3>2. Suppresses(z)
        BY <2>1, <3>1 DEF Suppresses
      <3>3. Reserved(z) \/ Coming(z)
        BY <1>1, <3>2 DEF ReservationInv
      <3>4. Reserved(z) => Reserved(z)'
        BY <1>1, <2>1 DEF Reserved
      <3>5. Sought(z)
        BY <2>1, <2>7 DEF ControlInv, Sought
      <3>6. \A r \in Everywhere : r \in Everywhere'
        BY <1>1, <2>1, <2>2 DEF Everywhere
      <3>7. Sought(z)'
        BY <2>1, <3>1, <3>5, <3>6, SoughtStays
      <3>8. NotTransferring(z) => NotTransferring(z)'
        BY <2>1 DEF NotTransferring
      <3> QED BY <3>3, <3>4, <3>7, <3>8 DEF Coming
    <2> QED BY <2>5, <2>6, <2>7
  <1>9. CASE ApplySend
    <2>1. PICK r \in apply.sends :
            apply' = [apply EXCEPT !.sends = @ \ {r}] /\ outer' = Append(outer, r)
      BY <1>1, <1>9 DEF ApplySend
    <2>2. r \in Requests
      BY <1>0 DEF ApplyStates
    <2>3. ToSet(outer') = ToSet(outer) \cup {r}
      BY <1>0, <2>1, <2>2, AppendFacts
    <2>4. apply'.sends = apply.sends \ {r} /\ UNCHANGED <<plan, task, status, signal>>
      BY <1>0, <1>9, <2>1 DEF ApplyStates, ApplySend
    <2>5. ToSet(outer) \cup apply.sends \subseteq ToSet(outer') \cup apply'.sends
      BY <2>3, <2>4
    <2> QED BY <1>3, <2>3, <2>4, <2>5
  <1>10. CASE ApplyEnds
    <2>1. /\ apply.pc = "next" /\ apply.sends = {} /\ TaskGoes(Catalog, "finishing")
          /\ UNCHANGED <<plan, status, outer, signal>>
      BY <1>10 DEF ApplyEnds
    <2>2. z # Catalog => task'[z] = task[z]
      BY <1>0, <2>1, TaskFacts
    <2>3. CASE z # Catalog
      BY <1>3, <2>1, <2>2, <2>3
    <2>4. CASE z = Catalog
      <3>1. task[z].pc = "applying"
        BY <2>1, <2>4 DEF ControlInv
      <3>2. Suppresses(z) /\ ~Coming(z)
        BY <2>1, <3>1 DEF Suppresses, Coming, NotTransferring
      <3>3. Reserved(z)
        BY <1>1, <3>2 DEF ReservationInv
      <3> QED BY <1>1, <2>1, <3>3 DEF Reserved
    <2> QED BY <2>3, <2>4
  <1> QED BY <1>4, <1>5, <1>6, <1>7, <1>8, <1>9, <1>10 DEF Apply

\* A request that is received reserves from the pending queue, is merged with the one that holds
\* the zone's place, or is given up with its reservation; one of the catalog leaves a deadline.
LEMMA ReservationReceive ==
  ASSUME TypeOK, ControlInv, RetryInv, PendingKeysExact, ReservationInv, Receive
  PROVE  ReservationInv'
  <1> DEFINE r == Head(outer)
  <1> SUFFICES ASSUME admission', NEW z \in Zones, Suppresses(z)' PROVE Reserved(z)' \/ Coming(z)'
    BY DEF ReservationInv
  <1>0. /\ pending \in Seq(Requests) /\ Len(pending) \in Nat /\ Capacity \in Nat \ {0}
        /\ DOMAIN pending = 1 .. Len(pending) /\ ToSet(pending) = {pending[i] : i \in 1 .. Len(pending)}
        /\ \A i \in 1 .. Len(pending) : pending[i] \in Requests
    BY QueueAssumption DEF TypeOK, ToSet
  <1>1. Received
    BY DEF Receive, ReceiveObsolete, ReceiveFull, ReceiveSuperseded, ReceiveAdmit,
           ReceiveEvict, ReceiveMerge
  <1>2. /\ r \in Requests /\ r.zone \in Zones /\ ToSet(outer) = ToSet(outer') \cup {r}
        /\ UNCHANGED <<plan, task, apply, admission>> /\ admission
    BY <1>1, ReceivedFacts
  <1>3. /\ Committed(r) \in Requests /\ SameRequest(r, Committed(r))
        /\ r.retry = "Catalog" => Committed(r).retry = "Catalog"
    BY <1>2, CommittedType DEF SameRequest
  <1>4. SignalsKept /\ \A y \in Zones : status'[y].gen = status[y].gen
    BY ReceiveKeeps
  <1>5. Suppresses(z) /\ signal'[z].token = signal[z].token /\ signal[z].token # 0
    BY <1>2, <1>4, SuppressedBefore
  <1>6. Reserved(z) \/ Coming(z)
    BY <1>2, <1>5 DEF ReservationInv
  <1>7. \A q : SameRequest(q, q)
    BY DEF SameRequest
  <1> HIDE DEF r
  \* The step is sound for z if each request of z that reserves is still there in some form, and
  \* each current one of the catalog is or has left a deadline that has passed.
  <1>8. ASSUME status[z].next = "now" => status'[z].next = "now",
               \A q \in ToSet(pending) \cup {r} :
                 /\ q.zone = z /\ q.token = signal[z].token
                      => \E x \in ToSet(pending') : SameRequest(q, x)
                 /\ q.zone = z /\ RequestIsCurrent(q) /\ q.retry = "Catalog"
                      => \/ status'[z].next = "now"
                         \/ \E x \in ToSet(pending') : /\ x.zone = z /\ RequestIsCurrent(x)
                                                       /\ x.retry = "Catalog"
        PROVE  Reserved(z)' \/ Coming(z)'
    <2>1. Reserved(z) => Reserved(z)'
      <3>1. ASSUME NEW q \in ToSet(outer) \cup ToSet(pending), q.zone = z, q.token = signal[z].token
            PROVE  \E x \in ToSet(outer') \cup ToSet(pending') : SameRequest(q, x)
        BY <1>2, <1>7, <1>8, <3>1
      <3> QED BY <1>5, <3>1, ReservedStays
    <2>2. Sought(z) => Sought(z)' \/ status'[z].next = "now"
      <3> SUFFICES ASSUME Sought(z), status'[z].next # "now" PROVE Sought(z)'
        OBVIOUS
      <3>1. PICK q \in ToSet(outer) \cup ToSet(pending) \cup apply.sends :
              q.zone = z /\ RequestIsCurrent(q) /\ q.retry = "Catalog"
        BY DEF Sought
      <3>2. \E x \in Everywhere' : x.zone = z /\ RequestIsCurrent(x) /\ x.retry = "Catalog"
        BY <1>2, <1>8, <3>1 DEF Everywhere
      <3>3. PICK x \in Everywhere' : x.zone = z /\ RequestIsCurrent(x) /\ x.retry = "Catalog"
        BY <3>2
      <3>4. RequestIsCurrent(x)'
        BY <1>2, <1>4, <3>3, StaysCurrent
      <3> QED BY <3>3, <3>4, SoughtNow
    <2>3. Coming(z) => Coming(z)'
      BY <1>2, <1>4, <1>8, <2>2, ComingStays
    <2> QED BY <1>6, <2>1, <2>3
  \* what is dropped does not suppress any more, and leaves a deadline if it was the catalog's
  <1>9. ASSUME NEW q, signal' = RolledBack({q}), q.zone = z PROVE q.token # signal[z].token
    <2>1. signal'[z] # NoSignal
      BY <1>5 DEF NoSignal
    <2> QED BY <1>5, <1>9, <2>1, RolledBackFacts
  <1>10. ASSUME NEW q, status' = DeferredDrop({q})
         PROVE  /\ status[z].next = "now" => status'[z].next = "now"
                /\ q.zone = z /\ RequestIsCurrent(q) /\ q.retry = "Catalog" => status'[z].next = "now"
    <2>1. /\ status'[z].next \in {status[z].next, "now"}
          /\ (\E x \in {q} : x.zone = z /\ RequestIsCurrent(x) /\ x.retry = "Catalog")
               => status'[z].next = "now" \/ status[z].gen = 0
      BY <1>10, DeferredDropFacts
    <2>2. status[z].gen # 0
      BY <1>5 DEF Suppresses
    <2> QED BY <2>1, <2>2
  \* a request stands for itself
  <1>11. ASSUME NEW q, q \in ToSet(pending')
         PROVE  /\ \E x \in ToSet(pending') : SameRequest(q, x)
                /\ q.zone = z /\ RequestIsCurrent(q) /\ q.retry = "Catalog" =>
                     \E x \in ToSet(pending') : x.zone = z /\ RequestIsCurrent(x) /\ x.retry = "Catalog"
    BY <1>7, <1>11
  <1>12. CASE ReceiveObsolete
    <2>1. ~RequestIsCurrent(r) /\ signal' = RolledBack({r}) /\ UNCHANGED <<status, pending>>
      BY <1>12 DEF ReceiveObsolete, r
    <2> QED BY <1>8, <1>9, <1>11, <2>1
  <1>13. CASE ReceiveFull
    <2>1. signal' = RolledBack({r}) /\ status' = DeferredDrop({r}) /\ UNCHANGED pending
      BY <1>13 DEF ReceiveFull, Drop, r
    <2> QED BY <1>8, <1>9, <1>10, <1>11, <2>1
  <1>14. CASE ReceiveSuperseded
    <2>1. ~Commits(r) /\ UNCHANGED <<status, pending>>
      BY <1>14 DEF ReceiveSuperseded, r
    <2>2. r.retry = "none" /\ (r.zone = z => r.token # signal[z].token)
      BY <1>2, <2>1 DEF Commits, RetryInv
    <2> QED BY <1>8, <1>11, <2>1, <2>2
  \* an admitted form of the request stands for it
  <1>15. ASSUME NEW x \in ToSet(pending'), SameRequest(r, x),
                r.retry = "Catalog" => x.retry = "Catalog"
         PROVE  /\ \E p \in ToSet(pending') : SameRequest(r, p)
                /\ r.zone = z /\ RequestIsCurrent(r) /\ r.retry = "Catalog" =>
                     \E p \in ToSet(pending') : p.zone = z /\ RequestIsCurrent(p) /\ p.retry = "Catalog"
    BY <1>15 DEF SameRequest, RequestIsCurrent
  <1>16. CASE ReceiveAdmit
    <2>1. pending' = Append(pending, Committed(r)) /\ UNCHANGED status
      BY <1>16 DEF ReceiveAdmit, r
    <2>2. ToSet(pending') = ToSet(pending) \cup {Committed(r)}
      BY <1>0, <1>3, <2>1, AppendFacts
    <2>3. Committed(r) \in ToSet(pending')
      BY <2>2
    <2> QED BY <1>3, <1>8, <1>11, <1>15, <2>1, <2>2, <2>3
  <1>17. CASE ReceiveEvict
    <2>1. /\ IsFull /\ pending' = Append(Front(pending), Committed(r))
          /\ signal' = RolledBack({Last(pending)}) /\ status' = DeferredDrop({Last(pending)})
      BY <1>17 DEF ReceiveEvict, Drop, r
    <2>2. pending # <<>>
      BY <1>0, <2>1 DEF IsFull
    <2>3. /\ Front(pending) \in Seq(Requests)
          /\ ToSet(pending) = ToSet(Front(pending)) \cup {Last(pending)}
      BY <1>0, <2>2, FrontFacts
    <2>4. ToSet(pending') = ToSet(Front(pending)) \cup {Committed(r)}
      BY <1>3, <2>1, <2>3, AppendFacts
    <2>5. Committed(r) \in ToSet(pending') /\ \A q \in ToSet(pending) : q = Last(pending) \/ q \in ToSet(pending')
      BY <2>3, <2>4
    <2> QED BY <1>3, <1>8, <1>9, <1>10, <1>11, <1>15, <2>1, <2>5
  <1>18. CASE ReceiveMerge
    <2>1. RequestIsCurrent(r) /\ Queued(r.zone) /\ Commits(r)
      BY <1>18, MergeFacts, Zenon DEF r
    <2>2. ASSUME \A i \in 1 .. Len(pending) : pending[i].zone # r.zone PROVE FALSE
      <3>1. pendingKeys = {q.zone : q \in ToSet(pending)}
        BY <1>2 DEF PendingKeysExact
      <3> QED BY <1>0, <2>1, <2>2, <3>1 DEF Queued
    <2>3. ASSUME NEW i \in 1 .. Len(pending), NEW x \in Requests, pending' = [pending EXCEPT ![i] = x]
          PROVE  /\ x \in ToSet(pending')
                 /\ \A q \in ToSet(pending) : q = pending[i] \/ q \in ToSet(pending')
      BY <1>0, <2>3, ReplaceFacts
    <2>4. ASSUME NEW i \in 1 .. Len(pending), pending[i].zone = r.zone,
                 pending' = [pending EXCEPT ![i] = Merged(pending[i], Committed(r))],
                 signal' = TakenOver(pending[i], r), UNCHANGED status
          PROVE  Reserved(z)' \/ Coming(z)'
      <3> DEFINE old == pending[i]
                 x == Merged(old, Committed(r))
      <3>1. /\ x \in Requests /\ SameRequest(r, x)
            /\ old.retry = "Catalog" \/ r.retry = "Catalog" => x.retry = "Catalog"
        BY <1>0, <1>3, MergedType DEF SameRequest
      <3>2. x \in ToSet(pending') /\ \A q \in ToSet(pending) : q = old \/ q \in ToSet(pending')
        BY <2>3, <2>4, <3>1
      <3>3. r.token = 0 /\ old.token # 0 /\ old.token = signal[r.zone].token
              => TakenOver(old, r)[r.zone].seen
        BY <1>0, <1>2, TakenOverFacts
      <3> HIDE DEF x
      <3>4. old.zone = z /\ old.token = signal[z].token => r.token = signal[z].token
        <4> SUFFICES ASSUME old.zone = z, old.token = signal[z].token, r.token # signal[z].token
                     PROVE  FALSE
          OBVIOUS
        <4>1. r.zone = z /\ r.token = 0 /\ old.token # 0
          BY <1>5, <2>1, <2>4 DEF Commits
        <4>2. signal'[z].seen
          BY <2>4, <3>3, <4>1
        <4> QED BY <4>2 DEF Suppresses
      <3>5. RequestIsCurrent(x)
        BY <2>1, <3>1 DEF SameRequest, RequestIsCurrent
      <3>6. ASSUME old.zone = z, old.token = signal[z].token PROVE \E p \in ToSet(pending') : p.zone = z /\ p.token = signal[z].token
        BY <2>4, <3>1, <3>2, <3>4, <3>6 DEF SameRequest
      \* the reservation of the old request is the new one's, which has the same token
      <3>7. Reserved(z) => Reserved(z)'
        <4> SUFFICES ASSUME NEW q \in ToSet(outer) \cup ToSet(pending), q.zone = z, q.token = signal[z].token
                     PROVE  \E p \in ToSet(outer') \cup ToSet(pending') : p.zone = z /\ p.token = signal[z].token
          BY <1>5 DEF Reserved
        <4>1. CASE q = old
          BY <3>6, <4>1
        <4>2. CASE q = r
          BY <3>1, <3>2, <4>2 DEF SameRequest
        <4>3. CASE q # old /\ q # r
          BY <1>2, <3>2, <4>3
        <4> QED BY <4>1, <4>2, <4>3
      <3>8. Sought(z) => Sought(z)'
        <4>1. SUFFICES ASSUME Sought(z) PROVE Sought(z)'
          OBVIOUS
        <4>2. PICK q \in ToSet(outer) \cup ToSet(pending) \cup apply.sends :
                q.zone = z /\ RequestIsCurrent(q) /\ q.retry = "Catalog"
          BY <4>1 DEF Sought
        <4>3. \E p \in Everywhere' : p.zone = z /\ RequestIsCurrent(p) /\ p.retry = "Catalog"
          <5>1. CASE q = old \/ q = r
            BY <2>4, <3>1, <3>2, <3>5, <4>2, <5>1 DEF Everywhere, SameRequest
          <5>2. CASE q # old /\ q # r
            BY <1>2, <3>2, <4>2, <5>2 DEF Everywhere
          <5> QED BY <5>1, <5>2
        <4>4. PICK p \in Everywhere' : p.zone = z /\ RequestIsCurrent(p) /\ p.retry = "Catalog"
          BY <4>3
        <4>5. RequestIsCurrent(p)'
          BY <1>2, <1>4, <4>4, StaysCurrent
        <4> QED BY <4>4, <4>5, SoughtNow
      <3>9. Coming(z) => Coming(z)'
        BY <1>2, <2>4, <3>8, ComingStays
      <3> QED BY <1>6, <3>7, <3>9
    <2>5. ASSUME NEW i \in 1 .. Len(pending), pending[i].plan < r.plan, pending[i].zone = r.zone,
                 pending' = [pending EXCEPT ![i] = Committed(r)], Drop(pending[i])
          PROVE  Reserved(z)' \/ Coming(z)'
      <3> DEFINE old == pending[i]
      <3>1. Committed(r) \in ToSet(pending') /\ \A q \in ToSet(pending) : q = old \/ q \in ToSet(pending')
        BY <1>3, <2>3, <2>5
      <3>2. signal' = RolledBack({old}) /\ status' = DeferredDrop({old})
        BY <2>5 DEF Drop
      <3> HIDE DEF old
      <3> QED BY <1>3, <1>8, <1>9, <1>10, <1>11, <1>15, <3>1, <3>2
    <2>6. ASSUME UNCHANGED pending, Drop(Committed(r)) PROVE Reserved(z)' \/ Coming(z)'
      <3> DEFINE q == Committed(r)
      <3>1. signal' = RolledBack({q}) /\ status' = DeferredDrop({q})
        BY <2>6 DEF Drop
      <3>2. q.zone = r.zone /\ q.token = r.token /\ (r.retry = "Catalog" => q.retry = "Catalog")
            /\ RequestIsCurrent(q)
        BY <1>3, <2>1 DEF SameRequest, RequestIsCurrent
      <3> HIDE DEF q
      <3>3. /\ status[z].next = "now" => status'[z].next = "now"
            /\ q.zone = z => q.token # signal[z].token
            /\ q.zone = z /\ q.retry = "Catalog" => status'[z].next = "now"
        BY <1>9, <1>10, <3>1, <3>2
      <3> QED BY <1>8, <1>11, <2>6, <3>2, <3>3
    <2> QED BY <1>18, <2>2, <2>4, <2>5, <2>6, MergeFacts, Zenon DEF r
  <1> QED BY <1>12, <1>13, <1>14, <1>16, <1>17, <1>18 DEF Receive

\* Every step keeps the reservations backed.
LEMMA NextReservation ==
  ASSUME TypeOK, ControlInv, RetryInv, PendingKeysExact, HandedInv, ReservationInv, [Next]_vars
  PROVE  ReservationInv'
  <1>1. CASE CloseAdmission
    BY <1>1 DEF CloseAdmission, ReservationInv
  <1>2. CASE UNCHANGED vars
    <2>1. UNCHANGED <<plan, task, apply, status, signal, outer, pending, admission>>
      BY <1>2 DEF vars
    <2>2. SignalsKept /\ Everywhere \subseteq Everywhere'
      BY <2>1 DEF SignalsKept, Everywhere
    <2> QED BY <2>1, <2>2, ReservationCalm
  <1>3. ASSUME NEW z \in Zones, Task(z) \/ Interrupt(z) \/ SecretsReloaded(z) PROVE ReservationInv'
    BY <1>3, ReservationTask
  <1> QED BY <1>1, <1>2, <1>3, ReservationIncoming, ReservationScan, ReservationReceive,
             ReservationApply, Zenon DEF Next

\* There is no reservation when the program starts.
LEMMA InitReservation == Init => HandedInv /\ ReservationInv
  <1> SUFFICES ASSUME Init PROVE HandedInv /\ ReservationInv
    OBVIOUS
  <1>1. PICK next \in {"none", "later", "now"} :
          status = [z \in Zones |-> IF z = Catalog THEN [NoStatus EXCEPT !.gen = 1, !.next = next]
                                    ELSE NoStatus]
    BY DEF Init
  <1>2. \A z \in Zones : status[z].gen \in {0, 1} /\ plan[z] \in {0, 1} /\ signal[z] = NoSignal
    BY <1>1 DEF Init, NoStatus
  <1>3. used.plan = 1 /\ used.gen = 1 /\ used.token = 0 /\ notify.plan = 0 /\ notify.zone = NoZone
    BY DEF Init
  <1>4. ToSet(outer) = {} /\ ToSet(pending) = {}
    BY DEF Init, ToSet
  <1> QED BY <1>2, <1>3, <1>4 DEF HandedInv, ReservationInv, Suppresses, NoSignal

(***************************************************************************)
(* The theorems.                                                           *)
(***************************************************************************)

\* What every state of the queues satisfies.
QueueInv ==
  /\ TypeOK /\ ControlInv /\ StatusInv /\ RetryInv /\ PendingKeysExact /\ MarkInv
  /\ HandedInv /\ ReservationInv

\* QueueInv is inductive, whatever the order of the dispatcher, the tasks and the reconciliation.
THEOREM QueuesCorrect == Spec => []QueueInv
  <1>1. Init => QueueInv
    BY InitType, InitControl, InitMark, InitReservation DEF QueueInv
  <1>2. QueueInv /\ [Next]_vars => QueueInv'
    <2> SUFFICES ASSUME QueueInv, [Next]_vars PROVE QueueInv'
      OBVIOUS
    <2>1. TypeOK'
      BY NextType DEF QueueInv
    <2> QED BY <2>1, NextControl, NextStatus, NextRetry, NextKeys, NextMark, NextHanded,
               NextReservation DEF QueueInv
  <1> QED BY <1>1, <1>2, PTL DEF Spec

\* Both queues stay within NOTIFY_REFRESH_QUEUE_CAPACITY and all the state within its types.
THEOREM TypeCorrect == Spec => []TypeOK
  <1>1. QueueInv => TypeOK
    BY DEF QueueInv
  <1> QED BY <1>1, QueuesCorrect, PTL

\* pending_keys and pending_requests agree whenever the dispatcher may look a zone up.
THEOREM KeysAgree == Spec => []PendingKeysExact
  <1>1. QueueInv => PendingKeysExact
    BY DEF QueueInv
  <1> QED BY <1>1, QueuesCorrect, PTL

\* No zone is left marked in progress with nobody to take the mark back.
THEOREM MarksBacked == Spec => []InProgressBacked
  <1>1. QueueInv => InProgressBacked
    <2> SUFFICES ASSUME QueueInv, admission, NEW z \in Zones, status[z].inProgress PROVE OnTheWay(z)
      BY DEF InProgressBacked
    <2>1. Holds(z)
      BY DEF QueueInv, MarkInv
    <2> QED BY <2>1 DEF Holds, Asked, Attempted, Replanned, OnTheWay
  <1> QED BY <1>1, QueuesCorrect, PTL

\* No reservation goes on suppressing NOTIFYs of a zone for which no attempt is on its way.
THEOREM ReservationsBacked == Spec => []SuppressionBacked
  <1>1. QueueInv => SuppressionBacked
    <2> SUFFICES ASSUME QueueInv, admission, NEW z \in Zones, Suppresses(z)
                 PROVE  OnTheWay(z) \/ status[z].next = "now"
      BY DEF SuppressionBacked, Suppresses
    <2>1. Reserved(z) \/ Coming(z)
      BY DEF QueueInv, ReservationInv
    <2>2. ASSUME Reserved(z) PROVE OnTheWay(z)
      <3>1. PICK r \in ToSet(outer) \cup ToSet(pending) : r.zone = z /\ r.token = signal[z].token
        BY <2>2 DEF Reserved
      <3>2. r.token # 0 /\ r.plan = signal[z].plan /\ r.ngen = signal[z].gen /\ signal[z].plan # 0
        BY <3>1 DEF QueueInv, HandedInv, Suppresses
      <3>3. RequestIsCurrent(r)
        BY <3>1, <3>2 DEF Suppresses, RequestIsCurrent, IsCurrent
      <3> QED BY <3>1, <3>3 DEF OnTheWay
    <2>3. ASSUME Coming(z) PROVE OnTheWay(z) \/ status[z].next = "now"
      BY <2>3 DEF Coming, Starting, Sought, OnTheWay
    <2> QED BY <2>1, <2>2, <2>3
  <1> QED BY <1>1, QueuesCorrect, PTL
=============================================================================
