--------------------------- MODULE ZoneStoreProofs ---------------------------
(***************************************************************************)
(* The zone directory for any origins, transfers, serial space and bound   *)
(* on addresses: publications prepared from an older entry never undo a    *)
(* decision about visibility, bring back a removed incarnation, attach an  *)
(* image to the wrong snapshot or take a zone back to an older serial; the *)
(* counters, the suffix index and the short list describe the same zones,  *)
(* so that every lookup is the longest visible match.                      *)
(*                                                                         *)
(* The theorems have Parameters as a hypothesis, which TLC evaluates for   *)
(* the instances of MCZones.                                               *)
(***************************************************************************)
EXTENDS ZoneStore, FiniteSetTheorems, WellFoundedInduction, TLAPS

-----------------------------------------------------------------------------
(* A sequence of changes, one after the other.                             *)

\* Every non-empty set of natural numbers has a least element.
LEMMA Least ==
    ASSUME NEW T, T \subseteq Nat, T # {}
    PROVE  \E n \in T : \A k \in T : n <= k
  <1>1. IsWellFoundedOn(OpToRel(<, Nat), Nat) BY NatLessThanWellFounded
  <1>2. PICK n \in T : \A k \in T : ~(<<k, n>> \in OpToRel(<, Nat)) BY <1>1, WFMin
  <1>3. \A k \in T : ~(k < n) BY <1>2 DEF OpToRel
  <1> QED BY <1>3

\* A set of natural numbers with 0 that is closed under successor is all of them.
LEMMA SetInduction ==
    ASSUME NEW P, 0 \in P, \A n \in Nat : n \in P => n + 1 \in P
    PROVE  \A n \in Nat : n \in P
  <1> SUFFICES ASSUME NEW m \in Nat, m \notin P PROVE FALSE OBVIOUS
  <1> DEFINE T == {n \in Nat : n \notin P}
  <1>1. PICK n \in T : \A k \in T : n <= k BY Least
  <1>2. n - 1 \in Nat /\ n - 1 < n BY <1>1
  <1>3. n - 1 \in P BY <1>1, <1>2
  <1>4. (n - 1) + 1 \in P BY <1>2, <1>3
  <1>5. (n - 1) + 1 = n BY <1>1
  <1> QED BY <1>1, <1>4, <1>5

\* A non-empty set of indices has a greatest one, and Max picks it.
LEMMA MaxOf ==
    ASSUME NEW n \in Nat, NEW s \in SUBSET (1 .. n), s # {}
    PROVE  Max(s) \in s /\ \A y \in s : Max(s) >= y
  <1> DEFINE T == {k \in Nat : \A y \in s : k >= y}
  <1>1. n \in T OBVIOUS
  <1>2. PICK k \in T : \A j \in T : k <= j BY <1>1, Least
  <1>3. k \in s
    <2> SUFFICES ASSUME k \notin s PROVE FALSE OBVIOUS
    <2>1. \A y \in s : y \in Int /\ k >= y /\ y # k BY <1>2
    <2>2. \A y \in s : k - 1 >= y BY <1>2, <2>1
    <2>6. PICK y \in s : TRUE OBVIOUS
    <2>3. y \in Nat /\ y >= 1 OBVIOUS
    <2>4. k - 1 \in Nat BY <1>2, <2>2, <2>3
    <2>5. k - 1 \in T BY <2>2, <2>4
    <2> QED BY <1>2, <2>5
  <1>4. \E x \in s : \A y \in s : x >= y BY <1>2, <1>3
  <1> QED BY <1>4 DEF Max

(* g folds the changes at the indices of each set of D, the highest last.   *)
IsFold(g, acc, cs, D) ==
    g = [s \in D |-> IF s = {} THEN acc ELSE Change(g[s \ {Max(s)}], cs[Max(s)])]

SmallSubsets(S, n) == {s \in SUBSET S : Cardinality(s) <= n}

\* The fold over the sets of up to n indices extends to those of up to n + 1.
LEMMA FoldExtends ==
    ASSUME NEW acc, NEW cs, NEW m \in Nat, NEW n \in Nat,
           NEW g, IsFold(g, acc, cs, SmallSubsets(1 .. m, n))
    PROVE  \E h : IsFold(h, acc, cs, SmallSubsets(1 .. m, n + 1))
  <1> DEFINE S == 1 .. m
  <1>0. \A s \in SUBSET S : IsFiniteSet(s) /\ Cardinality(s) \in Nat
    <2>1. IsFiniteSet(S)
      <3>1. 1 \in Int /\ m \in Int OBVIOUS
      <3> QED BY <3>1, FS_Interval
    <2> QED BY <2>1, FS_Subset, FS_CardinalityType
  <1> DEFINE D == SmallSubsets(S, n)
             E == SmallSubsets(S, n + 1)
             h == [s \in E |-> IF s = {} THEN acc ELSE Change(g[s \ {Max(s)}], cs[Max(s)])]
  <1> HIDE DEF h
  <1>1. ASSUME NEW s \in E, s # {} PROVE s \ {Max(s)} \in D
    <2>1. s \in SUBSET S /\ Cardinality(s) <= n + 1 BY <1>1 DEF SmallSubsets
    <2>3. Max(s) \in s BY <1>1, <2>1, MaxOf
    <2>4. IsFiniteSet(s) /\ Cardinality(s) \in Nat BY <2>1, <1>0
    <2>2. Cardinality(s \ {Max(s)}) = Cardinality(s) - 1 BY <2>3, <2>4, FS_RemoveElement
    <2>5. Cardinality(s \ {Max(s)}) <= n BY <2>1, <2>2, <2>4
    <2>6. s \ {Max(s)} \in SUBSET S BY <2>1
    <2> HIDE DEF S
    <2> QED BY <2>5, <2>6 DEF SmallSubsets
  <1>4. D \subseteq E
    <2> SUFFICES ASSUME NEW s \in D PROVE s \in E OBVIOUS
    <2>1. s \in SUBSET S /\ Cardinality(s) <= n BY DEF SmallSubsets
    <2>2. Cardinality(s) \in Nat BY <2>1, <1>0
    <2> QED BY <2>1, <2>2 DEF SmallSubsets
  <1>9. g = [s \in D |-> IF s = {} THEN acc ELSE Change(g[s \ {Max(s)}], cs[Max(s)])]
    BY DEF IsFold
  <1> HIDE DEF D, E
  <1>5. \A s \in D : h[s] = g[s]
    <2> SUFFICES ASSUME NEW s \in D PROVE h[s] = g[s] OBVIOUS
    <2>1. g[s] = IF s = {} THEN acc ELSE Change(g[s \ {Max(s)}], cs[Max(s)]) BY <1>9
    <2>2. h[s] = IF s = {} THEN acc ELSE Change(g[s \ {Max(s)}], cs[Max(s)]) BY <1>4 DEF h
    <2> QED BY <2>1, <2>2
  <1>6. \A s \in E : h[s] = IF s = {} THEN acc ELSE Change(h[s \ {Max(s)}], cs[Max(s)])
    <2> SUFFICES ASSUME NEW s \in E, s # {} PROVE h[s] = Change(h[s \ {Max(s)}], cs[Max(s)])
      BY DEF h
    <2>1. h[s \ {Max(s)}] = g[s \ {Max(s)}] BY <1>1, <1>5
    <2>2. h[s] = Change(g[s \ {Max(s)}], cs[Max(s)]) BY DEF h
    <2> QED BY <2>1, <2>2
  <1>7. h = [s \in E |-> h[s]] BY DEF h
  <1>8. h = [s \in E |-> IF s = {} THEN acc ELSE Change(h[s \ {Max(s)}], cs[Max(s)])]
    BY <1>6, <1>7
  <1> QED BY <1>8 DEF IsFold, E

\* The fold exists over all sets of indices.
LEMMA FoldExists ==
    ASSUME NEW acc, NEW cs, NEW m \in Nat
    PROVE  \E g : IsFold(g, acc, cs, SUBSET (1 .. m))
  <1> DEFINE S == 1 .. m
             P == {n \in Nat : \E g : IsFold(g, acc, cs, SmallSubsets(S, n))}
  <1>0. IsFiniteSet(S)
    <2>1. 1 \in Int /\ m \in Int OBVIOUS
    <2> QED BY <2>1, FS_Interval
  <1>1. 0 \in P
    <2>1. \A s \in SmallSubsets(S, 0) : s = {}
      <3> SUFFICES ASSUME NEW s \in SUBSET S, Cardinality(s) <= 0 PROVE s = {}
        BY DEF SmallSubsets
      <3>1. IsFiniteSet(s) BY <1>0, FS_Subset
      <3> QED BY <3>1, FS_CardinalityType, FS_EmptySet
    <2> DEFINE g == [s \in SmallSubsets(S, 0) |-> acc]
    <2>2. g = [s \in SmallSubsets(S, 0) |->
                 IF s = {} THEN acc ELSE Change(g[s \ {Max(s)}], cs[Max(s)])]
      BY <2>1
    <2> QED BY <2>2 DEF IsFold
  <1>2. \A n \in Nat : n \in P => n + 1 \in P BY FoldExtends
  <1>3. \A n \in Nat : n \in P BY <1>1, <1>2, SetInduction
  <1>4. Cardinality(S) \in Nat BY <1>0, FS_CardinalityType
  <1>5. SmallSubsets(S, Cardinality(S)) = SUBSET S BY <1>0, FS_Subset DEF SmallSubsets
  <1>6. Cardinality(S) \in P BY <1>3, <1>4
  <1> QED BY <1>5, <1>6

(* p[k] is what the first k changes make of acc.                            *)
IsCourse(p, acc, cs, n) ==
    /\ p[0] = acc
    /\ \A k \in 1 .. n : p[k] = Change(p[k - 1], cs[k])

\* Changed is the last of them.
LEMMA ChangedCourse ==
    ASSUME NEW acc, NEW cs, NEW m \in Nat, DOMAIN cs = 1 .. m
    PROVE  \E p : IsCourse(p, acc, cs, m) /\ Changed(acc, cs) = p[m]
  <1> DEFINE S == 1 .. m
             i == CHOOSE x : x = [s \in SUBSET S |->
                        IF s = {} THEN acc ELSE Change(x[s \ {Max(s)}], cs[Max(s)])]
  <1>1. \E x : x = [s \in SUBSET S |->
                        IF s = {} THEN acc ELSE Change(x[s \ {Max(s)}], cs[Max(s)])]
    <2>1. PICK g : IsFold(g, acc, cs, SUBSET S) BY FoldExists
    <2>2. g = [s \in SUBSET S |-> IF s = {} THEN acc ELSE Change(g[s \ {Max(s)}], cs[Max(s)])]
      BY <2>1 DEF IsFold
    <2> QED BY <2>2
  <1>2. i = [s \in SUBSET S |-> IF s = {} THEN acc ELSE Change(i[s \ {Max(s)}], cs[Max(s)])]
    BY <1>1
  <1>3. Changed(acc, cs) = i[S] BY DEF Changed, FoldLeft, MapThenFoldSet
  <1> HIDE DEF i
  <1>4. \A s \in SUBSET S : i[s] = IF s = {} THEN acc ELSE Change(i[s \ {Max(s)}], cs[Max(s)])
    BY <1>2
  <1> DEFINE p == [k \in 0 .. m |-> i[1 .. k]]
  <1>5. p[0] = acc
    <2>1. 1 .. 0 = {} /\ 0 \in 0 .. m OBVIOUS
    <2> QED BY <1>4, <2>1
  <1>6. ASSUME NEW k \in 1 .. m PROVE p[k] = Change(p[k - 1], cs[k])
    <2>1. k \in Nat /\ k \in 1 .. k /\ k \in 0 .. m /\ k - 1 \in 0 .. m /\ 1 .. k \in SUBSET S
      OBVIOUS
    <2> DEFINE s == 1 .. k
    <2>2. s \in SUBSET (1 .. m) /\ s # {} BY <2>1
    <2> HIDE DEF s
    <2>3. Max(s) \in s /\ \A y \in s : Max(s) >= y BY <2>2, MaxOf
    <2>4. Max(s) = k BY <2>1, <2>3 DEF s
    <2>5. s \ {k} = 1 .. (k - 1) BY <2>1 DEF s
    <2>6. i[s] = Change(i[s \ {Max(s)}], cs[Max(s)]) BY <1>4, <2>2
    <2>7. i[1 .. k] = Change(i[1 .. (k - 1)], cs[k]) BY <2>4, <2>5, <2>6 DEF s
    <2> QED BY <2>1, <2>7
  <1>7. Changed(acc, cs) = p[m] BY <1>3
  <1> HIDE DEF p
  <1> QED BY <1>5, <1>6, <1>7 DEF IsCourse

-----------------------------------------------------------------------------
(* What the directory holds.  n addresses and i incarnations were given     *)
(* out; an incarnation belongs to one zone.                                 *)

EntryType(z, n, i) ==
    [origin : {z}, id : 1 .. n, state : {"Loading", "Active", "Expired"},
     serial : 0 .. Serials, snap : [id : 1 .. n, inc : 1 .. i],
     img : [id : 0 .. n, inc : 0 .. i], overlay : BOOLEAN, hidden : BOOLEAN, inc : 1 .. i]

OwnImage(e) ==
    /\ e.snap.inc = e.inc
    /\ (e.img.id # None) = (e.state = "Active")
    /\ e.state = "Active" => e.img.inc = e.inc /\ (e.overlay <=> e.img # e.snap)

SoundEntry(e, z, n, i) == e \in EntryType(z, n, i) /\ OwnImage(e)

SoundDirectory(by, n, i) ==
    /\ n \in Nat /\ i \in Nat
    /\ by = [z \in DOMAIN by |-> by[z]] /\ DOMAIN by \subseteq Origins
    /\ \A z \in DOMAIN by : SoundEntry(by[z], z, n, i)
    /\ \A y, z \in DOMAIN by : by[y].inc = by[z].inc => y = z

(* What a change of the directory may do to a zone: an entry that is not    *)
(* the old one has a new address; its incarnation is the old one or new;    *)
(* its serial is the old one or none.                                       *)
Succeeds(new, z, by, n, i) ==
    /\ (z \in DOMAIN by /\ new = by[z]) \/ new.id > n
    /\ (z \in DOMAIN by /\ new.inc = by[z].inc) \/ new.inc > i
    /\ (z \in DOMAIN by /\ new.serial = by[z].serial) \/ new.serial = NoSerial

Grown(by, n, i, byN, nN, iN) ==
    /\ nN >= n /\ iN >= i
    /\ SoundDirectory(byN, nN, iN)
    /\ \A z \in DOMAIN byN : Succeeds(byN[z], z, by, n, i)

\* More addresses and incarnations leave a sound entry sound.
LEMMA SoundEntryMono ==
    ASSUME NEW e, NEW z, NEW n \in Nat, NEW i \in Nat, NEW m \in Nat, NEW j \in Nat,
           SoundEntry(e, z, n, i), n <= m, i <= j
    PROVE  SoundEntry(e, z, m, j)
  <1>1. 1 .. n \subseteq 1 .. m /\ 0 .. n \subseteq 0 .. m OBVIOUS
  <1>2. 1 .. i \subseteq 1 .. j /\ 0 .. i \subseteq 0 .. j OBVIOUS
  <1>3. e \in EntryType(z, n, i) BY DEF SoundEntry
  <1>4. /\ e.snap \in [id : 1 .. m, inc : 1 .. j]
        /\ e.img \in [id : 0 .. m, inc : 0 .. j]
    BY <1>1, <1>2, <1>3 DEF EntryType
  <1>5. e \in EntryType(z, m, j) BY <1>1, <1>2, <1>3, <1>4 DEF EntryType
  <1> QED BY <1>5 DEF SoundEntry

\* What is in the directory has an address.
LEMMA GetFacts ==
    ASSUME NEW d, NEW z, NEW n, NEW i, SoundDirectory(d.by, n, i)
    PROVE  /\ (Get(d, z).id = None) <=> (z \notin DOMAIN d.by)
           /\ z \in DOMAIN d.by => Get(d, z) = d.by[z] /\ SoundEntry(d.by[z], z, n, i)
           /\ z \notin DOMAIN d.by => Get(d, z) = NoEntry
  <1>1. z \in DOMAIN d.by => d.by[z].id \in 1 .. n
    BY DEF SoundDirectory, SoundEntry, EntryType
  <1> QED BY <1>1 DEF SoundDirectory, Get, NoEntry, None

\* Putting in an entry with a new address that succeeds what is there.
LEMMA PutGrows ==
    ASSUME NEW by, NEW n, NEW i, NEW m \in Nat, NEW j \in Nat, NEW e, NEW z \in Origins,
           SoundDirectory(by, n, i), n < m, i <= j,
           SoundEntry(e, z, m, j), Succeeds(e, z, by, n, i)
    PROVE  Grown(by, n, i, Put(by, z, e), m, j)
  <1> DEFINE byN == Put(by, z, e)
  <1>0. n \in Nat /\ i \in Nat BY DEF SoundDirectory
  <1>1. /\ byN = [x \in DOMAIN byN |-> byN[x]] /\ DOMAIN byN = DOMAIN by \cup {z}
        /\ byN[z] = e /\ \A x \in DOMAIN by : x # z => byN[x] = by[x]
    BY DEF Put
  <1> HIDE DEF byN
  <1>2. DOMAIN byN \subseteq Origins BY <1>1 DEF SoundDirectory
  <1>3. \A x \in DOMAIN by : SoundEntry(by[x], x, m, j)
    BY <1>0, SoundEntryMono DEF SoundDirectory
  <1>4. \A x \in DOMAIN byN : SoundEntry(byN[x], x, m, j) BY <1>1, <1>3
  <1>5. \A x \in DOMAIN by : by[x].inc \in 1 .. i
    BY DEF SoundDirectory, SoundEntry, EntryType
  <1>6. \A x, y \in DOMAIN byN : byN[x].inc = byN[y].inc => x = y
    <2>1. e.inc > i \/ (z \in DOMAIN by /\ e.inc = by[z].inc) BY DEF Succeeds
    <2>2. e.inc \in Nat BY DEF SoundEntry, EntryType
    <2>3. \A x, y \in DOMAIN by : by[x].inc = by[y].inc => x = y BY DEF SoundDirectory
    <2>4. \A x \in DOMAIN by : x # z => e.inc # by[x].inc
      <3> SUFFICES ASSUME NEW x \in DOMAIN by, x # z, e.inc = by[x].inc PROVE FALSE OBVIOUS
      <3>1. ~(e.inc > i) BY <1>0, <1>5
      <3> QED BY <2>1, <2>3, <3>1
    <2> QED BY <1>1, <2>3, <2>4
  <1>7. SoundDirectory(byN, m, j) BY <1>1, <1>2, <1>4, <1>6 DEF SoundDirectory
  <1>8. \A x \in DOMAIN byN : Succeeds(byN[x], x, by, n, i) BY <1>1 DEF Succeeds
  <1>9. m >= n /\ j >= i BY <1>0
  <1> QED BY <1>7, <1>8, <1>9 DEF Grown, byN

OnlyDrops(by, z, byN) ==
    /\ DOMAIN byN = DOMAIN by \ {z}
    /\ \A y \in DOMAIN by \ {z} : byN[y] = by[y]

\* An entry that is put in replaces the one of its origin.
LEMMA InsertBy ==
    ASSUME NEW d, NEW e
    PROVE  DirInsert(d, e).by = Put(d.by, e.origin, e)
  BY DEF DirInsert

\* Taking a zone out.
LEMMA RemoveGrows ==
    ASSUME NEW d, NEW n, NEW i, NEW z, SoundDirectory(d.by, n, i)
    PROVE  /\ Grown(d.by, n, i, DirRemove(d, z).by, n, i)
           /\ OnlyDrops(d.by, z, DirRemove(d, z).by)
  <1> DEFINE byN == DirRemove(d, z).by
  <1>1. /\ byN = [x \in DOMAIN byN |-> byN[x]] /\ DOMAIN byN = DOMAIN d.by \ {z}
        /\ \A x \in DOMAIN byN : byN[x] = d.by[x]
    BY DEF DirRemove, Drop, SoundDirectory
  <1> HIDE DEF byN
  <1>2. SoundDirectory(byN, n, i) BY <1>1 DEF SoundDirectory
  <1>3. \A x \in DOMAIN byN : Succeeds(byN[x], x, d.by, n, i) BY <1>1 DEF Succeeds
  <1>4. n >= n /\ i >= i BY DEF SoundDirectory
  <1>5. Grown(d.by, n, i, byN, n, i) BY <1>2, <1>3, <1>4 DEF Grown
  <1>6. OnlyDrops(d.by, z, byN) BY <1>1 DEF OnlyDrops
  <1> QED BY <1>5, <1>6 DEF byN

\* One change after another.
LEMMA GrownTrans ==
    ASSUME NEW a, NEW n, NEW i, NEW b, NEW m, NEW j, NEW c, NEW k, NEW l,
           SoundDirectory(a, n, i), Grown(a, n, i, b, m, j), Grown(b, m, j, c, k, l)
    PROVE  Grown(a, n, i, c, k, l)
  <1>1. n \in Nat /\ i \in Nat /\ m \in Nat /\ j \in Nat /\ k \in Nat /\ l \in Nat
    BY DEF Grown, SoundDirectory
  <1>2. k >= n /\ l >= i BY <1>1 DEF Grown
  <1>3. ASSUME NEW z \in DOMAIN c PROVE Succeeds(c[z], z, a, n, i)
    <2>1. Succeeds(c[z], z, b, m, j) BY DEF Grown
    <2>2. z \in DOMAIN b => Succeeds(b[z], z, a, n, i) BY DEF Grown
    <2>3. SoundEntry(c[z], z, k, l) BY DEF Grown, SoundDirectory
    <2>4. c[z].id \in Nat /\ c[z].inc \in Nat BY <1>1, <2>3 DEF SoundEntry, EntryType
    <2>5. m >= n /\ j >= i BY DEF Grown
    <2>6. (z \in DOMAIN a /\ c[z] = a[z]) \/ c[z].id > n
      BY <1>1, <2>1, <2>2, <2>4, <2>5 DEF Succeeds
    <2>7. (z \in DOMAIN a /\ c[z].inc = a[z].inc) \/ c[z].inc > i
      BY <1>1, <2>1, <2>2, <2>4, <2>5 DEF Succeeds
    <2>8. (z \in DOMAIN a /\ c[z].serial = a[z].serial) \/ c[z].serial = NoSerial
      BY <2>1, <2>2 DEF Succeeds
    <2> QED BY <2>6, <2>7, <2>8 DEF Succeeds
  <1>4. SoundDirectory(c, k, l) BY DEF Grown
  <1> QED BY <1>2, <1>3, <1>4 DEF Grown

\* No change at all.
LEMMA GrownRefl ==
    ASSUME NEW a, NEW n, NEW i, SoundDirectory(a, n, i)
    PROVE  Grown(a, n, i, a, n, i)
  <1>1. n >= n /\ i >= i BY DEF SoundDirectory
  <1> QED BY <1>1 DEF Grown, Succeeds

-----------------------------------------------------------------------------
(* The changes of one directory update.                                     *)

IsAcc(acc) == acc = [d |-> acc.d, ids |-> acc.ids, incs |-> acc.incs]

Sound(acc) == IsAcc(acc) /\ SoundDirectory(acc.d.by, acc.ids, acc.incs)

AccGrown(acc, new) ==
    IsAcc(new) /\ Grown(acc.d.by, acc.ids, acc.incs, new.d.by, new.ids, new.incs)

\* A zone that is to be loaded.
LEMMA LoadingIsSound ==
    ASSUME Parameters, NEW z, NEW n \in Nat, NEW i \in Nat, NEW hidden \in BOOLEAN,
           NEW inc \in 1 .. i, n > 0
    PROVE  SoundEntry(LoadingEntry(z, n, hidden, inc), z, n, i)
  <1> DEFINE e == LoadingEntry(z, n, hidden, inc)
  <1>1. Serials \in Nat BY DEF Parameters
  <1>2. n \in 1 .. n /\ 0 \in 0 .. n /\ 0 \in 0 .. i /\ NoSerial \in 0 .. Serials
    BY <1>1 DEF NoSerial
  <1>3. e \in EntryType(z, n, i) BY <1>2 DEF EntryType, LoadingEntry, None
  <1>4. OwnImage(e) BY DEF OwnImage, LoadingEntry, None
  <1> QED BY <1>3, <1>4 DEF SoundEntry

\* A zone whose visibility changes.
LEMMA HiddenIsSound ==
    ASSUME NEW e, NEW z, NEW n \in Nat, NEW i \in Nat, NEW hidden \in BOOLEAN,
           SoundEntry(e, z, n, i)
    PROVE  /\ SoundEntry(WithHidden(e, n + 1, hidden), z, n + 1, i)
           /\ WithHidden(e, n + 1, hidden).hidden = hidden
           /\ WithHidden(e, n + 1, hidden).id = n + 1
           /\ WithHidden(e, n + 1, hidden).inc = e.inc
           /\ WithHidden(e, n + 1, hidden).serial = e.serial
           /\ WithHidden(e, n + 1, hidden).origin = z
  <1> DEFINE f == WithHidden(e, n + 1, hidden)
  <1>1. SoundEntry(e, z, n + 1, i) BY SoundEntryMono
  <1>2. e \in EntryType(z, n + 1, i) BY <1>1 DEF SoundEntry
  <1>3. n + 1 \in 1 .. n + 1 OBVIOUS
  <1>4. /\ f \in EntryType(z, n + 1, i)
        /\ f.id = n + 1 /\ f.hidden = hidden /\ f.origin = e.origin /\ f.state = e.state
        /\ f.serial = e.serial /\ f.snap = e.snap /\ f.img = e.img /\ f.overlay = e.overlay
        /\ f.inc = e.inc
    BY <1>2, <1>3 DEF EntryType, WithHidden
  <1>5. OwnImage(e) BY DEF SoundEntry
  <1>6. e.origin = z BY <1>2 DEF EntryType
  <1> HIDE DEF f
  <1>7. OwnImage(f) BY <1>4, <1>5 DEF OwnImage
  <1> QED BY <1>4, <1>6, <1>7 DEF SoundEntry, f

ChangeType == [kind : {"remove", "load", "toggle"}, zone : Origins, hidden : BOOLEAN]

\* What one change does to its zone, and that it does nothing to the others.
LEMMA ChangeGrows ==
    ASSUME Parameters, NEW acc, Sound(acc), NEW c \in ChangeType
    PROVE  LET new == Change(acc, c)
               z == c.zone
           IN  /\ AccGrown(acc, new)
               /\ DOMAIN new.d.by \ {z} = DOMAIN acc.d.by \ {z}
               /\ \A y \in DOMAIN acc.d.by \ {z} : new.d.by[y] = acc.d.by[y]
               /\ c.kind = "remove" => z \notin DOMAIN new.d.by
               /\ z \in DOMAIN new.d.by => new.d.by[z].hidden = c.hidden
  <1> DEFINE z == c.zone
             n == acc.ids
             i == acc.incs
             by == acc.d.by
             old == Get(acc.d, z)
  <1>0. /\ SoundDirectory(by, n, i) /\ n \in Nat /\ i \in Nat /\ z \in Origins
        /\ c.hidden \in BOOLEAN /\ IsAcc(acc)
    BY DEF Sound, SoundDirectory, ChangeType
  <1>1. /\ (old.id = None) <=> (z \notin DOMAIN by)
        /\ z \in DOMAIN by => old = by[z] /\ SoundEntry(by[z], z, n, i)
        /\ z \notin DOMAIN by => old = NoEntry
    BY <1>0, GetFacts
  <1>2. CASE c.kind = "remove"
    <2> DEFINE new == RemoveOne(acc, z)
    <2>1. Change(acc, c) = new BY <1>2 DEF Change
    <2>2. new = [d |-> DirRemove(acc.d, z), ids |-> n, incs |-> i] BY <1>0 DEF RemoveOne, IsAcc
    <2>3. IsAcc(new) BY <2>2 DEF IsAcc
    <2>4. /\ Grown(by, n, i, DirRemove(acc.d, z).by, n, i)
          /\ OnlyDrops(by, z, DirRemove(acc.d, z).by)
      BY <1>0, RemoveGrows
    <2>5. new.d.by = DirRemove(acc.d, z).by /\ new.ids = n /\ new.incs = i BY <2>2
    <2> HIDE DEF new
    <2> QED BY <1>2, <2>1, <2>3, <2>4, <2>5 DEF AccGrown, OnlyDrops
  <1>3. CASE c.kind = "load"
    <2> DEFINE new == LoadOne(acc, z, c.hidden)
               j == IF old.id = None THEN i + 1 ELSE i
               inc == IF old.id = None THEN i + 1 ELSE old.inc
               e == LoadingEntry(z, n + 1, c.hidden, inc)
    <2>1. Change(acc, c) = new BY <1>3 DEF Change
    <2>2. new = [d |-> DirInsert(acc.d, e), ids |-> n + 1, incs |-> j] BY DEF LoadOne
    <2>3. /\ IsAcc(new) /\ new.d.by = Put(by, e.origin, e) /\ new.ids = n + 1 /\ new.incs = j
      BY <2>2, InsertBy DEF IsAcc
    <2>4. /\ e.origin = z /\ e.hidden = c.hidden /\ e.id = n + 1 /\ e.inc = inc
          /\ e.serial = NoSerial
      BY DEF LoadingEntry
    <2>5. j \in Nat /\ i <= j /\ inc \in 1 .. j
      <3>1. z \in DOMAIN by => by[z].inc \in 1 .. i BY <1>1 DEF SoundEntry, EntryType
      <3> QED BY <1>0, <1>1, <3>1
    <2>6. SoundEntry(e, z, n + 1, j)
      <3> HIDE DEF j, inc
      <3>1. n + 1 \in Nat /\ n + 1 > 0 BY <1>0
      <3> QED BY <1>0, <2>5, <3>1, LoadingIsSound
    <2>7. Succeeds(e, z, by, n, i)
      <3>1. e.id > n BY <1>0, <2>4
      <3>2. (z \in DOMAIN by /\ e.inc = by[z].inc) \/ e.inc > i BY <1>0, <1>1, <2>4
      <3> QED BY <2>4, <3>1, <3>2 DEF Succeeds
    <2> HIDE DEF e, j, inc, new
    <2>8. Grown(by, n, i, Put(by, z, e), n + 1, j)
      <3>1. n + 1 \in Nat /\ n < n + 1 BY <1>0
      <3> QED BY <1>0, <2>5, <2>6, <2>7, <3>1, PutGrows
    <2>9. /\ DOMAIN Put(by, z, e) = DOMAIN by \cup {z} /\ Put(by, z, e)[z] = e
          /\ \A y \in DOMAIN by \ {z} : Put(by, z, e)[y] = by[y]
      BY DEF Put
    <2> QED BY <1>3, <2>1, <2>3, <2>4, <2>8, <2>9 DEF AccGrown
  <1>4. CASE c.kind = "toggle"
    <2> DEFINE new == ToggleOne(acc, z, c.hidden)
    <2>1. Change(acc, c) = new BY <1>4 DEF Change
    <2>2. CASE z \notin DOMAIN by
      <3>1. new = acc BY <1>1, <2>2 DEF ToggleOne
      <3>2. Grown(by, n, i, by, n, i) BY <1>0, GrownRefl
      <3> HIDE DEF new
      <3> QED BY <1>0, <1>4, <2>1, <2>2, <3>1, <3>2 DEF AccGrown
    <2>3. CASE z \in DOMAIN by /\ by[z].hidden = c.hidden
      <3>1. new = acc BY <1>1, <2>3 DEF ToggleOne
      <3>2. Grown(by, n, i, by, n, i) BY <1>0, GrownRefl
      <3> HIDE DEF new
      <3> QED BY <1>0, <1>4, <2>1, <2>3, <3>1, <3>2 DEF AccGrown
    <2>4. CASE z \in DOMAIN by /\ by[z].hidden # c.hidden
      <3> DEFINE e == WithHidden(by[z], n + 1, c.hidden)
      <3>1. new = [acc EXCEPT !.d = DirInsert(acc.d, e), !.ids = n + 1]
        BY <1>1, <2>4 DEF ToggleOne
      <3>2. new = [d |-> DirInsert(acc.d, e), ids |-> n + 1, incs |-> i]
        BY <1>0, <3>1 DEF IsAcc
      <3>3. IsAcc(new) /\ new.d.by = Put(by, e.origin, e) /\ new.ids = n + 1 /\ new.incs = i
        BY <3>2, InsertBy DEF IsAcc
      <3>4. /\ SoundEntry(e, z, n + 1, i) /\ e.hidden = c.hidden /\ e.id = n + 1
            /\ e.inc = by[z].inc /\ e.serial = by[z].serial /\ e.origin = z
        <4> DEFINE o == by[z]
                   h == c.hidden
        <4>1. SoundEntry(o, z, n, i) /\ n \in Nat /\ i \in Nat /\ h \in BOOLEAN
          BY <1>0, <1>1, <2>4
        <4> HIDE DEF o, n, i, z, h
        <4>2. /\ SoundEntry(WithHidden(o, n + 1, h), z, n + 1, i)
              /\ WithHidden(o, n + 1, h).hidden = h
              /\ WithHidden(o, n + 1, h).id = n + 1
              /\ WithHidden(o, n + 1, h).inc = o.inc
              /\ WithHidden(o, n + 1, h).serial = o.serial
              /\ WithHidden(o, n + 1, h).origin = z
          BY <4>1, HiddenIsSound
        <4> QED BY <4>2 DEF o, h
      <3> HIDE DEF e, new
      <3>5. Succeeds(e, z, by, n, i)
        <4>1. e.id > n BY <1>0, <3>4
        <4> QED BY <2>4, <3>4, <4>1 DEF Succeeds
      <3>6. Grown(by, n, i, Put(by, z, e), n + 1, i)
        <4>1. n + 1 \in Nat /\ n < n + 1 /\ i <= i BY <1>0
        <4> QED BY <1>0, <3>4, <3>5, <4>1, PutGrows
      <3>7. /\ DOMAIN Put(by, z, e) = DOMAIN by \cup {z} /\ Put(by, z, e)[z] = e
            /\ \A y \in DOMAIN by \ {z} : Put(by, z, e)[y] = by[y]
        BY DEF Put
      <3> QED BY <1>4, <2>1, <3>3, <3>4, <3>6, <3>7 DEF AccGrown
    <2> QED BY <2>2, <2>3, <2>4
  <1> QED BY <1>2, <1>3, <1>4 DEF ChangeType

(* What the first k of the changes have done: the zones they name have the  *)
(* visibility they give (or are gone), the others are as they were.         *)
StageTo(acc, new, kind, zones, H, k) ==
    LET named == {zones[j] : j \in 1 .. k}
    IN  /\ AccGrown(acc, new)
        /\ \A z \in DOMAIN new.d.by \cap named : new.d.by[z].hidden = (z \in H)
        /\ \A z \in DOMAIN new.d.by \ named :
              z \in DOMAIN acc.d.by /\ new.d.by[z].hidden = acc.d.by[z].hidden
        /\ kind = "remove" => DOMAIN new.d.by \cap named = {}

\* One more change.
LEMMA StageStep ==
    ASSUME Parameters, NEW acc, Sound(acc), NEW kind \in {"remove", "load", "toggle"},
           NEW zones \in Seq(Origins), NEW H, NEW k \in 1 .. Len(zones), NEW mid,
           StageTo(acc, mid, kind, zones, H, k - 1)
    PROVE  StageTo(acc, Change(mid, ForEach(kind, zones, H)[k]), kind, zones, H, k)
  <1> DEFINE c == ForEach(kind, zones, H)[k]
             z == zones[k]
             new == Change(mid, c)
             before == {zones[j] : j \in 1 .. (k - 1)}
             named == {zones[j] : j \in 1 .. k}
  <1>1. c = [kind |-> kind, zone |-> z, hidden |-> z \in H] BY DEF ForEach
  <1>2. z \in Origins OBVIOUS
  <1>3. c \in ChangeType /\ c.zone = z /\ c.hidden = (z \in H) /\ c.kind = kind
    <2>1. (z \in H) \in BOOLEAN OBVIOUS
    <2> DEFINE h == z \in H
    <2> HIDE DEF h
    <2>2. c = [kind |-> kind, zone |-> z, hidden |-> h] /\ h \in BOOLEAN BY <1>1, <2>1 DEF h
    <2> HIDE DEF c, z
    <2>3. c \in ChangeType /\ c.zone = z /\ c.hidden = h /\ c.kind = kind
      BY <1>2, <2>2 DEF ChangeType
    <2> QED BY <2>3 DEF h
  <1>4. named = before \cup {z}
    <2>1. 1 .. k = 1 .. (k - 1) \cup {k} OBVIOUS
    <2> QED BY <2>1
  <1>5. /\ AccGrown(acc, mid)
        /\ \A y \in DOMAIN mid.d.by \cap before : mid.d.by[y].hidden = (y \in H)
        /\ \A y \in DOMAIN mid.d.by \ before :
              y \in DOMAIN acc.d.by /\ mid.d.by[y].hidden = acc.d.by[y].hidden
        /\ kind = "remove" => DOMAIN mid.d.by \cap before = {}
    BY DEF StageTo
  <1>6. Sound(mid) BY <1>5 DEF Sound, AccGrown, Grown
  <1>7. /\ AccGrown(mid, new)
        /\ DOMAIN new.d.by \ {z} = DOMAIN mid.d.by \ {z}
        /\ \A y \in DOMAIN mid.d.by \ {z} : new.d.by[y] = mid.d.by[y]
        /\ kind = "remove" => z \notin DOMAIN new.d.by
        /\ z \in DOMAIN new.d.by => new.d.by[z].hidden = (z \in H)
    <2> HIDE DEF c, z
    <2> QED BY <1>3, <1>6, ChangeGrows
  <1> HIDE DEF c, z, new, before, named
  <1>8. AccGrown(acc, new) BY <1>5, <1>7, GrownTrans DEF AccGrown, Sound
  <1>9. \A y \in DOMAIN new.d.by \cap named : new.d.by[y].hidden = (y \in H)
    BY <1>4, <1>5, <1>7
  <1>10. \A y \in DOMAIN new.d.by \ named :
              y \in DOMAIN acc.d.by /\ new.d.by[y].hidden = acc.d.by[y].hidden
    BY <1>4, <1>5, <1>7
  <1>11. kind = "remove" => DOMAIN new.d.by \cap named = {} BY <1>4, <1>5, <1>7
  <1> QED BY <1>8, <1>9, <1>10, <1>11 DEF StageTo, new, c, named

(* All of them.                                                             *)
Stage(acc, new, kind, zones, H) ==
    /\ AccGrown(acc, new)
    /\ \A z \in DOMAIN new.d.by \cap Range(zones) : new.d.by[z].hidden = (z \in H)
    /\ \A z \in DOMAIN new.d.by \ Range(zones) :
          z \in DOMAIN acc.d.by /\ new.d.by[z].hidden = acc.d.by[z].hidden
    /\ kind = "remove" => DOMAIN new.d.by \cap Range(zones) = {}

\* A whole list of changes of one kind.
LEMMA StageDone ==
    ASSUME Parameters, NEW acc, Sound(acc), NEW kind \in {"remove", "load", "toggle"},
           NEW zones \in Seq(Origins), NEW H
    PROVE  Stage(acc, Changed(acc, ForEach(kind, zones, H)), kind, zones, H)
  <1> DEFINE cs == ForEach(kind, zones, H)
             m == Len(zones)
  <1>1. m \in Nat /\ DOMAIN cs = 1 .. m BY DEF ForEach
  <1> HIDE DEF cs
  <1>2. PICK p : IsCourse(p, acc, cs, m) /\ Changed(acc, cs) = p[m] BY <1>1, ChangedCourse
  <1> DEFINE P == {k \in Nat : k <= m => StageTo(acc, p[k], kind, zones, H, k)}
  <1>3. 0 \in P
    <2>1. p[0] = acc BY <1>2 DEF IsCourse
    <2>2. AccGrown(acc, acc) BY GrownRefl DEF AccGrown, Sound
    <2>3. {zones[j] : j \in 1 .. 0} = {} OBVIOUS
    <2>4. StageTo(acc, acc, kind, zones, H, 0) BY <2>2, <2>3 DEF StageTo
    <2> QED BY <2>1, <2>4
  <1>4. ASSUME NEW k \in Nat, k \in P PROVE k + 1 \in P
    <2> SUFFICES ASSUME k + 1 <= m PROVE StageTo(acc, p[k + 1], kind, zones, H, k + 1) OBVIOUS
    <2> DEFINE l == k + 1
    <2>1. l \in 1 .. m /\ l - 1 = k BY <1>1
    <2>2. StageTo(acc, p[k], kind, zones, H, k) BY <1>1, <1>4
    <2> HIDE DEF l
    <2>3. p[l] = Change(p[k], cs[l]) BY <1>2, <2>1 DEF IsCourse
    <2>4. StageTo(acc, Change(p[k], cs[l]), kind, zones, H, l)
      BY <2>1, <2>2, StageStep DEF cs
    <2> QED BY <2>3, <2>4 DEF l
  <1> HIDE DEF P
  <1>5. \A k \in Nat : k \in P BY <1>3, <1>4, SetInduction
  <1>6. StageTo(acc, p[m], kind, zones, H, m) BY <1>1, <1>5 DEF P
  <1>7. Range(zones) = {zones[j] : j \in 1 .. m} BY DEF Range
  <1>8. Stage(acc, p[m], kind, zones, H) BY <1>6, <1>7 DEF StageTo, Stage
  <1> QED BY <1>2, <1>8 DEF cs

-----------------------------------------------------------------------------
(* The inductive invariant.  A transfer or restoration comes back with what *)
(* it captured; if the directory still has an entry of that address, it is  *)
(* that very entry.  The address it brings is in nobody else's hands, and   *)
(* neither is the incarnation it got for a zone that was not there.         *)

Captured(old, z, d, n, i) ==
    /\ old = NoEntry \/ SoundEntry(old, z, n, i)
    /\ Get(d, z).id = old.id => Get(d, z) = old

Unplaced(id, by) == \A z \in DOMAIN by : by[z].id # id

Unclaimed(inc, by, g) == inc \notin g /\ \A z \in DOMAIN by : by[z].inc # inc

PreparedOK(p, d, n, i, g) ==
    /\ p.zone \in Origins
    /\ Captured(p.expected, p.zone, d, n, i)
    /\ SoundEntry(p.entry, p.zone, n, i)
    /\ Unplaced(p.entry.id, d.by)
    /\ p.expected.id = None => ~p.entry.hidden /\ Unclaimed(p.entry.inc, d.by, g)
    /\ p.expected.id # None =>
          p.entry.hidden = p.expected.hidden /\ p.entry.inc = p.expected.inc

Apart(p, q) ==
    /\ p.entry.id # q.entry.id
    /\ p.expected.id = None /\ q.expected.id = None => p.entry.inc # q.entry.inc

PrepsOK(pr, d, n, i, g) ==
    /\ pr = [t \in Transfers |-> pr[t]]
    /\ \A t \in Transfers : pr[t] # NoPrep => PreparedOK(pr[t], d, n, i, g)
    /\ \A t, u \in Transfers : pr[t] # NoPrep /\ pr[u] # NoPrep =>
          pr[u].expected.id # pr[t].entry.id /\ (t # u => Apart(pr[t], pr[u]))

ClearOf(r, pr) ==
    \A t \in Transfers : pr[t] # NoPrep =>
        /\ r.expected.id # pr[t].entry.id
        /\ r.expected.id = None /\ pr[t].expected.id = None => r.inc # pr[t].entry.inc

RestoringOK(r, d, n, i, g) ==
    /\ DOMAIN r = {"zone", "expected", "serial", "force", "inc"}
    /\ r.zone \in Origins /\ r.serial \in 0 .. Serials /\ r.force \in BOOLEAN
    /\ r.inc \in 1 .. i
    /\ Captured(r.expected, r.zone, d, n, i)
    /\ r.expected.id = None => Unclaimed(r.inc, d.by, g)
    /\ r.expected.id # None => r.inc = r.expected.inc

InsOK(r, pr, d, n, i, g) ==
    r # NoWork => RestoringOK(r, d, n, i, g) /\ ClearOf(r, pr)

CompOK(c, n, i) ==
    c # NoWork => c.snap \in [id : 1 .. n, inc : 1 .. i] /\ c.snap.inc = c.inc

DirOK(d, n, i, w, g) ==
    /\ SoundDirectory(d.by, n, i)
    /\ g \subseteq 1 .. i
    /\ DOMAIN w = DOMAIN d.by
    /\ \A z \in DOMAIN d.by : d.by[z].hidden = w[z]
    /\ \A z \in DOMAIN d.by : d.by[z].inc \notin g

StoreInv ==
    /\ DirOK(dir, ids, incs, wanted, gone)
    /\ PrepsOK(prep, dir, ids, incs, gone)
    /\ InsOK(ins, prep, dir, ids, incs, gone)
    /\ CompOK(comp, ids, incs)

\* What was captured stays captured when its zone is left alone or gets
\* another address.
LEMMA CapturedKept ==
    ASSUME NEW old, NEW z, NEW d, NEW n, NEW i, NEW dN, NEW nN, NEW iN,
           SoundDirectory(d.by, n, i), Captured(old, z, d, n, i),
           SoundDirectory(dN.by, nN, iN), nN >= n, iN >= i,
           z \in DOMAIN dN.by =>
             (z \in DOMAIN d.by /\ dN.by[z] = d.by[z]) \/ dN.by[z].id # old.id
    PROVE  Captured(old, z, dN, nN, iN)
  <1>0. n \in Nat /\ i \in Nat /\ nN \in Nat /\ iN \in Nat BY DEF SoundDirectory
  <1>1. old = NoEntry \/ SoundEntry(old, z, nN, iN) BY <1>0, SoundEntryMono DEF Captured
  <1>2. ASSUME Get(dN, z).id = old.id PROVE Get(dN, z) = old
    <2>1. CASE z \in DOMAIN dN.by
      <3>1. Get(dN, z) = dN.by[z] BY <2>1, GetFacts
      <3>2. z \in DOMAIN d.by /\ dN.by[z] = d.by[z] BY <1>2, <2>1, <3>1
      <3>3. Get(d, z) = d.by[z] BY <3>2, GetFacts
      <3> QED BY <1>2, <3>1, <3>2, <3>3 DEF Captured
    <2>2. CASE z \notin DOMAIN dN.by
      <3>1. Get(dN, z) = NoEntry BY <2>2, GetFacts
      <3>2. old.id = None BY <1>2, <3>1 DEF NoEntry
      <3>3. ~SoundEntry(old, z, nN, iN) BY <1>0, <3>2 DEF SoundEntry, EntryType, None
      <3> QED BY <1>1, <3>1, <3>3
    <2> QED BY <2>1, <2>2
  <1> QED BY <1>1, <1>2 DEF Captured

\* What is captured has an address that was given out, or none.
LEMMA CapturedId ==
    ASSUME NEW old, NEW z, NEW d, NEW n \in Nat, NEW i \in Nat, Captured(old, z, d, n, i)
    PROVE  old.id \in 0 .. n /\ (old.id = None => old = NoEntry)
  BY DEF Captured, SoundEntry, EntryType, NoEntry, None

\* The directory's own steps leave what others hold alone.
LEMMA CapturedGrown ==
    ASSUME NEW old, NEW z, NEW d, NEW n, NEW i, NEW dN, NEW nN, NEW iN,
           SoundDirectory(d.by, n, i), Captured(old, z, d, n, i),
           Grown(d.by, n, i, dN.by, nN, iN)
    PROVE  Captured(old, z, dN, nN, iN)
  <1>0. n \in Nat /\ i \in Nat /\ nN \in Nat /\ iN \in Nat BY DEF SoundDirectory, Grown
  <1>1. old.id \in 0 .. n BY <1>0, CapturedId
  <1>2. ASSUME z \in DOMAIN dN.by
        PROVE  (z \in DOMAIN d.by /\ dN.by[z] = d.by[z]) \/ dN.by[z].id # old.id
    <2>1. Succeeds(dN.by[z], z, d.by, n, i) BY <1>2 DEF Grown
    <2>2. dN.by[z].id \in Nat BY <1>0, <1>2 DEF Grown, SoundDirectory, SoundEntry, EntryType
    <2> QED BY <1>0, <1>1, <2>1, <2>2 DEF Succeeds
  <1>3. SoundDirectory(dN.by, nN, iN) /\ nN >= n /\ iN >= i BY DEF Grown
  <1> QED BY <1>2, <1>3, CapturedKept

(* Only incarnations of the directory are removed.                          *)
GoneFrom(gN, g, by) == gN \subseteq g \cup {by[z].inc : z \in DOMAIN by}

\* Nor do they use an address that somebody holds,
LEMMA UnplacedGrown ==
    ASSUME NEW by, NEW n \in Nat, NEW i \in Nat, NEW byN, NEW nN, NEW iN,
           Grown(by, n, i, byN, nN, iN), NEW id \in 1 .. n, Unplaced(id, by)
    PROVE  Unplaced(id, byN)
  <1>0. nN \in Nat /\ iN \in Nat BY DEF SoundDirectory, Grown
  <1>1. \A z \in DOMAIN byN : Succeeds(byN[z], z, by, n, i) BY DEF Grown
  <1>2. \A z \in DOMAIN byN : byN[z].id \in Nat
    BY <1>0 DEF Grown, SoundDirectory, SoundEntry, EntryType
  <1> QED BY <1>1, <1>2 DEF Unplaced, Succeeds

\* or an incarnation.
LEMMA UnclaimedGrown ==
    ASSUME NEW by, NEW n \in Nat, NEW i \in Nat, NEW byN, NEW nN, NEW iN, NEW g, NEW gN,
           Grown(by, n, i, byN, nN, iN), GoneFrom(gN, g, by),
           NEW inc \in 1 .. i, Unclaimed(inc, by, g)
    PROVE  Unclaimed(inc, byN, gN)
  <1>0. nN \in Nat /\ iN \in Nat BY DEF SoundDirectory, Grown
  <1>1. \A z \in DOMAIN byN : Succeeds(byN[z], z, by, n, i) BY DEF Grown
  <1>2. \A z \in DOMAIN byN : byN[z].inc \in Nat
    BY <1>0 DEF Grown, SoundDirectory, SoundEntry, EntryType
  <1>3. inc \notin gN BY DEF GoneFrom, Unclaimed
  <1> QED BY <1>1, <1>2, <1>3 DEF Unclaimed, Succeeds

\* So what is prepared stays in order,
LEMMA PrepsGrown ==
    ASSUME NEW pr, NEW d, NEW n, NEW i, NEW g, NEW dN, NEW nN, NEW iN, NEW gN,
           SoundDirectory(d.by, n, i), PrepsOK(pr, d, n, i, g),
           Grown(d.by, n, i, dN.by, nN, iN),
           GoneFrom(gN, g, d.by)
    PROVE  PrepsOK(pr, dN, nN, iN, gN)
  <1>0. n \in Nat /\ i \in Nat /\ nN \in Nat /\ iN \in Nat /\ nN >= n /\ iN >= i
    BY DEF SoundDirectory, Grown
  <1>1. ASSUME NEW t \in Transfers, pr[t] # NoPrep PROVE PreparedOK(pr[t], dN, nN, iN, gN)
    <2> DEFINE p == pr[t]
    <2>1. PreparedOK(p, d, n, i, g) BY <1>1 DEF PrepsOK
    <2> HIDE DEF p
    <2>2. Captured(p.expected, p.zone, dN, nN, iN) BY <2>1, CapturedGrown DEF PreparedOK
    <2>3. SoundEntry(p.entry, p.zone, nN, iN) BY <1>0, <2>1, SoundEntryMono DEF PreparedOK
    <2>4. p.entry.id \in 1 .. n /\ p.entry.inc \in 1 .. i
      BY <2>1 DEF PreparedOK, SoundEntry, EntryType
    <2>5. Unplaced(p.entry.id, dN.by) BY <1>0, <2>1, <2>4, UnplacedGrown DEF PreparedOK
    <2>6. p.expected.id = None => Unclaimed(p.entry.inc, dN.by, gN)
      BY <1>0, <2>1, <2>4, UnclaimedGrown DEF PreparedOK
    <2>7. PreparedOK(p, dN, nN, iN, gN) BY <2>1, <2>2, <2>3, <2>5, <2>6 DEF PreparedOK
    <2> QED BY <2>7 DEF p
  <1> QED BY <1>1 DEF PrepsOK

\* and so does a restoration.
LEMMA InsGrown ==
    ASSUME NEW r, NEW pr, NEW d, NEW n, NEW i, NEW g, NEW dN, NEW nN, NEW iN, NEW gN,
           SoundDirectory(d.by, n, i), InsOK(r, pr, d, n, i, g),
           Grown(d.by, n, i, dN.by, nN, iN),
           GoneFrom(gN, g, d.by)
    PROVE  InsOK(r, pr, dN, nN, iN, gN)
  <1> SUFFICES ASSUME r # NoWork PROVE RestoringOK(r, dN, nN, iN, gN) /\ ClearOf(r, pr)
    BY DEF InsOK
  <1>0. n \in Nat /\ i \in Nat /\ nN \in Nat /\ iN \in Nat /\ nN >= n /\ iN >= i
    BY DEF SoundDirectory, Grown
  <1>1. RestoringOK(r, d, n, i, g) /\ ClearOf(r, pr) BY DEF InsOK
  <1>2. Captured(r.expected, r.zone, dN, nN, iN) BY <1>1, CapturedGrown DEF RestoringOK
  <1>3. r.inc \in 1 .. i /\ r.inc \in 1 .. iN BY <1>0, <1>1 DEF RestoringOK
  <1>4. r.expected.id = None => Unclaimed(r.inc, dN.by, gN)
    BY <1>0, <1>1, <1>3, UnclaimedGrown DEF RestoringOK
  <1> QED BY <1>1, <1>2, <1>3, <1>4 DEF RestoringOK

\* and a compaction.
LEMMA CompGrown ==
    ASSUME NEW c, NEW n \in Nat, NEW i \in Nat, NEW nN \in Nat, NEW iN \in Nat,
           CompOK(c, n, i), nN >= n, iN >= i
    PROVE  CompOK(c, nN, iN)
  <1>1. 1 .. n \subseteq 1 .. nN /\ 1 .. i \subseteq 1 .. iN OBVIOUS
  <1> QED BY <1>1 DEF CompOK

-----------------------------------------------------------------------------
(* The entries that the actions build.                                      *)

Retains(f, e) == f.inc = e.inc /\ f.serial = e.serial /\ f.hidden = e.hidden

\* An expired zone has no image.
LEMMA ExpiredIsSound ==
    ASSUME NEW e, NEW z, NEW n \in Nat, NEW i \in Nat, SoundEntry(e, z, n, i)
    PROVE  /\ SoundEntry(WithState(e, n + 1, "Expired"), z, n + 1, i)
           /\ WithState(e, n + 1, "Expired").id = n + 1
           /\ Retains(WithState(e, n + 1, "Expired"), e)
  <1> DEFINE f == WithState(e, n + 1, "Expired")
  <1>1. e \in EntryType(z, n + 1, i)
    <2>1. SoundEntry(e, z, n + 1, i) BY SoundEntryMono
    <2> QED BY <2>1 DEF SoundEntry
  <1>2. n + 1 \in 1 .. n + 1 /\ [id |-> 0, inc |-> 0] \in [id : 0 .. n + 1, inc : 0 .. i]
    OBVIOUS
  <1>3. /\ f \in EntryType(z, n + 1, i)
        /\ f.id = n + 1 /\ f.inc = e.inc /\ f.serial = e.serial /\ f.hidden = e.hidden
        /\ f.snap = e.snap /\ f.state = "Expired" /\ f.img.id = 0
    BY <1>1, <1>2 DEF EntryType, WithState, None
  <1>4. OwnImage(e) BY DEF SoundEntry
  <1> HIDE DEF f
  <1>5. OwnImage(f) BY <1>3, <1>4 DEF OwnImage, None
  <1> QED BY <1>3, <1>5 DEF SoundEntry, Retains, f

\* A confirmed zone has the image of its own snapshot.
LEMMA ActivatedIsSound ==
    ASSUME NEW e, NEW z, NEW n \in Nat, NEW i \in Nat, SoundEntry(e, z, n, i)
    PROVE  /\ SoundEntry(Activated(e, n + 1), z, n + 1, i)
           /\ Activated(e, n + 1).id = n + 1
           /\ Retains(Activated(e, n + 1), e)
  <1> DEFINE f == Activated(e, n + 1)
  <1>1. e \in EntryType(z, n + 1, i)
    <2>1. SoundEntry(e, z, n + 1, i) BY SoundEntryMono
    <2> QED BY <2>1 DEF SoundEntry
  <1>2. n + 1 \in 1 .. n + 1 /\ e.snap \in [id : 0 .. n + 1, inc : 0 .. i]
    <2>1. e.snap \in [id : 1 .. n + 1, inc : 1 .. i] BY <1>1 DEF EntryType
    <2>2. 1 .. n + 1 \subseteq 0 .. n + 1 /\ 1 .. i \subseteq 0 .. i OBVIOUS
    <2> QED BY <2>1, <2>2
  <1>3. /\ f \in EntryType(z, n + 1, i)
        /\ f.id = n + 1 /\ f.inc = e.inc /\ f.serial = e.serial /\ f.hidden = e.hidden
        /\ f.snap = e.snap /\ f.state = "Active" /\ f.img = e.snap /\ f.overlay = FALSE
    BY <1>1, <1>2 DEF EntryType, Activated
  <1>4. OwnImage(e) BY DEF SoundEntry
  <1>5. e.snap.id # 0 BY <1>1 DEF EntryType
  <1> HIDE DEF f
  <1>6. OwnImage(f) BY <1>3, <1>4, <1>5 DEF OwnImage, None
  <1> QED BY <1>3, <1>6 DEF SoundEntry, Retains, f

\* A compaction puts the image of an earlier snapshot of the incarnation under
\* the record of what changed since.
LEMMA CompactedIsSound ==
    ASSUME NEW e, NEW z, NEW n \in Nat, NEW i \in Nat, SoundEntry(e, z, n, i),
           e.state = "Active",
           NEW s \in [id : 1 .. n, inc : 1 .. i], s.inc = e.inc
    PROVE  /\ SoundEntry(Compacted(e, n + 1, s), z, n + 1, i)
           /\ Compacted(e, n + 1, s).id = n + 1
           /\ Retains(Compacted(e, n + 1, s), e)
  <1> DEFINE f == Compacted(e, n + 1, s)
  <1>1. e \in EntryType(z, n + 1, i)
    <2>1. SoundEntry(e, z, n + 1, i) BY SoundEntryMono
    <2> QED BY <2>1 DEF SoundEntry
  <1>2. n + 1 \in 1 .. n + 1 /\ s \in [id : 0 .. n + 1, inc : 0 .. i] /\ s.id # 0
    <2>1. 1 .. n \subseteq 0 .. n + 1 /\ 1 .. i \subseteq 0 .. i OBVIOUS
    <2> QED BY <2>1
  <1> DEFINE o == e.snap # s
  <1>3. o \in BOOLEAN OBVIOUS
  <1>4. f = [e EXCEPT !.id = n + 1, !.img = s, !.overlay = o] BY DEF Compacted
  <1> HIDE DEF o, f
  <1>5. /\ f \in EntryType(z, n + 1, i)
        /\ f.id = n + 1 /\ f.inc = e.inc /\ f.serial = e.serial /\ f.hidden = e.hidden
        /\ f.snap = e.snap /\ f.state = e.state /\ f.img = s /\ f.overlay = o
    BY <1>1, <1>2, <1>3, <1>4 DEF EntryType
  <1>6. OwnImage(e) BY DEF SoundEntry
  <1>7. OwnImage(f) BY <1>2, <1>5, <1>6 DEF OwnImage, None, o
  <1> QED BY <1>5, <1>7 DEF SoundEntry, Retains, f

BuiltFrom(old, z, n, i, inc) == old = NoEntry \/ (SoundEntry(old, z, n, i) /\ inc = old.inc)

\* A new snapshot brings its own image or, incrementally, takes over that of
\* the entry it was prepared from.
LEMMA NewIsSound ==
    ASSUME Parameters, NEW z, NEW n \in Nat, NEW i \in Nat, NEW j \in Nat, i <= j,
           NEW serial \in 0 .. Serials, NEW hidden \in BOOLEAN, NEW inc \in 1 .. j,
           NEW sharded \in BOOLEAN, NEW old,
           BuiltFrom(old, z, n, i, inc)
    PROVE  /\ SoundEntry(NewEntry(z, n + 1, serial, hidden, inc, old, sharded), z, n + 1, j)
           /\ NewEntry(z, n + 1, serial, hidden, inc, old, sharded).id = n + 1
           /\ NewEntry(z, n + 1, serial, hidden, inc, old, sharded).hidden = hidden
           /\ NewEntry(z, n + 1, serial, hidden, inc, old, sharded).inc = inc
           /\ NewEntry(z, n + 1, serial, hidden, inc, old, sharded).serial = serial
  <1> DEFINE f == NewEntry(z, n + 1, serial, hidden, inc, old, sharded)
             snap == [id |-> n + 1, inc |-> inc]
             keep == sharded /\ old.id # None /\ old.state = "Active"
             img == IF keep THEN old.img ELSE snap
  <1>1. /\ f.origin = z /\ f.id = n + 1 /\ f.state = "Active" /\ f.serial = serial
        /\ f.snap = snap /\ f.img = img /\ f.overlay = keep /\ f.hidden = hidden
        /\ f.inc = inc
    BY DEF NewEntry
  <1>2. f = [origin |-> z, id |-> n + 1, state |-> "Active", serial |-> serial,
             snap |-> snap, img |-> img, overlay |-> keep, hidden |-> hidden, inc |-> inc]
    BY DEF NewEntry
  <1>3. keep \in BOOLEAN /\ n + 1 \in 1 .. n + 1 OBVIOUS
  <1>4. snap \in [id : 1 .. n + 1, inc : 1 .. j] OBVIOUS
  <1>5. keep => SoundEntry(old, z, n, j) /\ inc = old.inc
    BY SoundEntryMono DEF BuiltFrom, NoEntry, None
  <1>6. keep => /\ old.img \in [id : 0 .. n, inc : 0 .. j] /\ old.img.id # 0
                /\ old.img.inc = inc
    BY <1>5 DEF SoundEntry, EntryType, OwnImage, None
  <1>7. img \in [id : 0 .. n + 1, inc : 0 .. j]
    <2>1. 1 .. n + 1 \subseteq 0 .. n + 1 /\ 1 .. j \subseteq 0 .. j
          /\ 0 .. n \subseteq 0 .. n + 1
      OBVIOUS
    <2>2. snap \in [id : 0 .. n + 1, inc : 0 .. j] BY <1>4, <2>1
    <2>3. keep => old.img \in [id : 0 .. n + 1, inc : 0 .. j] BY <1>6, <2>1
    <2> HIDE DEF snap, keep
    <2> QED BY <2>2, <2>3
  <1>8. img.id # 0 /\ img.inc = inc BY <1>6
  <1>9. keep <=> img # snap
    <2>1. keep => old.img.id \in 0 .. n BY <1>6
    <2>2. n + 1 \notin 0 .. n OBVIOUS
    <2>3. snap.id = n + 1 OBVIOUS
    <2>4. keep => old.img # snap BY <2>1, <2>2, <2>3
    <2> HIDE DEF snap, keep
    <2> QED BY <2>4
  <1>10. snap.inc = inc OBVIOUS
  <1> HIDE DEF snap, keep, img, f
  <1>11. f \in EntryType(z, n + 1, j) BY <1>2, <1>3, <1>4, <1>7 DEF EntryType
  <1>12. OwnImage(f) BY <1>1, <1>8, <1>9, <1>10 DEF OwnImage, None
  <1> QED BY <1>1, <1>11, <1>12 DEF SoundEntry, f

-----------------------------------------------------------------------------
(* The actions.                                                             *)

(* No serial changes but to none.                                           *)
SerialsKept ==
    \A z \in DOMAIN dir.by \cap DOMAIN dir'.by :
        dir'.by[z].serial = dir.by[z].serial \/ dir'.by[z].serial = NoSerial

\* The changes of the directory alone keep the serials.
LEMMA GrownKeeps ==
    ASSUME Grown(dir.by, ids, incs, dir'.by, ids', incs')
    PROVE  SerialsKept
  BY DEF SerialsKept, Grown, Succeeds

\* A step of the directory alone keeps the invariant.
LEMMA StepGrown ==
    ASSUME StoreInv, Grown(dir.by, ids, incs, dir'.by, ids', incs'),
           GoneFrom(gone', gone, dir.by), DirOK(dir', ids', incs', wanted', gone'),
           prep' = prep, ins' = ins, comp' = comp \/ CompOK(comp', ids', incs')
    PROVE  StoreInv'
  <1>0. /\ SoundDirectory(dir.by, ids, incs) /\ ids \in Nat /\ incs \in Nat
        /\ ids' \in Nat /\ incs' \in Nat /\ ids' >= ids /\ incs' >= incs
    BY DEF StoreInv, DirOK, SoundDirectory, Grown
  <1>1. PrepsOK(prep, dir', ids', incs', gone') BY <1>0, PrepsGrown DEF StoreInv
  <1>2. InsOK(ins, prep, dir', ids', incs', gone') BY <1>0, InsGrown DEF StoreInv
  <1>3. CompOK(comp', ids', incs')
    <2>1. CompOK(comp, ids', incs') BY <1>0, CompGrown DEF StoreInv
    <2> QED BY <2>1
  <1> QED BY <1>1, <1>2, <1>3 DEF StoreInv

\* An entry is replaced by one of the same incarnation and serial.
LEMMA Replaced ==
    ASSUME NEW d, NEW n, NEW i, NEW w, NEW g, DirOK(d, n, i, w, g),
           NEW z, z \in DOMAIN d.by,
           NEW f, SoundEntry(f, z, n + 1, i), f.id = n + 1,
           f.inc = d.by[z].inc, f.serial = d.by[z].serial,
           NEW wN, DOMAIN wN = DOMAIN w, wN[z] = f.hidden,
           \A y \in DOMAIN w : y # z => wN[y] = w[y]
    PROVE  /\ Grown(d.by, n, i, DirInsert(d, f).by, n + 1, i)
           /\ DirOK(DirInsert(d, f), n + 1, i, wN, g)
  <1>0. SoundDirectory(d.by, n, i) /\ n \in Nat /\ i \in Nat /\ z \in Origins
    BY DEF DirOK, SoundDirectory
  <1>1. f.origin = z BY DEF SoundEntry, EntryType
  <1>2. DirInsert(d, f).by = Put(d.by, z, f) BY <1>1, InsertBy
  <1>3. Succeeds(f, z, d.by, n, i)
    <2>1. f.id > n BY <1>0
    <2> QED BY <2>1 DEF Succeeds
  <1>4. Grown(d.by, n, i, Put(d.by, z, f), n + 1, i)
    <2>1. n + 1 \in Nat /\ n < n + 1 /\ i <= i BY <1>0
    <2> QED BY <1>0, <1>3, <2>1, PutGrows
  <1>5. /\ DOMAIN Put(d.by, z, f) = DOMAIN d.by /\ Put(d.by, z, f)[z] = f
        /\ \A y \in DOMAIN d.by : y # z => Put(d.by, z, f)[y] = d.by[y]
    BY DEF Put
  <1>6. SoundDirectory(Put(d.by, z, f), n + 1, i) BY <1>4 DEF Grown
  <1>7. DirOK(DirInsert(d, f), n + 1, i, wN, g) BY <1>2, <1>5, <1>6 DEF DirOK
  <1> QED BY <1>2, <1>4, <1>7

\* Nothing is removed.
LEMMA NothingGone ==
    ASSUME NEW g, NEW by
    PROVE  GoneFrom(g, g, by)
  BY DEF GoneFrom

\* An entry is replaced and nothing else happens.
LEMMA ReplaceStep ==
    ASSUME StoreInv, NEW z, z \in DOMAIN dir.by,
           NEW f, SoundEntry(f, z, ids + 1, incs), f.id = ids + 1,
           f.inc = dir.by[z].inc, f.serial = dir.by[z].serial,
           dir' = DirInsert(dir, f), ids' = ids + 1, incs' = incs, gone' = gone,
           DOMAIN wanted' = DOMAIN wanted, wanted'[z] = f.hidden,
           \A y \in DOMAIN wanted : y # z => wanted'[y] = wanted[y],
           prep' = prep, ins' = ins, comp' = comp \/ CompOK(comp', ids', incs')
    PROVE  StoreInv' /\ SerialsKept
  <1>1. DirOK(dir, ids, incs, wanted, gone) BY DEF StoreInv
  <1>2. /\ Grown(dir.by, ids, incs, dir'.by, ids', incs')
        /\ DirOK(dir', ids', incs', wanted', gone')
    <2> DEFINE w == wanted'
    <2>1. DOMAIN w = DOMAIN wanted /\ w[z] = f.hidden
          /\ \A y \in DOMAIN wanted : y # z => w[y] = wanted[y]
      OBVIOUS
    <2> HIDE DEF w
    <2>2. /\ Grown(dir.by, ids, incs, DirInsert(dir, f).by, ids + 1, incs)
          /\ DirOK(DirInsert(dir, f), ids + 1, incs, w, gone)
      BY <1>1, <2>1, Replaced
    <2> QED BY <2>2 DEF w
  <1> QED BY <1>2, NothingGone, StepGrown, GrownKeeps

\* Nothing of the directory changes.
LEMMA QuietStep ==
    ASSUME StoreInv, UNCHANGED <<dir, ids, incs, wanted, gone, prep, ins>>,
           comp' = comp \/ CompOK(comp', ids', incs')
    PROVE  StoreInv' /\ SerialsKept
  BY DEF StoreInv, SerialsKept

\* The visibility of the entry that is there is the one that was asked for.
LEMMA WantedHere ==
    ASSUME StoreInv, NEW z, z \in DOMAIN dir.by
    PROVE  /\ Get(dir, z) = dir.by[z] /\ SoundEntry(dir.by[z], z, ids, incs)
           /\ wanted[z] = dir.by[z].hidden /\ DOMAIN wanted = DOMAIN dir.by
           /\ ids \in Nat /\ incs \in Nat /\ z \in Origins
  <1>1. SoundDirectory(dir.by, ids, incs) BY DEF StoreInv, DirOK
  <1>2. Get(dir, z) = dir.by[z] /\ SoundEntry(dir.by[z], z, ids, incs) BY <1>1, GetFacts
  <1> QED BY <1>1, <1>2 DEF StoreInv, DirOK, SoundDirectory

\* What has an address is in the directory.
LEMMA PresentHere ==
    ASSUME StoreInv, NEW z
    PROVE  (Get(dir, z).id # None) <=> (z \in DOMAIN dir.by)
  <1>1. SoundDirectory(dir.by, ids, incs) BY DEF StoreInv, DirOK
  <1> QED BY <1>1, GetFacts

\* expire_zone_if_snapshot.
LEMMA ExpireStep == ASSUME StoreInv, ExpireIfSnapshot PROVE StoreInv' /\ SerialsKept
  <1> DEFINE z == view.zone
             e == Get(dir, z)
             f == WithState(e, ids + 1, "Expired")
  <1>0. UNCHANGED <<incs, prep, comp, ins, wanted, gone>> BY DEF ExpireIfSnapshot
  <1>1. CASE IsCurrentSnapshot(view) /\ view.own /\ e.state # "Expired"
    <2>1. dir' = DirInsert(dir, f) /\ ids' = ids + 1 BY <1>1 DEF ExpireIfSnapshot
    <2>2. z \in DOMAIN dir.by
      <3>1. e.id # None BY <1>1 DEF IsCurrentSnapshot
      <3> QED BY <3>1, PresentHere
    <2>3. /\ e = dir.by[z] /\ SoundEntry(e, z, ids, incs) /\ wanted[z] = e.hidden
          /\ DOMAIN wanted = DOMAIN dir.by /\ ids \in Nat /\ incs \in Nat
      BY <2>2, WantedHere
    <2> HIDE DEF e, z
    <2>4. SoundEntry(f, z, ids + 1, incs) /\ f.id = ids + 1 /\ Retains(f, e)
      BY <2>3, ExpiredIsSound
    <2> HIDE DEF f
    <2> QED BY <1>0, <2>1, <2>2, <2>3, <2>4, ReplaceStep DEF Retains
  <1>2. CASE ~(IsCurrentSnapshot(view) /\ view.own /\ e.state # "Expired")
    <2>1. UNCHANGED <<dir, ids>> BY <1>2 DEF ExpireIfSnapshot
    <2> QED BY <1>0, <2>1, QuietStep
  <1> QED BY <1>1, <1>2

\* activate_zone_if_snapshot.
LEMMA ActivateStep == ASSUME StoreInv, ActivateIfSnapshot PROVE StoreInv' /\ SerialsKept
  <1> DEFINE z == view.zone
             e == Get(dir, z)
             f == Activated(e, ids + 1)
  <1>0. UNCHANGED <<incs, prep, comp, ins, wanted, gone>> BY DEF ActivateIfSnapshot
  <1>1. CASE IsCurrentSnapshot(view) /\ e.state = "Expired" /\ view.serial # NoSerial
    <2>1. dir' = DirInsert(dir, f) /\ ids' = ids + 1 BY <1>1 DEF ActivateIfSnapshot
    <2>2. z \in DOMAIN dir.by
      <3>1. e.id # None BY <1>1 DEF IsCurrentSnapshot
      <3> QED BY <3>1, PresentHere
    <2>3. /\ e = dir.by[z] /\ SoundEntry(e, z, ids, incs) /\ wanted[z] = e.hidden
          /\ DOMAIN wanted = DOMAIN dir.by /\ ids \in Nat /\ incs \in Nat
      BY <2>2, WantedHere
    <2> HIDE DEF e, z
    <2>4. SoundEntry(f, z, ids + 1, incs) /\ f.id = ids + 1 /\ Retains(f, e)
      BY <2>3, ActivatedIsSound
    <2> HIDE DEF f
    <2> QED BY <1>0, <2>1, <2>2, <2>3, <2>4, ReplaceStep DEF Retains
  <1>2. CASE ~(IsCurrentSnapshot(view) /\ e.state = "Expired" /\ view.serial # NoSerial)
    <2>1. UNCHANGED <<dir, ids>> BY <1>2 DEF ActivateIfSnapshot
    <2> QED BY <1>0, <2>1, QuietStep
  <1> QED BY <1>1, <1>2

\* publish_compacted_base.
LEMMA CompactStep == ASSUME StoreInv, CompactFinish PROVE StoreInv' /\ SerialsKept
  <1> DEFINE z == comp.zone
             e == Get(dir, z)
             f == Compacted(e, ids + 1, comp.snap)
  <1>0. UNCHANGED <<incs, prep, ins, wanted, gone>> /\ comp # NoWork /\ comp' = NoWork
    BY DEF CompactFinish
  <1>3. CompOK(comp', ids', incs') BY <1>0 DEF CompOK
  <1>1. CASE ~CompactObsolete(e)
    <2>1. dir' = DirInsert(dir, f) /\ ids' = ids + 1 BY <1>1 DEF CompactFinish
    <2>5. e.id # None /\ e.inc = comp.inc /\ e.state = "Active" BY <1>1 DEF CompactObsolete
    <2>2. z \in DOMAIN dir.by BY <2>5, PresentHere
    <2>3. /\ e = dir.by[z] /\ SoundEntry(e, z, ids, incs) /\ wanted[z] = e.hidden
          /\ DOMAIN wanted = DOMAIN dir.by /\ ids \in Nat /\ incs \in Nat
      BY <2>2, WantedHere
    <2>6. comp.snap \in [id : 1 .. ids, inc : 1 .. incs] /\ comp.snap.inc = e.inc
      BY <1>0, <2>5 DEF StoreInv, CompOK
    <2> HIDE DEF e, z
    <2>4. SoundEntry(f, z, ids + 1, incs) /\ f.id = ids + 1 /\ Retains(f, e)
      <3> DEFINE s == comp.snap
      <3>1. s \in [id : 1 .. ids, inc : 1 .. incs] /\ s.inc = e.inc BY <2>6
      <3> HIDE DEF s
      <3> QED BY <2>3, <2>5, <3>1, CompactedIsSound DEF s
    <2> HIDE DEF f
    <2> QED BY <1>0, <1>3, <2>1, <2>2, <2>3, <2>4, ReplaceStep DEF Retains
  <1>2. CASE CompactObsolete(e)
    <2>1. UNCHANGED <<dir, ids>> BY <1>2 DEF CompactFinish
    <2> QED BY <1>0, <1>3, <2>1, QuietStep
  <1> QED BY <1>1, <1>2

\* hide_zone and show_zone.
LEMMA HideStep ==
    ASSUME StoreInv, NEW z \in Origins, NEW hidden \in BOOLEAN, SetHidden(z, hidden)
    PROVE  StoreInv' /\ SerialsKept
  <1> DEFINE e == Get(dir, z)
             f == WithHidden(e, ids + 1, hidden)
  <1>0. /\ UNCHANGED <<incs, prep, comp, ins, gone>> /\ wanted' = Put(wanted, z, hidden)
        /\ dir' = DirInsert(dir, f) /\ ids' = ids + 1 /\ e.id # None
    BY DEF SetHidden
  <1>2. z \in DOMAIN dir.by BY <1>0, PresentHere
  <1>3. /\ e = dir.by[z] /\ SoundEntry(e, z, ids, incs) /\ wanted[z] = e.hidden
        /\ DOMAIN wanted = DOMAIN dir.by /\ ids \in Nat /\ incs \in Nat
    BY <1>2, WantedHere
  <1> HIDE DEF e
  <1>4. /\ SoundEntry(f, z, ids + 1, incs) /\ f.id = ids + 1 /\ f.hidden = hidden
        /\ f.inc = e.inc /\ f.serial = e.serial
    <2> DEFINE n == ids
               i == incs
    <2>1. SoundEntry(e, z, n, i) /\ n \in Nat /\ i \in Nat BY <1>3
    <2> HIDE DEF n, i
    <2>2. /\ SoundEntry(WithHidden(e, n + 1, hidden), z, n + 1, i)
          /\ WithHidden(e, n + 1, hidden).hidden = hidden
          /\ WithHidden(e, n + 1, hidden).id = n + 1
          /\ WithHidden(e, n + 1, hidden).inc = e.inc
          /\ WithHidden(e, n + 1, hidden).serial = e.serial
      BY <2>1, HiddenIsSound
    <2> QED BY <2>2 DEF n, i
  <1> HIDE DEF f
  <1>5. /\ DOMAIN wanted' = DOMAIN wanted /\ wanted'[z] = f.hidden
        /\ \A y \in DOMAIN wanted : y # z => wanted'[y] = wanted[y]
    BY <1>0, <1>2, <1>3, <1>4 DEF Put
  <1> QED BY <1>0, <1>2, <1>3, <1>4, <1>5, ReplaceStep

\* A transfer whose slot is free prepares from what the directory has.
LEMMA PrepareStep ==
    ASSUME Parameters, StoreInv, NEW t \in Transfers, NEW z \in Origins,
           NEW serial \in 0 .. Serials - 1, NEW sharded \in Sharding, NEW re \in Retransfers,
           Prepare(t, z, serial, sharded, re)
    PROVE  StoreInv'
  <1> DEFINE old == Get(dir, z)
             inc == IF old.id = None THEN incs + 1 ELSE old.inc
             hidden == old.id # None /\ old.hidden
             j == IF old.id = None THEN incs + 1 ELSE incs
             f == NewEntry(z, ids + 1, serial, hidden, inc, old, sharded)
             p == [zone |-> z, expected |-> old, retransfer |-> re, entry |-> f]
  <1>0. /\ prep[t] = NoPrep /\ prep' = [prep EXCEPT ![t] = p] /\ ids' = ids + 1 /\ incs' = j
        /\ UNCHANGED <<dir, view, comp, ins, wanted, gone>>
    BY DEF Prepare
  <1>1. SoundDirectory(dir.by, ids, incs) /\ ids \in Nat /\ incs \in Nat
    BY DEF StoreInv, DirOK, SoundDirectory
  <1>2. /\ (old.id = None) <=> (z \notin DOMAIN dir.by)
        /\ z \in DOMAIN dir.by => old = dir.by[z] /\ SoundEntry(old, z, ids, incs)
        /\ z \notin DOMAIN dir.by => old = NoEntry
    BY <1>1, GetFacts
  <1>3. j \in Nat /\ incs <= j /\ inc \in 1 .. j
    <2>1. z \in DOMAIN dir.by => old.inc \in 1 .. incs BY <1>2 DEF SoundEntry, EntryType
    <2> QED BY <1>1, <1>2, <2>1
  <1>4. hidden \in BOOLEAN OBVIOUS
  <1>5. sharded \in BOOLEAN /\ serial \in 0 .. Serials BY DEF Parameters
  <1>6. BuiltFrom(old, z, ids, incs, inc) BY <1>2 DEF BuiltFrom
  <1>7. /\ SoundEntry(f, z, ids + 1, j) /\ f.id = ids + 1 /\ f.hidden = hidden /\ f.inc = inc
    <2> HIDE DEF hidden, inc, old, j
    <2> QED BY <1>1, <1>3, <1>4, <1>5, <1>6, NewIsSound
  <1>8. p.zone = z /\ p.expected = old /\ p.entry = f OBVIOUS
  <1> HIDE DEF f, p
  <1>9. Grown(dir.by, ids, incs, dir.by, ids + 1, j)
    <2>1. ids + 1 \in Nat /\ ids + 1 >= ids /\ j >= incs /\ ids <= ids + 1 BY <1>1, <1>3
    <2>2. \A x \in DOMAIN dir.by : SoundEntry(dir.by[x], x, ids + 1, j)
      <3> HIDE DEF j
      <3> QED BY <1>1, <1>3, <2>1, SoundEntryMono DEF SoundDirectory
    <2>3. SoundDirectory(dir.by, ids + 1, j)
      <3> HIDE DEF j
      <3> QED BY <1>1, <1>3, <2>1, <2>2 DEF SoundDirectory
    <2>4. \A x \in DOMAIN dir.by : Succeeds(dir.by[x], x, dir.by, ids, incs) BY DEF Succeeds
    <2> QED BY <2>1, <2>3, <2>4 DEF Grown
  <1>10. GoneFrom(gone, gone, dir.by) BY NothingGone
  <1>11. /\ PrepsOK(prep, dir, ids + 1, j, gone) /\ InsOK(ins, prep, dir, ids + 1, j, gone)
         /\ CompOK(comp, ids + 1, j)
    <2> HIDE DEF j
    <2>1. ids + 1 \in Nat /\ ids + 1 >= ids /\ j >= incs BY <1>1, <1>3
    <2> QED BY <1>1, <1>3, <1>9, <1>10, <2>1, PrepsGrown, InsGrown, CompGrown DEF StoreInv
  <1>12. DirOK(dir, ids + 1, j, wanted, gone)
    <2>1. gone \subseteq 1 .. j BY <1>1, <1>3 DEF StoreInv, DirOK
    <2> QED BY <1>9, <2>1 DEF StoreInv, DirOK, Grown
  <1>13. \A x \in DOMAIN dir.by : dir.by[x].id \in 1 .. ids /\ dir.by[x].inc \in 1 .. incs
    BY <1>1 DEF SoundDirectory, SoundEntry, EntryType
  <1>14. \A u \in Transfers : prep[u] # NoPrep =>
            /\ prep[u].expected.id \in 0 .. ids /\ prep[u].entry.id \in 1 .. ids
            /\ prep[u].entry.inc \in 1 .. incs /\ Unplaced(prep[u].entry.id, dir.by)
    <2> SUFFICES ASSUME NEW u \in Transfers, prep[u] # NoPrep
                 PROVE /\ prep[u].expected.id \in 0 .. ids /\ prep[u].entry.id \in 1 .. ids
                       /\ prep[u].entry.inc \in 1 .. incs /\ Unplaced(prep[u].entry.id, dir.by)
      OBVIOUS
    <2>1. PreparedOK(prep[u], dir, ids, incs, gone) BY DEF StoreInv, PrepsOK
    <2>2. Captured(prep[u].expected, prep[u].zone, dir, ids, incs)
          /\ SoundEntry(prep[u].entry, prep[u].zone, ids, incs)
      BY <2>1 DEF PreparedOK
    <2>3. prep[u].expected.id \in 0 .. ids BY <1>1, <2>2, CapturedId
    <2> QED BY <2>1, <2>2, <2>3 DEF PreparedOK, SoundEntry, EntryType
  <1>15. PreparedOK(p, dir, ids + 1, j, gone)
    <2>1. Captured(old, z, dir, ids + 1, j)
      <3>1. old = NoEntry \/ SoundEntry(old, z, ids + 1, j)
        BY <1>1, <1>2, <1>3, SoundEntryMono
      <3> QED BY <3>1 DEF Captured
    <2>2. Unplaced(f.id, dir.by) BY <1>1, <1>7, <1>13 DEF Unplaced
    <2>3. old.id = None => ~f.hidden /\ Unclaimed(f.inc, dir.by, gone)
      <3>1. incs + 1 \notin gone BY <1>1 DEF StoreInv, DirOK
      <3>2. \A x \in DOMAIN dir.by : dir.by[x].inc # incs + 1 BY <1>1, <1>13
      <3> HIDE DEF old
      <3>3. old.id = None => f.inc = incs + 1 /\ f.hidden = FALSE BY <1>7
      <3> QED BY <3>1, <3>2, <3>3 DEF Unclaimed
    <2>4. old.id # None => f.hidden = old.hidden /\ f.inc = old.inc
      <3>1. z \in DOMAIN dir.by => old.hidden \in BOOLEAN BY <1>2 DEF SoundEntry, EntryType
      <3> QED BY <1>2, <1>7, <3>1
    <2> QED BY <1>7, <1>8, <2>1, <2>2, <2>3, <2>4 DEF PreparedOK
  <1>16. old.id \in 0 .. ids /\ (old.id # None => ~Unplaced(old.id, dir.by))
    <2>1. z \in DOMAIN dir.by => old.id \in 1 .. ids BY <1>2, <1>13
    <2> QED BY <1>1, <1>2, <2>1 DEF Unplaced, None
  <1>17. /\ prep'[t] = p /\ \A u \in Transfers : u # t => prep'[u] = prep[u]
         /\ prep' = [u \in Transfers |-> prep'[u]]
    BY <1>0 DEF StoreInv, PrepsOK
  <1>18. PrepsOK(prep', dir, ids + 1, j, gone)
    <2>1. \A u \in Transfers : prep'[u] # NoPrep => PreparedOK(prep'[u], dir, ids + 1, j, gone)
      BY <1>11, <1>15, <1>17 DEF PrepsOK
    <2>2. ASSUME NEW u \in Transfers, u # t, prep[u] # NoPrep
          PROVE  /\ prep[u].expected.id # p.entry.id /\ p.expected.id # prep[u].entry.id
                 /\ Apart(p, prep[u]) /\ Apart(prep[u], p)
      <3>1. /\ prep[u].expected.id \in 0 .. ids /\ prep[u].entry.id \in 1 .. ids
            /\ prep[u].entry.inc \in 1 .. incs /\ Unplaced(prep[u].entry.id, dir.by)
        BY <1>14, <2>2
      <3>2. p.entry.id = ids + 1 /\ p.expected = old BY <1>7, <1>8
      <3>3. prep[u].expected.id # p.entry.id /\ p.entry.id # prep[u].entry.id
        BY <1>1, <3>1, <3>2
      <3>4. p.expected.id # prep[u].entry.id
        <4>1. CASE old.id = None BY <3>1, <3>2, <4>1 DEF None
        <4>2. CASE old.id # None BY <1>16, <3>1, <3>2, <4>2
        <4> QED BY <4>1, <4>2
      <3>5. p.expected.id = None => p.entry.inc # prep[u].entry.inc
        BY <1>1, <1>7, <1>8, <3>1
      <3> QED BY <3>3, <3>4, <3>5 DEF Apart
    <2>3. p.expected.id # p.entry.id BY <1>1, <1>7, <1>8, <1>16
    <2>4. \A u, v \in Transfers : prep[u] # NoPrep /\ prep[v] # NoPrep =>
            prep[v].expected.id # prep[u].entry.id /\ (u # v => Apart(prep[u], prep[v]))
      BY DEF StoreInv, PrepsOK
    <2>5. \A u, v \in Transfers : prep'[u] # NoPrep /\ prep'[v] # NoPrep =>
            prep'[v].expected.id # prep'[u].entry.id /\ (u # v => Apart(prep'[u], prep'[v]))
      BY <1>17, <2>2, <2>3, <2>4
    <2> QED BY <1>17, <2>1, <2>5 DEF PrepsOK
  <1>19. InsOK(ins, prep', dir, ids + 1, j, gone)
    <2> SUFFICES ASSUME ins # NoWork PROVE ClearOf(ins, prep') BY <1>11 DEF InsOK
    <2>1. RestoringOK(ins, dir, ids, incs, gone) /\ ClearOf(ins, prep) BY DEF StoreInv, InsOK
    <2>2. Captured(ins.expected, ins.zone, dir, ids, incs) /\ ins.inc \in 1 .. incs
      BY <2>1 DEF RestoringOK
    <2>3. ins.expected.id \in 0 .. ids BY <1>1, <2>2, CapturedId
    <2>4. ins.expected.id # p.entry.id BY <1>1, <1>7, <1>8, <2>3
    <2>5. p.expected.id = None => ins.inc # p.entry.inc BY <1>1, <1>7, <1>8, <2>2
    <2> QED BY <1>17, <2>1, <2>4, <2>5 DEF ClearOf
  <1> QED BY <1>0, <1>11, <1>12, <1>18, <1>19 DEF StoreInv

\* Dropping a prepared publication.
LEMMA RefuseStep ==
    ASSUME StoreInv, NEW t \in Transfers, PublishRefused(t)
    PROVE  StoreInv'
  <1>1. /\ prep' = [prep EXCEPT ![t] = NoPrep]
        /\ UNCHANGED <<dir, ids, incs, view, comp, ins, wanted, gone>>
    BY DEF PublishRefused
  <1>2. /\ prep'[t] = NoPrep /\ \A u \in Transfers : u # t => prep'[u] = prep[u]
        /\ prep' = [u \in Transfers |-> prep'[u]]
    BY <1>1 DEF StoreInv, PrepsOK
  <1>3. PrepsOK(prep', dir, ids, incs, gone)
    <2>1. \A u \in Transfers : prep'[u] # NoPrep => prep'[u] = prep[u] /\ prep[u] # NoPrep
      BY <1>2
    <2> QED BY <1>2, <2>1 DEF StoreInv, PrepsOK
  <1>4. InsOK(ins, prep', dir, ids, incs, gone)
    <2>1. ClearOf(ins, prep) => ClearOf(ins, prep') BY <1>2 DEF ClearOf
    <2> QED BY <2>1 DEF StoreInv, InsOK
  <1> QED BY <1>1, <1>3, <1>4 DEF StoreInv

(* f goes in at z, with an address that may have been given out before.     *)
Places(d, n, i, f, z, dN, nN) ==
    /\ nN \in Nat /\ nN >= n /\ z \in Origins
    /\ SoundEntry(f, z, nN, i)
    /\ dN.by = Put(d.by, z, f)
    /\ \A y \in DOMAIN d.by : y # z => d.by[y].inc # f.inc

\* The directory after it.
LEMMA PlacedDirectory ==
    ASSUME NEW d, NEW n, NEW i, NEW f, NEW z, NEW dN, NEW nN,
           SoundDirectory(d.by, n, i), Places(d, n, i, f, z, dN, nN)
    PROVE  /\ SoundDirectory(dN.by, nN, i)
           /\ DOMAIN dN.by = DOMAIN d.by \cup {z} /\ dN.by[z] = f
           /\ \A y \in DOMAIN d.by : y # z => dN.by[y] = d.by[y]
  <1>0. n \in Nat /\ i \in Nat /\ nN \in Nat /\ nN >= n /\ i >= i
    BY DEF SoundDirectory, Places
  <1>1. /\ DOMAIN dN.by = DOMAIN d.by \cup {z} /\ dN.by[z] = f
        /\ \A y \in DOMAIN d.by : y # z => dN.by[y] = d.by[y]
        /\ dN.by = [x \in DOMAIN dN.by |-> dN.by[x]]
    BY DEF Places, Put
  <1>2. \A x \in DOMAIN d.by : SoundEntry(d.by[x], x, nN, i)
    BY <1>0, SoundEntryMono DEF SoundDirectory
  <1>3. \A x \in DOMAIN dN.by : SoundEntry(dN.by[x], x, nN, i) BY <1>1, <1>2 DEF Places
  <1>4. \A x, y \in DOMAIN dN.by : dN.by[x].inc = dN.by[y].inc => x = y
    BY <1>1 DEF Places, SoundDirectory
  <1>5. DOMAIN dN.by \subseteq Origins BY <1>1 DEF Places, SoundDirectory
  <1> QED BY <1>0, <1>1, <1>3, <1>4, <1>5 DEF SoundDirectory

\* A captured entry of another address stays captured.
LEMMA PlacedCaptured ==
    ASSUME NEW d, NEW n, NEW i, NEW f, NEW z, NEW dN, NEW nN, NEW old, NEW x,
           SoundDirectory(d.by, n, i), Places(d, n, i, f, z, dN, nN),
           Captured(old, x, d, n, i), old.id # f.id
    PROVE  Captured(old, x, dN, nN, i)
  <1>1. /\ SoundDirectory(dN.by, nN, i)
        /\ DOMAIN dN.by = DOMAIN d.by \cup {z} /\ dN.by[z] = f
        /\ \A y \in DOMAIN d.by : y # z => dN.by[y] = d.by[y]
    BY PlacedDirectory
  <1>2. nN >= n /\ i >= i BY DEF Places, SoundDirectory
  <1>3. x \in DOMAIN dN.by => (x \in DOMAIN d.by /\ dN.by[x] = d.by[x]) \/ dN.by[x].id # old.id
    BY <1>1
  <1> QED BY <1>1, <1>2, <1>3, CapturedKept

\* So does a publication with another address and incarnation.
LEMMA PlacedPrepared ==
    ASSUME NEW d, NEW n, NEW i, NEW f, NEW z, NEW dN, NEW nN, NEW g, NEW q,
           SoundDirectory(d.by, n, i), Places(d, n, i, f, z, dN, nN),
           PreparedOK(q, d, n, i, g), q.expected.id # f.id, q.entry.id # f.id,
           q.expected.id = None => q.entry.inc # f.inc
    PROVE  PreparedOK(q, dN, nN, i, g)
  <1>0. n \in Nat /\ i \in Nat /\ nN \in Nat /\ n <= nN /\ i <= i
    BY DEF SoundDirectory, Places
  <1>1. /\ DOMAIN dN.by = DOMAIN d.by \cup {z} /\ dN.by[z] = f
        /\ \A y \in DOMAIN d.by : y # z => dN.by[y] = d.by[y]
    BY PlacedDirectory
  <1>2. Captured(q.expected, q.zone, dN, nN, i) BY PlacedCaptured DEF PreparedOK
  <1>3. SoundEntry(q.entry, q.zone, nN, i) BY <1>0, SoundEntryMono DEF PreparedOK
  <1>4. Unplaced(q.entry.id, dN.by) BY <1>1 DEF PreparedOK, Unplaced
  <1>5. q.expected.id = None => Unclaimed(q.entry.inc, dN.by, g)
    BY <1>1 DEF PreparedOK, Unclaimed
  <1> QED BY <1>2, <1>3, <1>4, <1>5 DEF PreparedOK

\* And a restoration.
LEMMA PlacedRestoring ==
    ASSUME NEW d, NEW n, NEW i, NEW f, NEW z, NEW dN, NEW nN, NEW g, NEW r,
           SoundDirectory(d.by, n, i), Places(d, n, i, f, z, dN, nN),
           RestoringOK(r, d, n, i, g), r.expected.id # f.id,
           r.expected.id = None => r.inc # f.inc
    PROVE  RestoringOK(r, dN, nN, i, g)
  <1>1. /\ DOMAIN dN.by = DOMAIN d.by \cup {z} /\ dN.by[z] = f
        /\ \A y \in DOMAIN d.by : y # z => dN.by[y] = d.by[y]
    BY PlacedDirectory
  <1>2. Captured(r.expected, r.zone, dN, nN, i) BY PlacedCaptured DEF RestoringOK
  <1>5. r.expected.id = None => Unclaimed(r.inc, dN.by, g)
    BY <1>1 DEF RestoringOK, Unclaimed
  <1> QED BY <1>2, <1>5 DEF RestoringOK

Wants(wN, w, z, hidden) ==
    /\ DOMAIN wN = DOMAIN w \cup {z} /\ wN[z] = hidden
    /\ \A y \in DOMAIN w : y # z => wN[y] = w[y]

\* And the directory has what was wanted and nothing that is gone.
LEMMA PlacedDirOK ==
    ASSUME NEW d, NEW n, NEW i, NEW f, NEW z, NEW dN, NEW nN, NEW g, NEW w, NEW wN,
           DirOK(d, n, i, w, g), Places(d, n, i, f, z, dN, nN), f.inc \notin g,
           Wants(wN, w, z, f.hidden)
    PROVE  DirOK(dN, nN, i, wN, g)
  <1>0. SoundDirectory(d.by, n, i) BY DEF DirOK
  <1>1. /\ SoundDirectory(dN.by, nN, i)
        /\ DOMAIN dN.by = DOMAIN d.by \cup {z} /\ dN.by[z] = f
        /\ \A y \in DOMAIN d.by : y # z => dN.by[y] = d.by[y]
    BY <1>0, PlacedDirectory
  <1> QED BY <1>1 DEF DirOK, Wants

\* publish_prepared_snapshot_for_transfer.
LEMMA PublishStep ==
    ASSUME StoreInv, NEW t \in Transfers, PublishPrepared(t)
    PROVE  StoreInv'
  <1> DEFINE p == prep[t]
             f == p.entry
             z == p.zone
  <1>0. /\ p # NoPrep /\ Get(dir, z).id = p.expected.id
        /\ dir' = DirInsert(dir, f) /\ prep' = [prep EXCEPT ![t] = NoPrep]
        /\ wanted' = IF z \in DOMAIN dir.by THEN wanted ELSE Put(wanted, z, FALSE)
        /\ UNCHANGED <<ids, incs, view, comp, ins, gone>>
    BY DEF PublishPrepared, StillCurrent
  <1>1. SoundDirectory(dir.by, ids, incs) /\ ids \in Nat /\ incs \in Nat
        /\ DirOK(dir, ids, incs, wanted, gone)
    BY DEF StoreInv, DirOK, SoundDirectory
  <1>2. PreparedOK(p, dir, ids, incs, gone) BY <1>0 DEF StoreInv, PrepsOK
  <1>3. Get(dir, z) = p.expected BY <1>0, <1>2 DEF PreparedOK, Captured
  <1>4. /\ (p.expected.id = None) <=> (z \notin DOMAIN dir.by)
        /\ z \in DOMAIN dir.by => p.expected = dir.by[z] /\ SoundEntry(dir.by[z], z, ids, incs)
    BY <1>1, <1>3, GetFacts
  <1>5. /\ z \in Origins /\ SoundEntry(f, z, ids, incs)
        /\ p.expected.id = None => ~f.hidden /\ Unclaimed(f.inc, dir.by, gone)
        /\ p.expected.id # None => f.hidden = p.expected.hidden /\ f.inc = p.expected.inc
    BY <1>2 DEF PreparedOK
  <1>6. f.origin = z /\ f.hidden \in BOOLEAN BY <1>5 DEF SoundEntry, EntryType
  <1>7. dir'.by = Put(dir.by, z, f) BY <1>0, <1>6, InsertBy
  <1>8. f.inc \notin gone
    BY <1>1, <1>4, <1>5 DEF DirOK, Unclaimed
  <1>9. \A y \in DOMAIN dir.by : y # z => dir.by[y].inc # f.inc
    BY <1>1, <1>4, <1>5 DEF SoundDirectory, Unclaimed
  <1>10. Places(dir, ids, incs, f, z, dir', ids)
    BY <1>1, <1>5, <1>7, <1>9 DEF Places
  <1>11. /\ DOMAIN wanted' = DOMAIN wanted \cup {z} /\ wanted'[z] = f.hidden
         /\ \A y \in DOMAIN wanted : y # z => wanted'[y] = wanted[y]
    <2>1. DOMAIN wanted = DOMAIN dir.by /\ \A y \in DOMAIN dir.by : dir.by[y].hidden = wanted[y]
      BY <1>1 DEF DirOK
    <2>2. CASE z \in DOMAIN dir.by BY <1>0, <1>4, <1>5, <2>1, <2>2
    <2>3. CASE z \notin DOMAIN dir.by
      <3>1. wanted' = Put(wanted, z, FALSE) /\ f.hidden = FALSE BY <1>0, <1>4, <1>5, <1>6, <2>3
      <3> QED BY <3>1 DEF Put
    <2> QED BY <2>2, <2>3
  <1>12. DirOK(dir', ids, incs, wanted', gone)
    <2> DEFINE w == wanted'
               dN == dir'
    <2>1. Wants(w, wanted, z, f.hidden) /\ Places(dir, ids, incs, f, z, dN, ids)
      BY <1>10, <1>11 DEF Wants
    <2> HIDE DEF w, dN, f, z
    <2>2. DirOK(dN, ids, incs, w, gone) BY <1>1, <1>8, <2>1, PlacedDirOK
    <2> QED BY <2>2 DEF w, dN
  <1>13. /\ prep'[t] = NoPrep /\ \A u \in Transfers : u # t => prep'[u] = prep[u]
         /\ prep' = [u \in Transfers |-> prep'[u]]
    BY <1>0 DEF StoreInv, PrepsOK
  <1>14. \A inc : Unclaimed(inc, dir.by, gone) /\ p.expected.id # None => inc # f.inc
    BY <1>4, <1>5 DEF Unclaimed
  <1>15. ASSUME NEW u \in Transfers, u # t, prep[u] # NoPrep
         PROVE  PreparedOK(prep[u], dir', ids, incs, gone)
    <2> DEFINE q == prep[u]
    <2>1. PreparedOK(q, dir, ids, incs, gone) BY <1>15 DEF StoreInv, PrepsOK
    <2>2. q.expected.id # f.id /\ Apart(p, q) BY <1>0, <1>15 DEF StoreInv, PrepsOK
    <2>3. q.entry.id # f.id BY <2>2 DEF Apart
    <2>4. q.expected.id = None => q.entry.inc # f.inc
      <3>1. CASE p.expected.id = None BY <2>2, <3>1 DEF Apart
      <3>2. CASE p.expected.id # None BY <1>14, <2>1, <3>2 DEF PreparedOK
      <3> QED BY <3>1, <3>2
    <2> DEFINE dN == dir'
    <2>5. Places(dir, ids, incs, f, z, dN, ids) BY <1>10
    <2> HIDE DEF q, f, dN, z
    <2>6. PreparedOK(q, dN, ids, incs, gone) BY <1>1, <2>1, <2>2, <2>3, <2>4, <2>5, PlacedPrepared
    <2> QED BY <2>6 DEF q, dN
  <1>16. PrepsOK(prep', dir', ids, incs, gone)
    <2>1. \A u \in Transfers : prep'[u] # NoPrep =>
             u # t /\ prep'[u] = prep[u] /\ prep[u] # NoPrep
      BY <1>13
    <2>2. \A u \in Transfers : prep'[u] # NoPrep => PreparedOK(prep'[u], dir', ids, incs, gone)
      BY <1>15, <2>1
    <2>3. \A u, v \in Transfers : prep'[u] # NoPrep /\ prep'[v] # NoPrep =>
            prep'[v].expected.id # prep'[u].entry.id /\ (u # v => Apart(prep'[u], prep'[v]))
      BY <2>1 DEF StoreInv, PrepsOK
    <2> QED BY <1>13, <2>2, <2>3 DEF PrepsOK
  <1>17. InsOK(ins, prep', dir', ids, incs, gone)
    <2> SUFFICES ASSUME ins # NoWork
                 PROVE RestoringOK(ins, dir', ids, incs, gone) /\ ClearOf(ins, prep')
      BY DEF InsOK
    <2>1. RestoringOK(ins, dir, ids, incs, gone) /\ ClearOf(ins, prep) BY DEF StoreInv, InsOK
    <2>2. ClearOf(ins, prep') BY <1>13, <2>1 DEF ClearOf
    <2>3. /\ ins.expected.id # f.id
          /\ ins.expected.id = None /\ p.expected.id = None => ins.inc # f.inc
      BY <1>0, <2>1 DEF ClearOf
    <2>4. ins.expected.id = None => ins.inc # f.inc BY <1>14, <2>1, <2>3 DEF RestoringOK
    <2> DEFINE dN == dir'
    <2>5. Places(dir, ids, incs, f, z, dN, ids) BY <1>10
    <2> HIDE DEF f, dN, z
    <2>6. RestoringOK(ins, dN, ids, incs, gone) BY <1>1, <2>1, <2>3, <2>4, <2>5, PlacedRestoring
    <2> QED BY <2>2, <2>6 DEF dN
  <1> QED BY <1>0, <1>12, <1>16, <1>17 DEF StoreInv

\* insert_restored_snapshot reads the directory and finds nothing.
LEMMA RestoreStartStep ==
    ASSUME Parameters, StoreInv, NEW z \in Origins, NEW serial \in Copies,
           NEW force \in BOOLEAN, RestoreStart(z, serial, force)
    PROVE  StoreInv'
  <1> DEFINE old == Get(dir, z)
             j == incs + 1
             r == [zone |-> z, expected |-> old, serial |-> serial, force |-> force, inc |-> j]
  <1>0. /\ old.id = None /\ ins' = r /\ incs' = j
        /\ UNCHANGED <<dir, ids, prep, view, comp, wanted, gone>>
    BY DEF RestoreStart
  <1>1. SoundDirectory(dir.by, ids, incs) /\ ids \in Nat /\ incs \in Nat /\ j \in Nat
    BY DEF StoreInv, DirOK, SoundDirectory
  <1>2. Grown(dir.by, ids, incs, dir.by, ids, j)
    <2>1. ids >= ids /\ ids <= ids /\ j >= incs /\ incs <= j BY <1>1
    <2> HIDE DEF j
    <2>2. \A x \in DOMAIN dir.by : SoundEntry(dir.by[x], x, ids, j)
      BY <1>1, <2>1, SoundEntryMono DEF SoundDirectory
    <2>3. SoundDirectory(dir.by, ids, j) BY <1>1, <2>2 DEF SoundDirectory
    <2> QED BY <2>1, <2>3 DEF Grown, Succeeds
  <1>3. old = NoEntry BY <1>0, <1>1, GetFacts
  <1>4. Unclaimed(j, dir.by, gone)
    <2>1. \A x \in DOMAIN dir.by : dir.by[x].inc \in 1 .. incs
      BY <1>1 DEF SoundDirectory, SoundEntry, EntryType
    <2>2. gone \subseteq 1 .. incs BY DEF StoreInv, DirOK
    <2>3. j \notin 1 .. incs BY <1>1
    <2> QED BY <2>1, <2>2, <2>3 DEF Unclaimed
  <1>5. RestoringOK(r, dir, ids, j, gone)
    <2>1. Captured(old, z, dir, ids, j) BY <1>3 DEF Captured
    <2>2. serial \in 0 .. Serials BY DEF Parameters
    <2>3. j \in 1 .. j BY <1>1
    <2> HIDE DEF j, old
    <2> QED BY <1>0, <1>4, <2>1, <2>2, <2>3 DEF RestoringOK
  <1>6. ClearOf(r, prep)
    <2> SUFFICES ASSUME NEW t \in Transfers, prep[t] # NoPrep
                 PROVE  r.expected.id # prep[t].entry.id /\ r.inc # prep[t].entry.inc
      BY DEF ClearOf
    <2>1. PreparedOK(prep[t], dir, ids, incs, gone) BY DEF StoreInv, PrepsOK
    <2>2. prep[t].entry.id \in 1 .. ids /\ prep[t].entry.inc \in 1 .. incs
      BY <2>1 DEF PreparedOK, SoundEntry, EntryType
    <2> QED BY <1>0, <1>1, <2>2 DEF None
  <1> HIDE DEF r
  <1>7. /\ PrepsOK(prep, dir, ids, j, gone) /\ CompOK(comp, ids, j)
    <2>1. ids >= ids /\ j >= incs BY <1>1
    <2> HIDE DEF j
    <2> QED BY <1>1, <1>2, <2>1, NothingGone, PrepsGrown, CompGrown DEF StoreInv
  <1>8. DirOK(dir, ids, j, wanted, gone)
    <2>1. gone \subseteq 1 .. j BY <1>1 DEF StoreInv, DirOK
    <2> QED BY <1>2, <2>1 DEF StoreInv, DirOK, Grown
  <1>9. InsOK(r, prep, dir, ids, j, gone) BY <1>5, <1>6 DEF InsOK
  <1> QED BY <1>0, <1>7, <1>8, <1>9 DEF StoreInv

\* try_replace_snapshot finds another entry than the one it prepared from.
LEMMA RestoreRetryStep == ASSUME StoreInv, RestoreRetry PROVE StoreInv'
  <1> DEFINE z == ins.zone
             old == Get(dir, z)
             j == IF old.id = None THEN incs + 1 ELSE incs
             inc == IF old.id = None THEN incs + 1 ELSE old.inc
             r == [ins EXCEPT !.expected = old, !.inc = inc]
  <1>0. /\ ins # NoWork /\ ins' = r /\ incs' = j
        /\ UNCHANGED <<dir, ids, prep, view, comp, wanted, gone>>
    BY DEF RestoreRetry
  <1>1. SoundDirectory(dir.by, ids, incs) /\ ids \in Nat /\ incs \in Nat
    BY DEF StoreInv, DirOK, SoundDirectory
  <1>2. RestoringOK(ins, dir, ids, incs, gone) BY <1>0 DEF StoreInv, InsOK
  <1>3. /\ (old.id = None) <=> (z \notin DOMAIN dir.by)
        /\ z \in DOMAIN dir.by => old = dir.by[z] /\ SoundEntry(old, z, ids, incs)
        /\ z \notin DOMAIN dir.by => old = NoEntry
    BY <1>1, GetFacts
  <1>4. \A x \in DOMAIN dir.by : dir.by[x].inc \in 1 .. incs /\ dir.by[x].id \in 1 .. ids
    BY <1>1 DEF SoundDirectory, SoundEntry, EntryType
  <1>5. j \in Nat /\ j >= incs /\ incs <= j /\ inc \in 1 .. j BY <1>1, <1>3, <1>4
  <1>6. Grown(dir.by, ids, incs, dir.by, ids, j)
    <2>1. ids >= ids /\ ids <= ids BY <1>1
    <2> HIDE DEF j
    <2>2. \A x \in DOMAIN dir.by : SoundEntry(dir.by[x], x, ids, j)
      BY <1>1, <1>5, <2>1, SoundEntryMono DEF SoundDirectory
    <2>3. SoundDirectory(dir.by, ids, j) BY <1>1, <1>5, <2>2 DEF SoundDirectory
    <2> QED BY <1>5, <2>1, <2>3 DEF Grown, Succeeds
  <1>7. old.id = None => Unclaimed(inc, dir.by, gone)
    <2>1. gone \subseteq 1 .. incs BY DEF StoreInv, DirOK
    <2>2. incs + 1 \notin 1 .. incs BY <1>1
    <2>3. old.id = None => inc = incs + 1 OBVIOUS
    <2> HIDE DEF inc, old
    <2> QED BY <1>4, <2>1, <2>2, <2>3 DEF Unclaimed
  <1>8. /\ r.zone = z /\ r.expected = old /\ r.serial = ins.serial /\ r.force = ins.force
        /\ r.inc = inc /\ DOMAIN r = {"zone", "expected", "serial", "force", "inc"}
    <2> HIDE DEF old, inc
    <2> QED BY <1>2 DEF RestoringOK
  <1>9. RestoringOK(r, dir, ids, j, gone)
    <2>1. Captured(old, z, dir, ids, j)
      <3>0. ids <= ids BY <1>1
      <3>1. old = NoEntry \/ SoundEntry(old, z, ids, j) BY <1>1, <1>3, <1>5, <3>0, SoundEntryMono
      <3> QED BY <3>1 DEF Captured
    <2>2. z \in Origins /\ ins.serial \in 0 .. Serials /\ ins.force \in BOOLEAN
      BY <1>2 DEF RestoringOK
    <2>3. old.id # None => inc = old.inc OBVIOUS
    <2> HIDE DEF j, old, inc, z, r
    <2> QED BY <1>5, <1>7, <1>8, <2>1, <2>2, <2>3 DEF RestoringOK
  <1>10. ClearOf(r, prep)
    <2> SUFFICES ASSUME NEW t \in Transfers, prep[t] # NoPrep
                 PROVE  /\ r.expected.id # prep[t].entry.id
                        /\ r.expected.id = None => r.inc # prep[t].entry.inc
      BY DEF ClearOf
    <2>1. PreparedOK(prep[t], dir, ids, incs, gone) BY DEF StoreInv, PrepsOK
    <2>2. /\ prep[t].entry.id \in 1 .. ids /\ prep[t].entry.inc \in 1 .. incs
          /\ Unplaced(prep[t].entry.id, dir.by)
      BY <2>1 DEF PreparedOK, SoundEntry, EntryType
    <2>3. r.expected = old /\ r.inc = inc BY <1>8
    <2>4. old.id # prep[t].entry.id
      <3>1. CASE old.id = None BY <2>2, <3>1 DEF None
      <3>2. CASE old.id # None BY <1>3, <2>2, <3>2 DEF Unplaced
      <3> QED BY <3>1, <3>2
    <2>5. old.id = None => inc # prep[t].entry.inc BY <1>1, <2>2
    <2> HIDE DEF r, old, inc
    <2> QED BY <2>3, <2>4, <2>5
  <1> HIDE DEF r
  <1>11. /\ PrepsOK(prep, dir, ids, j, gone) /\ CompOK(comp, ids, j)
    <2>1. ids >= ids BY <1>1
    <2> HIDE DEF j
    <2> QED BY <1>1, <1>5, <1>6, <2>1, NothingGone, PrepsGrown, CompGrown DEF StoreInv
  <1>12. DirOK(dir, ids, j, wanted, gone)
    <2>1. gone \subseteq 1 .. j BY <1>1, <1>5 DEF StoreInv, DirOK
    <2> QED BY <1>6, <2>1 DEF StoreInv, DirOK, Grown
  <1>13. InsOK(r, prep, dir, ids, j, gone) BY <1>9, <1>10 DEF InsOK
  <1> QED BY <1>0, <1>11, <1>12, <1>13 DEF StoreInv

\* try_replace_snapshot publishes what it restored.
LEMMA RestoreFinishStep ==
    ASSUME Parameters, StoreInv, NEW sharded \in Sharding, RestoreFinish(sharded)
    PROVE  StoreInv'
  <1> DEFINE z == ins.zone
             old == ins.expected
             n == ids + 1
             hidden == ins.force \/ (old.id # None /\ old.hidden)
             f == NewEntry(z, n, ins.serial, hidden, ins.inc, old, sharded)
  <1>0. /\ ins # NoWork /\ Get(dir, z).id = old.id /\ dir' = DirInsert(dir, f)
        /\ ids' = n /\ ins' = NoWork /\ wanted' = Put(wanted, z, hidden)
        /\ UNCHANGED <<incs, prep, view, comp, gone>>
    BY DEF RestoreFinish
  <1>1. /\ SoundDirectory(dir.by, ids, incs) /\ ids \in Nat /\ incs \in Nat /\ n \in Nat
        /\ n >= ids /\ incs <= incs /\ DirOK(dir, ids, incs, wanted, gone)
    BY DEF StoreInv, DirOK, SoundDirectory
  <1>2. RestoringOK(ins, dir, ids, incs, gone) /\ ClearOf(ins, prep)
    BY <1>0 DEF StoreInv, InsOK
  <1>3. /\ z \in Origins /\ ins.serial \in 0 .. Serials /\ ins.inc \in 1 .. incs
        /\ Captured(old, z, dir, ids, incs)
        /\ old.id = None => Unclaimed(ins.inc, dir.by, gone)
        /\ old.id # None => ins.inc = old.inc
    BY <1>2 DEF RestoringOK
  <1>4. Get(dir, z) = old BY <1>0, <1>3 DEF Captured
  <1>5. /\ (old.id = None) <=> (z \notin DOMAIN dir.by)
        /\ z \in DOMAIN dir.by => old = dir.by[z] /\ SoundEntry(old, z, ids, incs)
        /\ z \notin DOMAIN dir.by => old = NoEntry
    BY <1>1, <1>4, GetFacts
  <1>6. hidden \in BOOLEAN
    <2>1. ins.force \in BOOLEAN BY <1>2 DEF RestoringOK
    <2> QED BY <2>1
  <1>7. BuiltFrom(old, z, ids, incs, ins.inc) BY <1>3, <1>5 DEF BuiltFrom
  <1>8. /\ SoundEntry(f, z, n, incs) /\ f.id = n /\ f.hidden = hidden /\ f.inc = ins.inc
    <2> DEFINE i == ins.inc
               s == ins.serial
    <2>1. BuiltFrom(old, z, ids, incs, i) /\ i \in 1 .. incs /\ s \in 0 .. Serials
      BY <1>3, <1>7
    <2>3. sharded \in BOOLEAN BY DEF Parameters
    <2> HIDE DEF i, s, old, z, hidden
    <2>4. /\ SoundEntry(NewEntry(z, ids + 1, s, hidden, i, old, sharded), z, ids + 1, incs)
          /\ NewEntry(z, ids + 1, s, hidden, i, old, sharded).id = ids + 1
          /\ NewEntry(z, ids + 1, s, hidden, i, old, sharded).hidden = hidden
          /\ NewEntry(z, ids + 1, s, hidden, i, old, sharded).inc = i
      BY <1>1, <1>6, <2>1, <2>3, NewIsSound
    <2> QED BY <2>4 DEF i, s
  <1> HIDE DEF f
  <1>9. f.origin = z BY <1>8 DEF SoundEntry, EntryType
  <1>10. dir'.by = Put(dir.by, z, f) BY <1>0, <1>9, InsertBy
  <1>11. f.inc \notin gone BY <1>1, <1>3, <1>5, <1>8 DEF DirOK, Unclaimed
  <1>12. \A y \in DOMAIN dir.by : y # z => dir.by[y].inc # f.inc
    BY <1>1, <1>3, <1>5, <1>8 DEF SoundDirectory, Unclaimed
  <1>13. Places(dir, ids, incs, f, z, dir', n) BY <1>1, <1>3, <1>8, <1>10, <1>12 DEF Places
  <1>14. Wants(wanted', wanted, z, f.hidden)
    <2> HIDE DEF hidden
    <2> QED BY <1>0, <1>8 DEF Wants, Put
  <1> DEFINE dN == dir'
             w == wanted'
  <1>15. Places(dir, ids, incs, f, z, dN, n) /\ Wants(w, wanted, z, f.hidden) BY <1>13, <1>14
  <1> HIDE DEF dN, w, n, z, hidden
  <1>16. DirOK(dN, n, incs, w, gone) BY <1>1, <1>11, <1>15, PlacedDirOK
  <1>17. ASSUME NEW u \in Transfers, prep[u] # NoPrep
         PROVE  PreparedOK(prep[u], dN, n, incs, gone)
    <2> DEFINE q == prep[u]
    <2>1. PreparedOK(q, dir, ids, incs, gone) BY <1>17 DEF StoreInv, PrepsOK
    <2>2. Captured(q.expected, q.zone, dir, ids, incs) /\ SoundEntry(q.entry, q.zone, ids, incs)
      BY <2>1 DEF PreparedOK
    <2>3. q.expected.id \in 0 .. ids BY <1>1, <2>2, CapturedId
    <2>4. q.entry.id \in 1 .. ids BY <2>2 DEF SoundEntry, EntryType
    <2>5. q.expected.id # f.id /\ q.entry.id # f.id BY <1>1, <1>8, <2>3, <2>4 DEF n
    <2>6. q.expected.id = None => q.entry.inc # f.inc
      <3>1. CASE old.id = None BY <1>2, <1>8, <1>17, <3>1 DEF ClearOf
      <3>2. CASE old.id # None
        <4>1. f.inc = dir.by[z].inc /\ z \in DOMAIN dir.by BY <1>3, <1>5, <1>8, <3>2
        <4> QED BY <2>1, <4>1 DEF PreparedOK, Unclaimed
      <3> QED BY <3>1, <3>2
    <2> HIDE DEF q
    <2>7. PreparedOK(q, dN, n, incs, gone) BY <1>1, <1>15, <2>1, <2>5, <2>6, PlacedPrepared
    <2> QED BY <2>7 DEF q
  <1>18. PrepsOK(prep, dN, n, incs, gone) BY <1>17 DEF StoreInv, PrepsOK
  <1>19. CompOK(comp, n, incs)
    <2>1. incs >= incs BY <1>1
    <2> QED BY <1>1, <2>1, CompGrown DEF StoreInv
  <1>20. InsOK(NoWork, prep, dN, n, incs, gone) BY DEF InsOK
  <1> QED BY <1>0, <1>16, <1>18, <1>19, <1>20 DEF StoreInv, dN, w

\* A stage of an update starts from and ends in a sound directory.
LEMMA StageSound ==
    ASSUME NEW acc, NEW new, NEW kind, NEW zones, NEW H, Stage(acc, new, kind, zones, H)
    PROVE  Sound(new)
  BY DEF Stage, AccGrown, Grown, Sound

\* apply_atomic_directory_update, whatever lists it is given.
LEMMA ApplyStep ==
    ASSUME Parameters, StoreInv, NEW loading \in Seq(Origins), NEW removed \in Seq(Origins),
           NEW shown \in Seq(Origins), NEW hidden \in Seq(Origins),
           ApplyAtomicDirectoryUpdate(loading, removed, shown, hidden)
    PROVE  StoreInv' /\ Grown(dir.by, ids, incs, dir'.by, ids', incs')
  <1> DEFINE H == Range(hidden)
             a0 == [d |-> dir, ids |-> ids, incs |-> incs]
             a1 == Changed(a0, ForEach("remove", removed, {}))
             a2 == Changed(a1, ForEach("load", loading, H))
             a3 == Changed(a2, ForEach("toggle", shown, {}))
             a4 == Changed(a3, ForEach("toggle", hidden, H))
  <1>0. /\ dir' = a4.d /\ ids' = a4.ids /\ incs' = a4.incs
        /\ wanted' = [z \in DOMAIN a4.d.by |->
                        IF z \in H THEN TRUE
                        ELSE IF z \in Range(loading) \cup Range(shown) THEN FALSE ELSE wanted[z]]
        /\ gone' = gone \cup {dir.by[z].inc : z \in Range(removed) \cap DOMAIN dir.by}
        /\ UNCHANGED <<prep, view, comp, ins>>
    BY DEF ApplyAtomicDirectoryUpdate
  <1>1. a0.d = dir /\ a0.ids = ids /\ a0.incs = incs /\ IsAcc(a0) BY DEF IsAcc
  <1>2. /\ SoundDirectory(dir.by, ids, incs) /\ gone \subseteq 1 .. incs
        /\ DOMAIN wanted = DOMAIN dir.by /\ \A z \in DOMAIN dir.by : dir.by[z].hidden = wanted[z]
        /\ \A z \in DOMAIN dir.by : dir.by[z].inc \notin gone
    BY DEF StoreInv, DirOK
  <1>3. Sound(a0) BY <1>1, <1>2 DEF Sound
  <1> HIDE DEF a0, a1, a2, a3, a4, H
  <1>4. Stage(a0, a1, "remove", removed, {}) BY <1>3, StageDone DEF a1
  <1>5. Stage(a1, a2, "load", loading, H) BY <1>4, StageSound, StageDone DEF a2
  <1>6. Stage(a2, a3, "toggle", shown, {}) BY <1>5, StageSound, StageDone DEF a3
  <1>7. Stage(a3, a4, "toggle", hidden, H) BY <1>6, StageSound, StageDone DEF a4
  <1>8. /\ Grown(a0.d.by, a0.ids, a0.incs, a1.d.by, a1.ids, a1.incs)
        /\ Grown(a1.d.by, a1.ids, a1.incs, a2.d.by, a2.ids, a2.incs)
        /\ Grown(a2.d.by, a2.ids, a2.incs, a3.d.by, a3.ids, a3.incs)
        /\ Grown(a3.d.by, a3.ids, a3.incs, a4.d.by, a4.ids, a4.incs)
    BY <1>4, <1>5, <1>6, <1>7 DEF Stage, AccGrown
  <1>9. Sound(a1) /\ Sound(a2) /\ Sound(a3) /\ Sound(a4)
    BY <1>4, <1>5, <1>6, <1>7, StageSound
  <1>10. Grown(a1.d.by, a1.ids, a1.incs, a4.d.by, a4.ids, a4.incs)
    <2>1. Grown(a1.d.by, a1.ids, a1.incs, a3.d.by, a3.ids, a3.incs)
      BY <1>8, <1>9, GrownTrans DEF Sound
    <2> QED BY <1>8, <1>9, <2>1, GrownTrans DEF Sound
  <1>11. Grown(a0.d.by, a0.ids, a0.incs, a4.d.by, a4.ids, a4.incs)
    BY <1>3, <1>8, <1>10, GrownTrans DEF Sound
  <1>12. Grown(dir.by, ids, incs, dir'.by, ids', incs') BY <1>0, <1>1, <1>11
  <1>13. \A z \in DOMAIN dir'.by : dir'.by[z].hidden = wanted'[z]
    <2> SUFFICES ASSUME NEW z \in DOMAIN a4.d.by PROVE a4.d.by[z].hidden = wanted'[z]
      BY <1>0
    <2>1. CASE z \in H
      <3>1. a4.d.by[z].hidden = (z \in H) BY <1>7, <2>1 DEF Stage, H
      <3> QED BY <1>0, <2>1, <3>1
    <2>2. CASE z \notin H
      <3>1. z \in DOMAIN a3.d.by /\ a4.d.by[z].hidden = a3.d.by[z].hidden
        BY <1>7, <2>2 DEF Stage, H
      <3>2. CASE z \in Range(shown)
        <4>1. a3.d.by[z].hidden = (z \in {}) BY <1>6, <3>1, <3>2 DEF Stage
        <4>3. (z \in {}) = FALSE OBVIOUS
        <4>2. a3.d.by[z].hidden = FALSE BY <4>1, <4>3, Zenon
        <4> QED BY <1>0, <2>2, <3>1, <3>2, <4>2
      <3>3. CASE z \notin Range(shown)
        <4>1. z \in DOMAIN a2.d.by /\ a3.d.by[z].hidden = a2.d.by[z].hidden
          BY <1>6, <3>1, <3>3 DEF Stage
        <4>2. CASE z \in Range(loading)
          <5>1. a2.d.by[z].hidden = (z \in H) BY <1>5, <4>1, <4>2 DEF Stage
          <5>3. (z \in H) = FALSE BY <2>2
          <5>2. a2.d.by[z].hidden = FALSE BY <5>1, <5>3, Zenon
          <5> QED BY <1>0, <2>2, <3>1, <4>1, <4>2, <5>2
        <4>3. CASE z \notin Range(loading)
          <5>1. z \in DOMAIN a1.d.by /\ a2.d.by[z].hidden = a1.d.by[z].hidden
            BY <1>5, <4>1, <4>3 DEF Stage
          <5>2. z \notin Range(removed) BY <1>4, <5>1 DEF Stage
          <5>3. z \in DOMAIN dir.by /\ a1.d.by[z].hidden = dir.by[z].hidden
            BY <1>1, <1>4, <5>1, <5>2 DEF Stage
          <5>4. wanted'[z] = wanted[z] BY <1>0, <2>2, <3>3, <4>3
          <5> QED BY <1>2, <3>1, <4>1, <5>1, <5>3, <5>4
        <4> QED BY <4>2, <4>3
      <3> QED BY <3>2, <3>3
    <2> QED BY <2>1, <2>2
  <1>14. ids \in Nat /\ incs \in Nat /\ a1.incs \in Nat /\ incs' \in Nat /\ incs' >= incs
         /\ a1.incs >= incs
    BY <1>1, <1>2, <1>8, <1>9, <1>12 DEF Sound, SoundDirectory, Grown
  <1>15. \A z \in DOMAIN dir.by : dir.by[z].inc \in 1 .. incs
    BY <1>2 DEF SoundDirectory, SoundEntry, EntryType
  <1>16. ASSUME NEW z \in DOMAIN dir'.by PROVE dir'.by[z].inc \notin gone'
    <2> DEFINE inc == dir'.by[z].inc
    <2>1. Succeeds(dir'.by[z], z, dir.by, ids, incs) BY <1>12, <1>16 DEF Grown
    <2>2. inc \in Nat
      <3>1. SoundEntry(dir'.by[z], z, ids', incs') BY <1>12, <1>16 DEF Grown, SoundDirectory
      <3> QED BY <3>1 DEF SoundEntry, EntryType
    <2>3. inc \notin gone BY <1>2, <1>14, <2>1, <2>2 DEF Succeeds
    <2>4. ASSUME NEW y \in Range(removed) \cap DOMAIN dir.by, inc = dir.by[y].inc PROVE FALSE
      <3>1. inc <= incs BY <1>14, <1>15, <2>2, <2>4
      <3>2. z \in DOMAIN dir.by /\ inc = dir.by[z].inc BY <1>14, <2>1, <2>2, <3>1 DEF Succeeds
      <3>3. z = y BY <1>2, <2>4, <3>2 DEF SoundDirectory
      <3>4. y \notin DOMAIN a1.d.by BY <1>4, <2>4 DEF Stage
      <3>5. Succeeds(a4.d.by[z], z, a1.d.by, a1.ids, a1.incs) BY <1>0, <1>10, <1>16 DEF Grown
      <3>6. inc > a1.incs BY <1>0, <3>3, <3>4, <3>5 DEF Succeeds
      <3> QED BY <1>14, <2>2, <3>1, <3>6
    <2> QED BY <1>0, <2>3, <2>4
  <1>17. gone' \subseteq 1 .. incs' /\ GoneFrom(gone', gone, dir.by)
    <2>1. GoneFrom(gone', gone, dir.by) BY <1>0 DEF GoneFrom
    <2>2. 1 .. incs \subseteq 1 .. incs' BY <1>14
    <2> QED BY <1>2, <1>15, <2>1, <2>2 DEF GoneFrom
  <1>18. SoundDirectory(dir'.by, ids', incs') BY <1>12 DEF Grown
  <1>19. DOMAIN wanted' = DOMAIN dir'.by BY <1>0
  <1>20. DirOK(dir', ids', incs', wanted', gone')
    BY <1>13, <1>16, <1>17, <1>18, <1>19 DEF DirOK
  <1>21. StoreInv' BY <1>0, <1>12, <1>17, <1>20, StepGrown
  <1> QED BY <1>12, <1>21

\* The zones to be hidden are listed in some order.
LEMMA ListedOrigins ==
    ASSUME Parameters, NEW S \in SUBSET Origins
    PROVE  SetToSeq(S) \in Seq(Origins)
  <1>1. IsFiniteSet(S) BY FS_Subset DEF Parameters
  <1> DEFINE n == Cardinality(S)
  <1>2. n \in Nat /\ ExistsBijection(1 .. n, S) BY <1>1, FS_CardinalityType
  <1> HIDE DEF n
  <1>3. \E f \in [1 .. n -> S] : IsInjective(f)
    BY <1>2 DEF ExistsBijection, Bijection, Injection
  <1>4. SetToSeq(S) \in [1 .. n -> S] BY <1>3 DEF SetToSeq, n
  <1>5. [1 .. n -> S] \subseteq Seq(Origins) BY <1>2
  <1> QED BY <1>4, <1>5

(* What a transaction comes down to.                                        *)
SomeUpdate ==
    \E loading, removed, shown, hidden \in Seq(Origins) :
        ApplyAtomicDirectoryUpdate(loading, removed, shown, hidden)

\* A catalog transaction is an update with some lists of zones.
LEMMA TransactionUpdates == ASSUME Parameters, Transaction PROVE SomeUpdate
  <1>1. PICK z \in Origins :
          \/ ApplyAtomicDirectoryUpdate(<<z>>, <<>>, <<>>, <<>>)
          \/ ApplyAtomicDirectoryUpdate(<<z>>, <<>>, <<>>, <<z>>)
          \/ ApplyAtomicDirectoryUpdate(<<>>, <<z>>, <<>>, <<>>)
          \/ ApplyAtomicDirectoryUpdate(<<z>>, <<z>>, <<>>, <<>>)
          \/ \E y \in Origins \ {z} : ApplyAtomicDirectoryUpdate(<<z>>, <<y>>, <<>>, <<z>>)
          \/ ApplyAtomicDirectoryUpdate(<<>>, <<>>, <<z>>, SetToSeq(Origins \ {z}))
    BY DEF Transaction
  <1> DEFINE one(x) == <<x>>
             none == <<>>
             rest == SetToSeq(Origins \ {z})
  <1>2. /\ \A x \in Origins : one(x) \in Seq(Origins)
        /\ none \in Seq(Origins) /\ rest \in Seq(Origins)
    BY ListedOrigins
  <1>3. \/ ApplyAtomicDirectoryUpdate(one(z), none, none, none)
        \/ ApplyAtomicDirectoryUpdate(one(z), none, none, one(z))
        \/ ApplyAtomicDirectoryUpdate(none, one(z), none, none)
        \/ ApplyAtomicDirectoryUpdate(one(z), one(z), none, none)
        \/ \E y \in Origins \ {z} : ApplyAtomicDirectoryUpdate(one(z), one(y), none, one(z))
        \/ ApplyAtomicDirectoryUpdate(none, none, one(z), rest)
    BY <1>1
  <1> HIDE DEF one, none, rest
  <1> QED BY <1>2, <1>3 DEF SomeUpdate

\* So it keeps the invariant.
LEMMA TransactionStep ==
    ASSUME Parameters, StoreInv, Transaction
    PROVE  StoreInv' /\ Grown(dir.by, ids, incs, dir'.by, ids', incs')
  BY TransactionUpdates, ApplyStep DEF SomeUpdate

\* An empty directory is in order.
LEMMA InitInv == ASSUME Parameters, Init PROVE StoreInv
  <1>1. /\ dir.by = <<>> /\ ids = 0 /\ incs = 0 /\ prep = [t \in Transfers |-> NoPrep]
        /\ comp = NoWork /\ ins = NoWork /\ wanted = <<>> /\ gone = {}
    BY DEF Init, EmptyDirectory
  <1>2. DOMAIN dir.by = {} /\ DOMAIN wanted = {} /\ dir.by = [z \in DOMAIN dir.by |-> dir.by[z]]
    BY <1>1
  <1>3. SoundDirectory(dir.by, ids, incs) BY <1>1, <1>2 DEF SoundDirectory
  <1>4. DirOK(dir, ids, incs, wanted, gone) BY <1>1, <1>2, <1>3 DEF DirOK
  <1>5. PrepsOK(prep, dir, ids, incs, gone) BY <1>1 DEF PrepsOK
  <1> QED BY <1>1, <1>4, <1>5 DEF StoreInv, InsOK, CompOK

\* compact_overlay_once_if_due takes the snapshot of the entry that is there.
LEMMA CompactStartStep ==
    ASSUME StoreInv, NEW z \in Origins, CompactStart(z)
    PROVE  StoreInv' /\ SerialsKept
  <1> DEFINE e == Get(dir, z)
  <1>1. /\ e.id # None /\ comp' = [zone |-> z, snap |-> e.snap, inc |-> e.inc]
        /\ UNCHANGED <<dir, ids, incs, prep, view, ins, wanted, gone>>
    BY DEF CompactStart
  <1>2. z \in DOMAIN dir.by BY <1>1, PresentHere
  <1>3. SoundEntry(e, z, ids, incs) BY <1>2, WantedHere
  <1> HIDE DEF e
  <1>4. e.snap \in [id : 1 .. ids, inc : 1 .. incs] /\ e.snap.inc = e.inc
    BY <1>3 DEF SoundEntry, EntryType, OwnImage
  <1>5. CompOK(comp', ids', incs') BY <1>1, <1>4 DEF CompOK
  <1> QED BY <1>1, <1>5, QuietStep

\* A compaction or a restoration that fails leaves nothing behind.
LEMMA FailedStep ==
    ASSUME StoreInv, CompactFailed \/ RestoreFailed
    PROVE  StoreInv' /\ SerialsKept
  <1>1. CASE CompactFailed
    <2>1. comp' = NoWork /\ UNCHANGED <<dir, ids, incs, prep, view, ins, wanted, gone>>
      BY <1>1 DEF CompactFailed
    <2>2. CompOK(comp', ids', incs') BY <2>1 DEF CompOK
    <2> QED BY <2>1, <2>2, QuietStep
  <1>2. CASE RestoreFailed
    <2>1. ins' = NoWork /\ UNCHANGED <<dir, ids, incs, prep, view, comp, wanted, gone>>
      BY <1>2 DEF RestoreFailed
    <2>2. InsOK(ins, prep, dir, ids, incs, gone)' BY <2>1 DEF InsOK
    <2> QED BY <2>1, <2>2 DEF StoreInv, SerialsKept
  <1> QED BY <1>1, <1>2

\* Every step keeps the invariant.
LEMMA NextStep == ASSUME Parameters, StoreInv, [Next]_vars PROVE StoreInv'
  <1>1. CASE \E t \in Transfers, z \in Origins, s \in 0 .. Serials - 1,
                sharded \in Sharding, re \in Retransfers : Prepare(t, z, s, sharded, re)
    BY <1>1, PrepareStep
  <1>2. CASE \E t \in Transfers : PublishPrepared(t) \/ PublishRefused(t)
    BY <1>2, PublishStep, RefuseStep
  <1>3. CASE \E z \in Origins : Capture(z)
    <2>1. UNCHANGED <<dir, ids, incs, prep, comp, ins, wanted, gone>> BY <1>3 DEF Capture
    <2> QED BY <2>1, QuietStep
  <1>4. CASE \E z \in Origins : CompactStart(z) BY <1>4, CompactStartStep
  <1>5. CASE ExpireIfSnapshot BY <1>5, ExpireStep
  <1>6. CASE ActivateIfSnapshot BY <1>6, ActivateStep
  <1>7. CASE CompactFinish BY <1>7, CompactStep
  <1>8. CASE \E z \in Origins, s \in Copies, force \in BOOLEAN : RestoreStart(z, s, force)
    BY <1>8, RestoreStartStep
  <1>9. CASE \E sharded \in Sharding : RestoreFinish(sharded) BY <1>9, RestoreFinishStep
  <1>10. CASE RestoreRetry BY <1>10, RestoreRetryStep
  <1>11. CASE Transaction BY <1>11, TransactionStep
  <1>12. CASE \E z \in Origins, hidden \in BOOLEAN : SetHidden(z, hidden) BY <1>12, HideStep
  <1>13. CASE UNCHANGED vars
    <2>1. UNCHANGED <<dir, ids, incs, prep, comp, ins, wanted, gone>> BY <1>13 DEF vars
    <2> QED BY <2>1, QuietStep
  <1>14. CASE CompactFailed \/ RestoreFailed BY <1>14, FailedStep
  <1> QED
    BY <1>1, <1>2, <1>3, <1>4, <1>5, <1>6, <1>7, <1>8, <1>9, <1>10, <1>11, <1>12, <1>13, <1>14
    DEF Next

-----------------------------------------------------------------------------
(* The theorems.                                                            *)

\* StoreInv holds in every state: whatever a transfer, a restoration or a
\* compaction has captured or prepared is a sound successor of the entry it was
\* built from, and nobody else has its address or its new incarnation.
THEOREM StoreCorrect ==
    ASSUME Parameters PROVE Spec => []StoreInv
  <1>1. Init => StoreInv BY InitInv
  <1>2. StoreInv /\ [Next]_vars => StoreInv' BY NextStep
  <1> QED BY <1>1, <1>2, PTL DEF Spec

\* HiddenStaysHidden for any constants: publish_prepared_snapshot_for_transfer,
\* publish_compacted_base and the others publish the visibility last asked for.
THEOREM VisibilityHolds ==
    ASSUME Parameters PROVE Spec => []HiddenStaysHidden
  <1>1. StoreInv => HiddenStaysHidden BY DEF StoreInv, DirOK, HiddenStaysHidden
  <1> QED BY <1>1, StoreCorrect, PTL

\* GoneIsGone for any constants: what apply_atomic_directory_update removed is
\* not brought back by whoever captured it before.
THEOREM RemovedStaysGone ==
    ASSUME Parameters PROVE Spec => []GoneIsGone
  <1>1. StoreInv => GoneIsGone BY DEF StoreInv, DirOK, GoneIsGone, Entries
  <1> QED BY <1>1, StoreCorrect, PTL

\* ImageBelongs for any constants: an entry is Active exactly when it has an
\* image, and the image is of its own incarnation.
THEOREM ImagesBelong ==
    ASSUME Parameters PROVE Spec => []ImageBelongs
  <1>1. ASSUME StoreInv PROVE ImageBelongs
    <2>1. \A z \in DOMAIN dir.by : OwnImage(dir.by[z])
      BY <1>1 DEF StoreInv, DirOK, SoundDirectory, SoundEntry
    <2> QED BY <2>1 DEF ImageBelongs, Entries, OwnImage
  <1> QED BY <1>1, StoreCorrect, PTL

\* A serial that stays is not behind itself.
LEMMA SameSerial ==
    ASSUME Parameters, NEW s \in 0 .. Serials
    PROVE  (s + Serials - s) % Serials < Serials \div 2
  <1>1. Serials \in Nat /\ Serials >= 2 BY DEF Parameters
  <1>2. s + Serials - s = Serials BY <1>1
  <1>3. Serials % Serials = 0 BY <1>1
  <1>4. 0 < Serials \div 2 BY <1>1
  <1> QED BY <1>2, <1>3, <1>4

\* Keeping the serials never takes a zone back.
LEMMA KeptAdvances == ASSUME Parameters, StoreInv, SerialsKept PROVE SerialsAdvance
  <1>1. ASSUME NEW z \in DOMAIN dir.by \cap DOMAIN dir'.by, dir'.by[z].serial # NoSerial
        PROVE  (dir'.by[z].serial + Serials - dir.by[z].serial) % Serials < Serials \div 2
    <2> DEFINE s == dir.by[z].serial
    <2>1. dir'.by[z].serial = s BY <1>1 DEF SerialsKept
    <2>2. s \in 0 .. Serials
      BY DEF StoreInv, DirOK, SoundDirectory, SoundEntry, EntryType
    <2> HIDE DEF s
    <2>3. (s + Serials - s) % Serials < Serials \div 2 BY <2>2, SameSerial
    <2> QED BY <2>1, <2>3 DEF s
  <1> QED BY <1>1 DEF SerialsAdvance

\* A publication is compared with the entry it replaces.
LEMMA PublishAdvances ==
    ASSUME Parameters, StoreInv, NEW t \in Transfers, PublishPrepared(t)
    PROVE  SerialsAdvance
  <1> DEFINE p == prep[t]
             f == p.entry
             z == p.zone
  <1>0. /\ p # NoPrep /\ Get(dir, z).id = p.expected.id /\ FinalSoaIsAdmissible(p)
        /\ dir' = DirInsert(dir, f)
    BY DEF PublishPrepared, StillCurrent
  <1>1. SoundDirectory(dir.by, ids, incs) BY DEF StoreInv, DirOK
  <1>2. PreparedOK(p, dir, ids, incs, gone) BY <1>0 DEF StoreInv, PrepsOK
  <1>3. Get(dir, z) = p.expected BY <1>0, <1>2 DEF PreparedOK, Captured
  <1>4. f.origin = z BY <1>2 DEF PreparedOK, SoundEntry, EntryType
  <1>5. dir'.by = Put(dir.by, z, f) BY <1>0, <1>4, InsertBy
  <1>6. z \in DOMAIN dir.by => p.expected = dir.by[z] BY <1>1, <1>3, GetFacts
  <1>7. ASSUME NEW x \in DOMAIN dir.by \cap DOMAIN dir'.by,
               dir.by[x].serial # NoSerial, dir'.by[x].serial # NoSerial
        PROVE  (dir'.by[x].serial + Serials - dir.by[x].serial) % Serials < Serials \div 2
    <2>1. CASE x = z
      <3>1. dir'.by[x] = f /\ dir.by[x] = p.expected BY <1>5, <1>6, <2>1 DEF Put
      <3> HIDE DEF p
      <3> QED BY <1>0, <1>7, <3>1 DEF FinalSoaIsAdmissible
    <2>2. CASE x # z
      <3> DEFINE s == dir.by[x].serial
      <3>1. dir'.by[x].serial = s BY <1>5, <2>2 DEF Put
      <3>2. s \in 0 .. Serials BY <1>1 DEF SoundDirectory, SoundEntry, EntryType
      <3> HIDE DEF s
      <3>3. (s + Serials - s) % Serials < Serials \div 2 BY <3>2, SameSerial
      <3> QED BY <3>1, <3>3 DEF s
    <2> QED BY <2>1, <2>2
  <1> QED BY <1>7 DEF SerialsAdvance

\* SerialsAdvance for any constants: no transfer takes a zone back to an older
\* serial, whatever overtook it between preparing and publishing.
THEOREM SerialsNeverGoBack ==
    ASSUME Parameters PROVE Spec => [][SerialsAdvance]_vars
  <1>1. StoreInv /\ [Next]_vars => [SerialsAdvance]_vars
    <2> SUFFICES ASSUME StoreInv, [Next]_vars PROVE [SerialsAdvance]_vars OBVIOUS
    <2>0. dir' = dir => SerialsKept BY DEF SerialsKept
    <2>1. CASE \E t \in Transfers, z \in Origins, s \in 0 .. Serials - 1,
                  sharded \in Sharding, re \in Retransfers : Prepare(t, z, s, sharded, re)
      <3>1. dir' = dir BY <2>1 DEF Prepare
      <3> QED BY <2>0, <3>1, KeptAdvances
    <2>2. CASE \E t \in Transfers : PublishPrepared(t) BY <2>2, PublishAdvances
    <2>3. CASE \E t \in Transfers : PublishRefused(t)
      <3>1. dir' = dir BY <2>3 DEF PublishRefused
      <3> QED BY <2>0, <3>1, KeptAdvances
    <2>4. CASE \E z \in Origins : Capture(z) \/ CompactStart(z)
      <3>1. dir' = dir BY <2>4 DEF Capture, CompactStart
      <3> QED BY <2>0, <3>1, KeptAdvances
    <2>5. CASE ExpireIfSnapshot BY <2>5, ExpireStep, KeptAdvances
    <2>6. CASE ActivateIfSnapshot BY <2>6, ActivateStep, KeptAdvances
    <2>7. CASE CompactFinish BY <2>7, CompactStep, KeptAdvances
    <2>8. CASE \/ RestoreRetry
               \/ \E z \in Origins, s \in Copies, force \in BOOLEAN :
                    RestoreStart(z, s, force)
      <3>1. dir' = dir BY <2>8 DEF RestoreStart, RestoreRetry
      <3> QED BY <2>0, <3>1, KeptAdvances
    <2>9. CASE \E sharded \in Sharding : RestoreFinish(sharded)
      <3>1. ins' # ins BY <2>9 DEF RestoreFinish
      <3> QED BY <3>1 DEF SerialsAdvance
    <2>10. CASE Transaction BY <2>10, TransactionStep, GrownKeeps, KeptAdvances
    <2>11. CASE \E z \in Origins, hidden \in BOOLEAN : SetHidden(z, hidden)
      BY <2>11, HideStep, KeptAdvances
    <2>12. CASE UNCHANGED vars BY <2>12
    <2>13. CASE CompactFailed \/ RestoreFailed BY <2>13, FailedStep, KeptAdvances
    <2> QED
      BY <2>1, <2>2, <2>3, <2>4, <2>5, <2>6, <2>7, <2>8, <2>9, <2>10, <2>11, <2>12, <2>13
      DEF Next
  <1> QED BY <1>1, StoreCorrect, PTL DEF Spec

-----------------------------------------------------------------------------
(* The two indexes of the directory.                                        *)

Measured(S) == IsFiniteSet(S) /\ \A e \in S : Len(e.origin) \in Nat

Descends(s) == \A j, k \in DOMAIN s : j < k => Len(s[j].origin) >= Len(s[k].origin)

Sortable(n) ==
    \A S : Measured(S) /\ Cardinality(S) = n => \E s \in SetToSeqs(S) : Descends(s)

\* The entry with the fewest labels goes to the end of the list of the others.
LEMMA SortOneMore == ASSUME NEW n \in Nat, Sortable(n) PROVE Sortable(n + 1)
  <1> SUFFICES ASSUME NEW S, Measured(S), Cardinality(S) = n + 1
               PROVE  \E s \in SetToSeqs(S) : Descends(s)
    BY DEF Sortable
  <1>0. IsFiniteSet(S) /\ \A e \in S : Len(e.origin) \in Nat BY DEF Measured
  <1>1. PICK m \in S : \A e \in S : Len(m.origin) <= Len(e.origin)
    <2> DEFINE T == {Len(e.origin) : e \in S}
    <2>1. S # {} BY <1>0, FS_EmptySet
    <2>2. T \subseteq Nat /\ T # {} BY <1>0, <2>1
    <2> HIDE DEF T
    <2>3. PICK k \in T : \A j \in T : k <= j BY <2>2, Least
    <2> QED BY <2>3 DEF T
  <1> DEFINE R == S \ {m}
  <1>2. IsFiniteSet(R) /\ Cardinality(R) = n
    <2> DEFINE c == Cardinality(S)
    <2>1. IsFiniteSet(R) /\ Cardinality(R) = c - 1 BY <1>0, <1>1, FS_RemoveElement
    <2>2. c - 1 = n OBVIOUS
    <2> QED BY <2>1, <2>2
  <1>3. Measured(R) BY <1>0, <1>2 DEF Measured
  <1>4. PICK s \in SetToSeqs(R) : Descends(s) BY <1>2, <1>3 DEF Sortable
  <1>5. /\ s \in [1 .. n -> R]
        /\ \A i, j \in 1 .. n : i # j => s[i] # s[j]
    BY <1>2, <1>4 DEF SetToSeqs
  <1> DEFINE t == [k \in 1 .. n + 1 |-> IF k = n + 1 THEN m ELSE s[k]]
  <1>6. t \in [1 .. n + 1 -> S] BY <1>5
  <1>7. t[n + 1] = m /\ \A k \in 1 .. n : t[k] = s[k] /\ s[k] \in R BY <1>5
  <1>8. \A k \in 1 .. n + 1 : k = n + 1 \/ k \in 1 .. n OBVIOUS
  <1>9. DOMAIN t = 1 .. n + 1 OBVIOUS
  <1> HIDE DEF t
  <1>10. \A i, j \in 1 .. n + 1 : i # j => t[i] # t[j] BY <1>5, <1>7, <1>8
  <1>11. Descends(t)
    <2> SUFFICES ASSUME NEW j \in 1 .. n + 1, NEW k \in 1 .. n + 1, j < k
                 PROVE  Len(t[j].origin) >= Len(t[k].origin)
      BY <1>9 DEF Descends
    <2>1. j \in 1 .. n /\ t[j] = s[j] /\ s[j] \in S BY <1>7
    <2>2. CASE k = n + 1 BY <1>0, <1>1, <1>7, <2>1, <2>2
    <2>3. CASE k \in 1 .. n
      <3>1. DOMAIN s = 1 .. n BY <1>5
      <3>2. Len(s[j].origin) >= Len(s[k].origin) BY <1>4, <2>1, <2>3, <3>1 DEF Descends
      <3> QED BY <1>7, <2>1, <2>3, <3>2
    <2> QED BY <1>8, <2>2, <2>3
  <1>12. t \in SetToSeqs(S) BY <1>6, <1>10 DEF SetToSeqs
  <1> QED BY <1>11, <1>12

\* So any set of entries can be sorted.
LEMMA Sorts == \A n \in Nat : Sortable(n)
  <1> DEFINE P == {n \in Nat : Sortable(n)}
  <1>1. Sortable(0)
    <2> SUFFICES ASSUME NEW S, Measured(S), Cardinality(S) = 0
                 PROVE  \E s \in SetToSeqs(S) : Descends(s)
      BY DEF Sortable
    <2> DEFINE s == [k \in 1 .. 0 |-> CHOOSE e \in S : TRUE]
    <2>1. s \in [1 .. 0 -> S] /\ DOMAIN s = {} OBVIOUS
    <2> HIDE DEF s
    <2>2. s \in SetToSeqs(S) BY <2>1 DEF SetToSeqs
    <2>3. Descends(s) BY <2>1 DEF Descends
    <2> QED BY <2>2, <2>3
  <1>2. \A n \in Nat : n \in P => n + 1 \in P BY SortOneMore
  <1>3. 0 \in P BY <1>1
  <1> HIDE DEF P
  <1>4. \A n \in Nat : n \in P BY <1>2, <1>3, SetInduction
  <1> QED BY <1>4 DEF P

(* What the short list is: all of S, most labels first.                     *)
ListOf(s, S) ==
    /\ DOMAIN s = 1 .. Cardinality(S) /\ Cardinality(S) \in Nat
    /\ \A k \in DOMAIN s : s[k] \in S
    /\ \A e \in S : \E k \in DOMAIN s : s[k] = e
    /\ Descends(s)

\* MostLabelsFirst finds such a list.
LEMMA MostLabelsFirstSorts ==
    ASSUME NEW S, Measured(S)
    PROVE  ListOf(MostLabelsFirst(S), S)
  <1> DEFINE n == Cardinality(S)
             s == MostLabelsFirst(S)
  <1>1. IsFiniteSet(S) BY DEF Measured
  <1>2. n \in Nat BY <1>1, FS_CardinalityType
  <1>3. \E r \in SetToSeqs(S) : Descends(r) BY <1>2, Sorts DEF Sortable
  <1>4. s \in SetToSeqs(S) /\ Descends(s) BY <1>3 DEF MostLabelsFirst, Descends
  <1> HIDE DEF s
  <1>5. /\ s \in [1 .. n -> S]
        /\ \A i, j \in 1 .. n : i # j => s[i] # s[j]
    BY <1>4 DEF SetToSeqs
  <1>6. s \in Injection(1 .. n, S) BY <1>5 DEF Injection, IsInjective
  <1>7. Cardinality(1 .. n) = n
    <2>1. 1 \in Int /\ n \in Int BY <1>2
    <2>2. Cardinality(1 .. n) = IF 1 > n THEN 0 ELSE n - 1 + 1
      <3> HIDE DEF n
      <3> QED BY <2>1, FS_Interval
    <2> QED BY <1>2, <2>2
  <1> DEFINE I == 1 .. n
  <1>8. s \in Surjection(I, S)
    <2>1. s \in Injection(I, S) /\ Cardinality(I) = Cardinality(S) BY <1>6, <1>7
    <2> HIDE DEF I
    <2> QED BY <1>1, <2>1, FS_Injection
  <1>9. \A e \in S : \E k \in 1 .. n : s[k] = e BY <1>8 DEF Surjection
  <1> QED BY <1>2, <1>4, <1>5, <1>9 DEF ListOf, s

(* What the indexes promise: the suffix index has the entries, its table of *)
(* lengths at least those of its keys, the counters count and the short     *)
(* list is complete and sorted as long as it is in use.                     *)
EntriesOf(by) == {by[z] : z \in DOMAIN by}

CountedIn(by) == {z \in DOMAIN by : Counted(by[z]) = 1}

Indexed(d) ==
    /\ d.suffix = d.by
    /\ \A z \in DOMAIN d.by : Len(z) \in d.lengths
    /\ d.len = Cardinality(DOMAIN d.by)
    /\ d.active = Cardinality(CountedIn(d.by))
    /\ d.len <= SmallLimit => ListOf(d.small, EntriesOf(d.by))
    /\ d.len > SmallLimit => d.small = <<>>

\* A directory is finite, and so are its parts.
LEMMA FiniteParts ==
    ASSUME Parameters, NEW by, NEW n, NEW i, SoundDirectory(by, n, i)
    PROVE  /\ IsFiniteSet(DOMAIN by) /\ Cardinality(DOMAIN by) \in Nat
           /\ IsFiniteSet(CountedIn(by)) /\ Cardinality(CountedIn(by)) \in Nat
           /\ Measured(EntriesOf(by))
           /\ \A z \in DOMAIN by : by[z].origin = z
  <1>1. DOMAIN by \subseteq Origins /\ IsFiniteSet(Origins) BY DEF SoundDirectory, Parameters
  <1>2. IsFiniteSet(DOMAIN by) BY <1>1, FS_Subset
  <1>3. CountedIn(by) \subseteq DOMAIN by BY DEF CountedIn
  <1>4. IsFiniteSet(CountedIn(by)) BY <1>2, <1>3, FS_Subset
  <1>5. \A z \in DOMAIN by : by[z].origin = z BY DEF SoundDirectory, SoundEntry, EntryType
  <1>6. \A z \in DOMAIN by : Len(z) \in Nat BY <1>1 DEF Parameters
  <1>7. Measured(EntriesOf(by))
    <2> DEFINE S == DOMAIN by
               T == EntriesOf(by)
               f == [z \in S |-> by[z]]
    <2>1. f \in Surjection(S, T) BY DEF Surjection, EntriesOf
    <2> HIDE DEF f, S, T
    <2>2. IsFiniteSet(S) BY <1>2 DEF S
    <2>3. IsFiniteSet(T) BY <2>1, <2>2, FS_Surjection
    <2>4. \A e \in T : Len(e.origin) \in Nat BY <1>5, <1>6 DEF T, EntriesOf
    <2> QED BY <2>3, <2>4 DEF Measured, T
  <1> QED BY <1>2, <1>4, <1>5, <1>7, FS_CardinalityType

\* The active count follows the entry that comes and the one that goes.
LEMMA CountInsert ==
    ASSUME Parameters, NEW by, NEW n, NEW i, SoundDirectory(by, n, i), NEW z, NEW e
    PROVE  /\ Cardinality(CountedIn(Put(by, z, e))) =
                Cardinality(CountedIn(by)) - (IF z \in DOMAIN by THEN Counted(by[z]) ELSE 0)
                  + Counted(e)
           /\ z \in DOMAIN by =>
                Cardinality(CountedIn(Drop(by, z))) = Cardinality(CountedIn(by)) - Counted(by[z])
  <1> DEFINE A == CountedIn(by)
             B == A \ {z}
             C == CountedIn(Put(by, z, e))
             D == CountedIn(Drop(by, z))
             w == IF z \in DOMAIN by THEN Counted(by[z]) ELSE 0
             c == Counted(e)
  <1>1. IsFiniteSet(A) /\ Cardinality(A) \in Nat BY FiniteParts
  <1>2. c \in {0, 1} /\ w \in {0, 1} BY DEF Counted
  <1>3. z \in A <=> w = 1 BY DEF CountedIn
  <1>4. D = B BY DEF CountedIn, Drop
  <1>5. C = IF c = 1 THEN B \cup {z} ELSE B BY DEF CountedIn, Put
  <1>6. IsFiniteSet(B) /\ Cardinality(B) = IF z \in A THEN Cardinality(A) - 1 ELSE Cardinality(A)
    <2> HIDE DEF A
    <2> QED BY <1>1, FS_RemoveElement
  <1>7. Cardinality(B) \in Nat BY <1>6, FS_CardinalityType
  <1>8. z \notin B OBVIOUS
  <1> HIDE DEF A, B, C, D, w, c
  <1>9. Cardinality(B) = Cardinality(A) - w BY <1>1, <1>2, <1>3, <1>6
  <1>10. Cardinality(C) = Cardinality(B) + c
    <2>1. CASE c = 1
      <3>1. Cardinality(B \cup {z}) = Cardinality(B) + 1 BY <1>6, <1>8, FS_AddElement
      <3> QED BY <1>5, <2>1, <3>1
    <2>2. CASE c = 0 BY <1>5, <1>7, <2>2
    <2> QED BY <1>2, <2>1, <2>2
  <1>11. Cardinality(C) = Cardinality(A) - w + c BY <1>9, <1>10
  <1>12. Cardinality(D) = Cardinality(A) - w BY <1>4, <1>9
  <1> QED BY <1>11, <1>12 DEF A, C, D, w, c

\* The indexes after an entry was put in,
LEMMA InsertIndexed ==
    ASSUME Parameters, NEW d, NEW n, NEW i, SoundDirectory(d.by, n, i), Indexed(d),
           NEW e, NEW m, NEW j, NEW z \in Origins, SoundEntry(e, z, m, j),
           SoundDirectory(Put(d.by, z, e), m, j)
    PROVE  Indexed(DirInsert(d, e))
  <1> DEFINE by == d.by
             byN == Put(by, z, e)
             old == z \in DOMAIN by
             len == IF old THEN d.len ELSE d.len + 1
             S == {c \in Range(d.small) : c.origin # z} \cup {e}
             new == DirInsert(d, e)
  <1>0. e.origin = z BY DEF SoundEntry, EntryType
  <1>1. /\ new.by = byN /\ new.suffix = Put(d.suffix, z, e)
        /\ new.lengths = d.lengths \cup {Len(z)} /\ new.len = len
        /\ new.active = d.active - (IF old THEN Counted(by[z]) ELSE 0) + Counted(e)
        /\ new.small = IF len <= SmallLimit THEN MostLabelsFirst(S) ELSE <<>>
    BY <1>0 DEF DirInsert
  <1>2. /\ d.suffix = by /\ (\A y \in DOMAIN by : Len(y) \in d.lengths)
        /\ d.len = Cardinality(DOMAIN by) /\ d.active = Cardinality(CountedIn(by))
        /\ (d.len <= SmallLimit => ListOf(d.small, EntriesOf(by)))
    BY DEF Indexed
  <1>3. /\ IsFiniteSet(DOMAIN by) /\ Cardinality(DOMAIN by) \in Nat
        /\ \A y \in DOMAIN by : by[y].origin = y
    BY FiniteParts
  <1>4. Measured(EntriesOf(byN)) BY FiniteParts
  <1>5. /\ DOMAIN byN = DOMAIN by \cup {z} /\ byN[z] = e
        /\ \A y \in DOMAIN by : y # z => byN[y] = by[y]
    BY DEF Put
  <1>6. len = Cardinality(DOMAIN byN)
    <2>1. Cardinality(DOMAIN by \cup {z}) = IF old THEN Cardinality(DOMAIN by)
                                                 ELSE Cardinality(DOMAIN by) + 1
      <3> DEFINE T == DOMAIN by
      <3>1. IsFiniteSet(T) BY <1>3
      <3> HIDE DEF T
      <3>2. Cardinality(T \cup {z}) = IF z \in T THEN Cardinality(T) ELSE Cardinality(T) + 1
        BY <3>1, FS_AddElement
      <3> QED BY <3>2 DEF T
    <2> QED BY <1>2, <1>5, <2>1
  <1>7. new.active = Cardinality(CountedIn(byN)) BY <1>1, <1>2, CountInsert
  <1>8. SmallLimit \in Nat /\ d.len \in Nat /\ len \in Nat /\ d.len <= len
    BY <1>2, <1>3 DEF Parameters
  <1>9. ASSUME len <= SmallLimit PROVE ListOf(new.small, EntriesOf(byN))
    <2>1. ListOf(d.small, EntriesOf(by)) BY <1>2, <1>8, <1>9
    <2>2. Range(d.small) = EntriesOf(by) BY <2>1 DEF ListOf, Range
    <2>3. S = EntriesOf(byN) BY <1>3, <1>5, <2>2 DEF EntriesOf
    <2>4. ListOf(MostLabelsFirst(EntriesOf(byN)), EntriesOf(byN))
      BY <1>4, MostLabelsFirstSorts
    <2>5. new.small = MostLabelsFirst(EntriesOf(byN)) BY <1>1, <1>9, <2>3
    <2> QED BY <2>4, <2>5
  <1>10. len > SmallLimit => new.small = <<>> BY <1>1, <1>8
  <1>11. new.suffix = byN BY <1>1, <1>2
  <1>12. \A y \in DOMAIN byN : Len(y) \in new.lengths BY <1>1, <1>2, <1>5
  <1> HIDE DEF new, byN, len
  <1>13. new.by = byN /\ new.len = len BY <1>1
  <1>14. Indexed(new) BY <1>6, <1>7, <1>9, <1>10, <1>11, <1>12, <1>13 DEF Indexed
  <1> QED BY <1>14 DEF new

\* and after a zone was taken out.
LEMMA RemoveIndexed ==
    ASSUME Parameters, NEW d, NEW n, NEW i, SoundDirectory(d.by, n, i), Indexed(d), NEW z
    PROVE  Indexed(DirRemove(d, z))
  <1> DEFINE by == d.by
             byN == Drop(by, z)
             len == d.len - 1
             new == DirRemove(d, z)
  <1>0. CASE z \notin DOMAIN by BY <1>0 DEF DirRemove
  <1>1. CASE z \in DOMAIN by
    <2>1. /\ new.by = byN /\ new.suffix = Drop(d.suffix, z)
          /\ new.lengths = (IF len = 0 THEN {} ELSE d.lengths) /\ new.len = len
          /\ new.active = d.active - Counted(by[z])
          /\ new.small = IF len <= SmallLimit THEN MostLabelsFirst({byN[x] : x \in DOMAIN byN})
                         ELSE d.small
      BY <1>1 DEF DirRemove
    <2>2. /\ d.suffix = by /\ (\A y \in DOMAIN by : Len(y) \in d.lengths)
          /\ d.len = Cardinality(DOMAIN by) /\ d.active = Cardinality(CountedIn(by))
          /\ (d.len > SmallLimit => d.small = <<>>)
      BY DEF Indexed
    <2>3. IsFiniteSet(DOMAIN by) /\ Cardinality(DOMAIN by) \in Nat BY FiniteParts
    <2>4. SoundDirectory(byN, n, i)
      <3>1. SoundDirectory(DirRemove(d, z).by, n, i) BY RemoveGrows DEF Grown
      <3> QED BY <2>1, <3>1
    <2>5. DOMAIN byN = DOMAIN by \ {z} /\ \A y \in DOMAIN byN : byN[y] = by[y] BY DEF Drop
    <2> HIDE DEF byN
    <2>6. Measured(EntriesOf(byN)) /\ IsFiniteSet(DOMAIN byN) BY <2>4, FiniteParts
    <2>7. len = Cardinality(DOMAIN byN) /\ len \in Nat /\ (len = 0 => DOMAIN byN = {})
      <3> DEFINE T == DOMAIN by
      <3>1. IsFiniteSet(T) /\ z \in T BY <1>1, <2>3
      <3> HIDE DEF T
      <3>2. Cardinality(T \ {z}) = Cardinality(T) - 1 BY <3>1, FS_RemoveElement
      <3>3. Cardinality(DOMAIN byN) = len BY <2>2, <2>5, <3>2 DEF T
      <3>4. Cardinality(DOMAIN byN) \in Nat BY <2>6, FS_CardinalityType
      <3>5. Cardinality(DOMAIN byN) = 0 => DOMAIN byN = {} BY <2>6, FS_EmptySet
      <3> QED BY <3>3, <3>4, <3>5
    <2>8. new.active = Cardinality(CountedIn(byN)) BY <1>1, <2>1, <2>2, CountInsert DEF byN
    <2>9. len <= SmallLimit => ListOf(new.small, EntriesOf(byN))
      BY <2>1, <2>6, MostLabelsFirstSorts DEF EntriesOf
    <2>10. len > SmallLimit => new.small = <<>>
      <3>1. SmallLimit \in Nat /\ d.len \in Nat BY <2>2, <2>3 DEF Parameters
      <3>2. len > SmallLimit => d.len > SmallLimit /\ ~(len <= SmallLimit) BY <3>1
      <3> QED BY <2>1, <2>2, <3>2
    <2>11. new.suffix = byN BY <2>1, <2>2 DEF byN
    <2>12. \A y \in DOMAIN byN : Len(y) \in new.lengths BY <2>1, <2>2, <2>5, <2>7
    <2> HIDE DEF new, len
    <2>13. new.by = byN /\ new.len = len BY <2>1
    <2>14. Indexed(new) BY <2>7, <2>8, <2>9, <2>10, <2>11, <2>12, <2>13 DEF Indexed
    <2> QED BY <2>14 DEF new
  <1> QED BY <1>0, <1>1

\* The same, of the directory that came out.
LEMMA InsertedIndexed ==
    ASSUME Parameters, NEW d, NEW n, NEW i, SoundDirectory(d.by, n, i), Indexed(d),
           NEW e, NEW m, NEW j, SoundDirectory(DirInsert(d, e).by, m, j)
    PROVE  Indexed(DirInsert(d, e))
  <1> DEFINE z == e.origin
             byN == Put(d.by, z, e)
  <1>1. DirInsert(d, e).by = byN BY InsertBy
  <1>2. SoundDirectory(byN, m, j) BY <1>1
  <1>3. z \in DOMAIN byN /\ byN[z] = e BY DEF Put
  <1>4. z \in Origins /\ SoundEntry(e, z, m, j)
    <2> HIDE DEF byN
    <2> QED BY <1>2, <1>3 DEF SoundDirectory
  <1> HIDE DEF z
  <1> QED BY <1>2, <1>4, InsertIndexed

\* One change of a directory update keeps the indexes in order,
LEMMA ChangeIndexed ==
    ASSUME Parameters, NEW acc, Sound(acc), Indexed(acc.d), NEW c \in ChangeType
    PROVE  Sound(Change(acc, c)) /\ Indexed(Change(acc, c).d)
  <1> DEFINE new == Change(acc, c)
             z == c.zone
  <1>1. Sound(new)
    <2>1. AccGrown(acc, new) BY ChangeGrows
    <2> QED BY <2>1 DEF AccGrown, Grown, Sound
  <1>2. SoundDirectory(acc.d.by, acc.ids, acc.incs) BY DEF Sound
  <1>3. SoundDirectory(new.d.by, new.ids, new.incs) BY <1>1 DEF Sound
  <1>4. IsAcc(acc) BY DEF Sound
  <1>5. \/ new.d = acc.d
        \/ new.d = DirRemove(acc.d, z)
        \/ \E e : new.d = DirInsert(acc.d, e)
    <2>1. CASE c.kind = "remove"
      <3>1. new = RemoveOne(acc, z) BY <2>1 DEF Change
      <3>2. new.d = DirRemove(acc.d, z) BY <1>4, <3>1 DEF RemoveOne, IsAcc
      <3> QED BY <3>2
    <2>2. CASE c.kind = "load"
      <3>1. new = LoadOne(acc, z, c.hidden) BY <2>2 DEF Change
      <3>2. \E e : new.d = DirInsert(acc.d, e) BY <3>1 DEF LoadOne
      <3> QED BY <3>2
    <2>3. CASE c.kind = "toggle"
      <3> DEFINE old == Get(acc.d, z)
                 e == WithHidden(old, acc.ids + 1, c.hidden)
      <3>1. new = ToggleOne(acc, z, c.hidden) BY <2>3 DEF Change
      <3>2. new = acc \/ new = [acc EXCEPT !.d = DirInsert(acc.d, e), !.ids = acc.ids + 1]
        BY <3>1 DEF ToggleOne
      <3> HIDE DEF e, new
      <3>3. CASE new = acc BY <3>3
      <3>4. CASE new = [acc EXCEPT !.d = DirInsert(acc.d, e), !.ids = acc.ids + 1]
        <4>1. new.d = DirInsert(acc.d, e) BY <1>4, <3>4 DEF IsAcc
        <4> QED BY <4>1
      <3> QED BY <3>2, <3>3, <3>4
    <2> QED BY <2>1, <2>2, <2>3 DEF ChangeType
  <1> HIDE DEF new, z
  <1>6. CASE new.d = acc.d BY <1>1, <1>6 DEF new
  <1>7. CASE new.d = DirRemove(acc.d, z)
    <2>1. Indexed(DirRemove(acc.d, z)) BY <1>2, RemoveIndexed
    <2> QED BY <1>1, <1>7, <2>1 DEF new
  <1>8. CASE \E e : new.d = DirInsert(acc.d, e)
    <2>1. PICK e : new.d = DirInsert(acc.d, e) BY <1>8
    <2>2. Indexed(DirInsert(acc.d, e)) BY <1>2, <1>3, <2>1, InsertedIndexed
    <2> QED BY <1>1, <2>1, <2>2 DEF new
  <1> QED BY <1>5, <1>6, <1>7, <1>8

\* and so does a list of them.
LEMMA ChangedIndexed ==
    ASSUME Parameters, NEW acc, Sound(acc), Indexed(acc.d),
           NEW kind \in {"remove", "load", "toggle"}, NEW zones \in Seq(Origins), NEW H
    PROVE  LET new == Changed(acc, ForEach(kind, zones, H)) IN Sound(new) /\ Indexed(new.d)
  <1> DEFINE cs == ForEach(kind, zones, H)
             m == Len(zones)
  <1>1. m \in Nat /\ DOMAIN cs = 1 .. m BY DEF ForEach
  <1>2. \A k \in 1 .. m : cs[k] \in ChangeType
    <2> SUFFICES ASSUME NEW k \in 1 .. m PROVE cs[k] \in ChangeType OBVIOUS
    <2> DEFINE h == zones[k] \in H
               z == zones[k]
    <2>1. cs[k] = [kind |-> kind, zone |-> z, hidden |-> h] BY DEF ForEach
    <2>2. z \in Origins /\ h \in BOOLEAN OBVIOUS
    <2> HIDE DEF h, z, cs
    <2> QED BY <2>1, <2>2 DEF ChangeType
  <1> HIDE DEF cs
  <1>3. PICK p : IsCourse(p, acc, cs, m) /\ Changed(acc, cs) = p[m] BY <1>1, ChangedCourse
  <1> DEFINE P == {k \in Nat : k <= m => Sound(p[k]) /\ Indexed(p[k].d)}
  <1>4. 0 \in P
    <2>1. p[0] = acc BY <1>3 DEF IsCourse
    <2> QED BY <2>1
  <1>5. ASSUME NEW k \in Nat, k \in P PROVE k + 1 \in P
    <2> SUFFICES ASSUME k + 1 <= m PROVE Sound(p[k + 1]) /\ Indexed(p[k + 1].d) OBVIOUS
    <2> DEFINE l == k + 1
               a == p[k]
               c == cs[l]
    <2>1. l \in 1 .. m /\ l - 1 = k BY <1>1
    <2>2. Sound(a) /\ Indexed(a.d) BY <1>1, <1>5
    <2>3. c \in ChangeType BY <1>2, <2>1
    <2>4. p[l] = Change(a, c) BY <1>3, <2>1 DEF IsCourse
    <2> HIDE DEF a, c, l
    <2>5. Sound(Change(a, c)) /\ Indexed(Change(a, c).d) BY <2>2, <2>3, ChangeIndexed
    <2> QED BY <2>4, <2>5 DEF l
  <1> HIDE DEF P
  <1>6. \A k \in Nat : k \in P BY <1>4, <1>5, SetInduction
  <1>7. Sound(p[m]) /\ Indexed(p[m].d) BY <1>1, <1>6 DEF P
  <1> QED BY <1>3, <1>7 DEF cs

\* apply_atomic_directory_update keeps them in order.
LEMMA ApplyIndexed ==
    ASSUME Parameters, StoreInv, Indexed(dir),
           NEW loading \in Seq(Origins), NEW removed \in Seq(Origins),
           NEW shown \in Seq(Origins), NEW hidden \in Seq(Origins),
           ApplyAtomicDirectoryUpdate(loading, removed, shown, hidden)
    PROVE  Indexed(dir') /\ ids' <= MaxIds
  <1> DEFINE H == Range(hidden)
             a0 == [d |-> dir, ids |-> ids, incs |-> incs]
             a1 == Changed(a0, ForEach("remove", removed, {}))
             a2 == Changed(a1, ForEach("load", loading, H))
             a3 == Changed(a2, ForEach("toggle", shown, {}))
             a4 == Changed(a3, ForEach("toggle", hidden, H))
  <1>0. dir' = a4.d /\ ids' = a4.ids /\ a4.ids <= MaxIds BY DEF ApplyAtomicDirectoryUpdate
  <1>1. Sound(a0) /\ Indexed(a0.d)
    <2>1. a0.d = dir /\ a0.ids = ids /\ a0.incs = incs /\ IsAcc(a0) BY DEF IsAcc
    <2> QED BY <2>1 DEF StoreInv, DirOK, Sound
  <1> HIDE DEF a0, a1, a2, a3, a4, H
  <1>2. Sound(a1) /\ Indexed(a1.d) BY <1>1, ChangedIndexed DEF a1
  <1>3. Sound(a2) /\ Indexed(a2.d) BY <1>2, ChangedIndexed DEF a2
  <1>4. Sound(a3) /\ Indexed(a3.d) BY <1>3, ChangedIndexed DEF a3
  <1>5. Sound(a4) /\ Indexed(a4.d) BY <1>4, ChangedIndexed DEF a4
  <1> QED BY <1>0, <1>5

IndexInv == StoreInv /\ Indexed(dir) /\ ids <= MaxIds

\* An insertion keeps the indexes; the count of addresses is within its bound.
LEMMA InsertStep ==
    ASSUME Parameters, IndexInv, StoreInv', NEW f, dir' = DirInsert(dir, f), ids' <= MaxIds
    PROVE  IndexInv'
  <1>1. SoundDirectory(dir.by, ids, incs) /\ Indexed(dir) BY DEF IndexInv, StoreInv, DirOK
  <1> DEFINE n == ids'
             i == incs'
  <1>2. SoundDirectory(DirInsert(dir, f).by, n, i) BY DEF StoreInv, DirOK
  <1> HIDE DEF n, i
  <1>3. Indexed(DirInsert(dir, f)) BY <1>1, <1>2, InsertedIndexed
  <1> QED BY <1>3 DEF IndexInv

\* Every step keeps the indexes in order.
LEMMA NextIndexed == ASSUME Parameters, IndexInv, [Next]_vars PROVE IndexInv'
  <1>0. StoreInv /\ StoreInv' BY NextStep DEF IndexInv
  <1>q. dir' = dir /\ ids' <= MaxIds => IndexInv' BY <1>0 DEF IndexInv
  <1>f. ids \in Nat /\ MaxIds \in Nat /\ ids <= MaxIds
    BY <1>0 DEF IndexInv, StoreInv, DirOK, SoundDirectory, Parameters
  <1>1. CASE \E t \in Transfers, z \in Origins, s \in 0 .. Serials - 1,
                sharded \in Sharding, re \in Retransfers : Prepare(t, z, s, sharded, re)
    <2>1. dir' = dir /\ ids' <= MaxIds BY <1>1 DEF Prepare, Fresh
    <2> QED BY <1>q, <2>1
  <1>2. CASE \E t \in Transfers : PublishPrepared(t)
    <2>1. PICK t \in Transfers : PublishPrepared(t) BY <1>2
    <2>2. dir' = DirInsert(dir, prep[t].entry) /\ ids' <= MaxIds
      BY <1>f, <2>1 DEF PublishPrepared
    <2> QED BY <1>0, <2>2, InsertStep
  <1>3. CASE \E t \in Transfers : PublishRefused(t)
    <2>1. dir' = dir /\ ids' <= MaxIds BY <1>3, <1>f DEF PublishRefused
    <2> QED BY <1>q, <2>1
  <1>4. CASE \E z \in Origins : Capture(z) \/ CompactStart(z)
    <2>1. dir' = dir /\ ids' <= MaxIds BY <1>4, <1>f DEF Capture, CompactStart
    <2> QED BY <1>q, <2>1
  <1>5. CASE ExpireIfSnapshot
    <2> DEFINE f == WithState(Get(dir, view.zone), ids + 1, "Expired")
    <2>1. (dir' = dir \/ dir' = DirInsert(dir, f)) /\ ids' <= MaxIds
      BY <1>5, <1>f DEF ExpireIfSnapshot, Fresh
    <2> HIDE DEF f
    <2> QED BY <1>0, <1>q, <2>1, InsertStep
  <1>6. CASE ActivateIfSnapshot
    <2> DEFINE f == Activated(Get(dir, view.zone), ids + 1)
    <2>1. (dir' = dir \/ dir' = DirInsert(dir, f)) /\ ids' <= MaxIds
      BY <1>6, <1>f DEF ActivateIfSnapshot, Fresh
    <2> HIDE DEF f
    <2> QED BY <1>0, <1>q, <2>1, InsertStep
  <1>7. CASE CompactFinish
    <2> DEFINE f == Compacted(Get(dir, comp.zone), ids + 1, comp.snap)
    <2>1. (dir' = dir \/ dir' = DirInsert(dir, f)) /\ ids' <= MaxIds
      BY <1>7, <1>f DEF CompactFinish, Fresh
    <2> HIDE DEF f
    <2> QED BY <1>0, <1>q, <2>1, InsertStep
  <1>8. CASE \E z \in Origins, s \in Copies, force \in BOOLEAN : RestoreStart(z, s, force)
    <2>1. dir' = dir /\ ids' <= MaxIds BY <1>8, <1>f DEF RestoreStart
    <2> QED BY <1>q, <2>1
  <1>9. CASE \E sharded \in Sharding : RestoreFinish(sharded)
    <2>0. PICK sharded \in Sharding : RestoreFinish(sharded) BY <1>9
    <2> DEFINE old == ins.expected
               hidden == ins.force \/ (old.id # None /\ old.hidden)
               f == NewEntry(ins.zone, ids + 1, ins.serial, hidden, ins.inc, old, sharded)
    <2>1. dir' = DirInsert(dir, f) /\ ids' <= MaxIds BY <2>0 DEF RestoreFinish, Fresh
    <2> HIDE DEF f
    <2> QED BY <1>0, <2>1, InsertStep
  <1>10. CASE RestoreRetry
    <2>1. dir' = dir /\ ids' = ids BY <1>10 DEF RestoreRetry
    <2> QED BY <1>q, <1>f, <2>1
  <1>11. CASE Transaction
    <2>1. Indexed(dir) BY DEF IndexInv
    <2>2. Indexed(dir') /\ ids' <= MaxIds
      BY <1>0, <1>11, <2>1, TransactionUpdates, ApplyIndexed DEF SomeUpdate
    <2> QED BY <1>0, <2>2 DEF IndexInv
  <1>12. CASE \E z \in Origins, hidden \in BOOLEAN : SetHidden(z, hidden)
    <2>1. PICK z \in Origins, hidden \in BOOLEAN : SetHidden(z, hidden) BY <1>12
    <2> DEFINE f == WithHidden(Get(dir, z), ids + 1, hidden)
    <2>2. dir' = DirInsert(dir, f) /\ ids' <= MaxIds BY <2>1 DEF SetHidden, Fresh
    <2> HIDE DEF f
    <2> QED BY <1>0, <2>2, InsertStep
  <1>13. CASE UNCHANGED vars
    <2>1. dir' = dir /\ ids' <= MaxIds BY <1>13, <1>f DEF vars
    <2> QED BY <1>q, <2>1
  <1>14. CASE CompactFailed \/ RestoreFailed
    <2>1. dir' = dir /\ ids' <= MaxIds BY <1>14, <1>f DEF CompactFailed, RestoreFailed
    <2> QED BY <1>q, <2>1
  <1> QED
    BY <1>1, <1>2, <1>3, <1>4, <1>5, <1>6, <1>7, <1>8, <1>9, <1>10, <1>11, <1>12, <1>13, <1>14
    DEF Next

-----------------------------------------------------------------------------
(* Lookup.                                                                  *)

IsName(q) == Len(q) \in Nat /\ q = [j \in 1 .. Len(q) |-> q[j]]

\* The first k labels of a name.
LEMMA FirstLabels ==
    ASSUME NEW q, IsName(q), NEW k \in 0 .. Len(q)
    PROVE  /\ Len(SubSeq(q, 1, k)) = k
           /\ Covers(SubSeq(q, 1, k), q)
           /\ SubSeq(q, 1, Len(q)) = q
  <1> DEFINE n == Len(q)
  <1>1. n \in Nat /\ q = [j \in 1 .. n |-> q[j]] BY DEF IsName
  <1>2. \A x \in 1 .. n : q[x] \in Range(q) BY <1>1 DEF Range
  <1>3. q \in Seq(Range(q))
    <2>1. q \in [1 .. n -> Range(q)] BY <1>1, <1>2
    <2> HIDE DEF n
    <2> QED BY <1>1, <2>1
  <1>4. \A m \in 0 .. n : SubSeq(q, 1, m) \in Seq(Range(q)) /\ Len(SubSeq(q, 1, m)) = m
    <2> SUFFICES ASSUME NEW m \in 0 .. n
                 PROVE  SubSeq(q, 1, m) \in Seq(Range(q)) /\ Len(SubSeq(q, 1, m)) = m
      OBVIOUS
    <2>1. SubSeq(q, 1, m) = [j \in 1 .. m |-> q[j]] BY <1>1, <1>3
    <2>2. m \in Nat /\ \A j \in 1 .. m : q[j] \in Range(q) BY <1>1, <1>2
    <2> QED BY <2>1, <2>2
  <1>5. SubSeq(q, 1, n) = q BY <1>1, <1>3
  <1> QED BY <1>1, <1>4, <1>5 DEF Covers

\* Zones that cover a name and have as many labels are the same.
LEMMA CoversOnce ==
    ASSUME NEW q, NEW o, NEW p, Covers(o, q), Covers(p, q), Len(o) = Len(p)
    PROVE  o = p
  BY DEF Covers

(* The entries that may answer q and have at most n labels.                 *)
Answering(by, q, n) ==
    {e \in EntriesOf(by) : ~e.hidden /\ Covers(e.origin, q) /\ Len(e.origin) <= n}

Deepest(e, S) == e \in S /\ \A f \in S : Len(f.origin) <= Len(e.origin)

\* The reference picks the deepest of them.
LEMMA ReferenceIs ==
    ASSUME Parameters, NEW by, NEW n, NEW i, SoundDirectory(by, n, i), NEW q,
           NEW S, S \subseteq EntriesOf(by), \A e \in S : Covers(e.origin, q),
           NEW e, Deepest(e, S)
    PROVE  Reference(S) = e.id
  <1>1. \A f \in EntriesOf(by) : Len(f.origin) \in Nat BY FiniteParts DEF Measured
  <1>2. \A z \in DOMAIN by : by[z].origin = z BY FiniteParts
  <1>3. Longest(S) \in S /\ \A f \in S : Len(f.origin) <= Len(Longest(S).origin)
    BY DEF Longest, Deepest
  <1>4. Len(Longest(S).origin) = Len(e.origin) BY <1>1, <1>3 DEF Deepest
  <1>5. Longest(S).origin = e.origin BY <1>3, <1>4, CoversOnce DEF Deepest
  <1>6. Longest(S) = e BY <1>2, <1>3, <1>5 DEF Deepest, EntriesOf
  <1>7. S # {} BY <1>3
  <1> QED BY <1>6, <1>7 DEF Reference

\* Min picks the least of a set of indices.
LEMMA MinOf ==
    ASSUME NEW n \in Nat, NEW s \in SUBSET (1 .. n), s # {}
    PROVE  Min(s) \in s /\ \A y \in s : Min(s) <= y
  <1>1. s \subseteq Nat OBVIOUS
  <1>2. \E x \in s : \A y \in s : x <= y BY <1>1, Least
  <1> QED BY <1>2 DEF Min

\* A key of the suffix index leads to the entry of the directory.
LEMMA SuffixIsBy ==
    ASSUME NEW d, NEW n, NEW i, SoundDirectory(d.by, n, i), Indexed(d), NEW key
    PROVE  /\ SuffixGet(d, key) = Get(d, key)
           /\ Visible(SuffixGet(d, key)) <=> key \in DOMAIN d.by /\ ~d.by[key].hidden
  <1>1. d.suffix = d.by /\ \A z \in DOMAIN d.by : Len(z) \in d.lengths BY DEF Indexed
  <1>2. SuffixGet(d, key) = Get(d, key) BY <1>1 DEF SuffixGet, Get
  <1>3. /\ (Get(d, key).id = None) <=> (key \notin DOMAIN d.by)
        /\ key \in DOMAIN d.by => Get(d, key) = d.by[key]
    BY GetFacts
  <1> QED BY <1>2, <1>3 DEF Visible

\* The suffix index finds the deepest zone that answers, of those with at most
\* n labels.
LEMMA FirstVisibleIs ==
    ASSUME Parameters, NEW d, NEW m, NEW i, SoundDirectory(d.by, m, i), Indexed(d),
           NEW q, IsName(q), NEW n \in 0 .. Len(q)
    PROVE  LET e == FirstVisible(d, KeysUpTo(q, n))
               S == Answering(d.by, q, n)
           IN  IF S = {} THEN e = NoEntry ELSE Deepest(e, S)
  <1> DEFINE keys == KeysUpTo(q, n)
             S == Answering(d.by, q, n)
             hits == {j \in DOMAIN keys : Visible(SuffixGet(d, keys[j]))}
             e == FirstVisible(d, keys)
  <1>0. n \in Nat /\ Len(q) \in Nat /\ n <= Len(q) BY DEF IsName
  <1>1. /\ DOMAIN keys = 1 .. n + 1
        /\ \A j \in 1 .. n + 1 : keys[j] = SubSeq(q, 1, n + 1 - j)
    BY DEF KeysUpTo
  <1>2. \A j \in 1 .. n + 1 : Len(keys[j]) = n + 1 - j /\ Covers(keys[j], q)
    <2> SUFFICES ASSUME NEW j \in 1 .. n + 1
                 PROVE  Len(keys[j]) = n + 1 - j /\ Covers(keys[j], q)
      OBVIOUS
    <2> DEFINE k == n + 1 - j
    <2>1. k \in 0 .. Len(q) BY <1>0
    <2> HIDE DEF k
    <2>2. Len(SubSeq(q, 1, k)) = k /\ Covers(SubSeq(q, 1, k), q) BY <2>1, FirstLabels
    <2> QED BY <1>1, <2>2 DEF k
  <1>3. \A z \in DOMAIN d.by : d.by[z].origin = z /\ Len(z) \in Nat
    BY FiniteParts DEF SoundDirectory, Parameters
  <1>4. e = IF hits = {} THEN NoEntry ELSE SuffixGet(d, keys[Min(hits)])
    BY DEF FirstVisible
  <1> HIDE DEF keys, e
  <1>5. \A j \in hits : /\ keys[j] \in DOMAIN d.by /\ ~d.by[keys[j]].hidden
                        /\ SuffixGet(d, keys[j]) = d.by[keys[j]]
    <2> SUFFICES ASSUME NEW j \in hits
                 PROVE  /\ keys[j] \in DOMAIN d.by /\ ~d.by[keys[j]].hidden
                        /\ SuffixGet(d, keys[j]) = d.by[keys[j]]
      OBVIOUS
    <2>1. keys[j] \in DOMAIN d.by /\ ~d.by[keys[j]].hidden BY SuffixIsBy
    <2>2. SuffixGet(d, keys[j]) = Get(d, keys[j]) BY SuffixIsBy
    <2> QED BY <2>1, <2>2 DEF Get
  <1>6. \A j \in hits : d.by[keys[j]] \in S
    <2> SUFFICES ASSUME NEW j \in hits PROVE d.by[keys[j]] \in S OBVIOUS
    <2>1. j \in 1 .. n + 1 BY <1>1
    <2>2. Len(keys[j]) <= n BY <1>0, <1>2, <2>1
    <2> QED BY <1>2, <1>3, <1>5, <2>1, <2>2 DEF Answering, EntriesOf
  <1>7. ASSUME NEW f \in S
        PROVE  \E j \in hits : f = d.by[keys[j]] /\ j = n + 1 - Len(f.origin)
    <2>1. PICK z \in DOMAIN d.by : f = d.by[z] BY DEF Answering, EntriesOf
    <2>2. /\ f.origin = z /\ Len(z) \in Nat /\ Len(z) <= n /\ Covers(z, q) /\ ~d.by[z].hidden
      BY <1>3, <2>1 DEF Answering
    <2> DEFINE j == n + 1 - Len(z)
    <2>3. j \in 1 .. n + 1 /\ n + 1 - j = Len(z) BY <1>0, <2>2
    <2>4. keys[j] = z BY <1>1, <2>2, <2>3 DEF Covers
    <2>5. Visible(SuffixGet(d, keys[j])) BY <2>1, <2>2, <2>4, SuffixIsBy
    <2>6. j \in hits BY <1>1, <2>3, <2>5
    <2> QED BY <2>1, <2>2, <2>4, <2>6
  <1>8. CASE S = {}
    <2>1. hits = {} BY <1>6, <1>8
    <2> QED BY <1>4, <1>8, <2>1 DEF e, keys
  <1>9. CASE S # {}
    <2> DEFINE k == Min(hits)
    <2>1. hits # {} /\ hits \subseteq 1 .. n + 1 /\ n + 1 \in Nat
      <3>1. hits # {} BY <1>7, <1>9
      <3>2. hits \subseteq DOMAIN keys OBVIOUS
      <3> QED BY <1>0, <1>1, <3>1, <3>2
    <2>2. k \in hits /\ \A y \in hits : k <= y
      <3> DEFINE h == hits
                 N == n + 1
      <3>1. h # {} /\ h \in SUBSET (1 .. N) /\ N \in Nat BY <2>1
      <3> HIDE DEF h, N
      <3>2. Min(h) \in h /\ \A y \in h : Min(h) <= y BY <3>1, MinOf
      <3> QED BY <3>2 DEF h
    <2>3. e = d.by[keys[k]] BY <1>4, <1>5, <2>1, <2>2
    <2>4. e \in S BY <1>6, <2>2, <2>3
    <2>5. Len(e.origin) = n + 1 - k
      <3>1. e.origin = keys[k] BY <1>3, <1>5, <2>2, <2>3
      <3>2. k \in 1 .. n + 1 BY <2>1, <2>2
      <3> QED BY <1>2, <3>1, <3>2
    <2>6. \A f \in S : Len(f.origin) <= Len(e.origin)
      <3> SUFFICES ASSUME NEW f \in S PROVE Len(f.origin) <= Len(e.origin) OBVIOUS
      <3>1. PICK j \in hits : j = n + 1 - Len(f.origin) BY <1>7
      <3>2. Len(f.origin) \in Nat BY <1>3 DEF Answering, EntriesOf
      <3>3. j \in 1 .. n + 1 /\ k \in 1 .. n + 1 /\ k <= j BY <2>1, <2>2
      <3> HIDE DEF k, hits
      <3>4. j \in Nat /\ k \in Nat BY <1>0, <3>3
      <3> QED BY <1>0, <2>5, <3>1, <3>2, <3>3, <3>4
    <2> QED BY <1>9, <2>4, <2>6 DEF Deepest, e, keys
  <1> QED BY <1>8, <1>9

\* The short list finds the deepest zone that answers, and so does the index.
LEMMA BestMatchIs ==
    ASSUME Parameters, NEW d, NEW m, NEW i, SoundDirectory(d.by, m, i), Indexed(d),
           NEW q, IsName(q)
    PROVE  LET e == FindBestMatch(d, q)
               S == Answering(d.by, q, Len(q))
           IN  IF S = {} THEN e = NoEntry ELSE Deepest(e, S)
  <1> DEFINE S == Answering(d.by, q, Len(q))
             e == FindBestMatch(d, q)
             small == d.small
             hits == {j \in DOMAIN small : ~small[j].hidden /\ Covers(small[j].origin, q)}
  <1>1. CASE small = <<>>
    <2>1. e = FirstVisible(d, KeysUpTo(q, Len(q))) BY <1>1 DEF FindBestMatch
    <2> DEFINE n == Len(q)
    <2>2. n \in 0 .. n BY DEF IsName
    <2>3. LET x == FirstVisible(d, KeysUpTo(q, n))
              T == Answering(d.by, q, n)
          IN  IF T = {} THEN x = NoEntry ELSE Deepest(x, T)
      BY <2>2, FirstVisibleIs
    <2> QED BY <2>1, <2>3
  <1>2. CASE small # <<>>
    <2>0. e = IF hits = {} THEN NoEntry ELSE small[Min(hits)] BY <1>2 DEF FindBestMatch
    <2>1. ListOf(small, EntriesOf(d.by))
      <3>1. d.len \in Nat /\ SmallLimit \in Nat
        BY FiniteParts DEF Indexed, Parameters
      <3> QED BY <1>2, <3>1 DEF Indexed
    <2> HIDE DEF e, small
    <2> DEFINE n == Cardinality(EntriesOf(d.by))
    <2>2. /\ DOMAIN small = 1 .. n /\ n \in Nat
          /\ \A k \in DOMAIN small : small[k] \in EntriesOf(d.by)
          /\ \A f \in EntriesOf(d.by) : \E k \in DOMAIN small : small[k] = f
          /\ \A j, k \in DOMAIN small : j < k => Len(small[j].origin) >= Len(small[k].origin)
      BY <2>1 DEF ListOf, Descends
    <2> HIDE DEF n
    <2>3. \A j \in hits : small[j] \in S
      BY <2>2 DEF Answering, Covers
    <2>4. \A f \in S : \E j \in hits : small[j] = f BY <2>2 DEF Answering
    <2>5. CASE S = {}
      <3>1. hits = {} BY <2>3, <2>5
      <3> QED BY <2>0, <2>5, <3>1 DEF e
    <2>6. CASE S # {}
      <3> DEFINE k == Min(hits)
      <3>1. hits # {} /\ hits \in SUBSET (1 .. n) BY <2>2, <2>4, <2>6
      <3>2. k \in hits /\ \A y \in hits : k <= y
        <4> DEFINE h == hits
        <4>1. h # {} /\ h \in SUBSET (1 .. n) /\ n \in Nat BY <2>2, <3>1
        <4> HIDE DEF h
        <4>2. Min(h) \in h /\ \A y \in h : Min(h) <= y BY <4>1, MinOf
        <4> QED BY <4>2 DEF h
      <3>3. e = small[k] /\ e \in S BY <2>0, <2>3, <3>1, <3>2
      <3>4. \A f \in S : Len(f.origin) <= Len(e.origin)
        <4> SUFFICES ASSUME NEW f \in S PROVE Len(f.origin) <= Len(e.origin) OBVIOUS
        <4>1. PICK j \in hits : small[j] = f BY <2>4
        <4>2. \A x \in EntriesOf(d.by) : Len(x.origin) \in Nat BY FiniteParts DEF Measured
        <4>3. Len(f.origin) \in Nat /\ Len(e.origin) \in Nat BY <3>3, <4>2 DEF Answering
        <4>5. k \in 1 .. n /\ j \in 1 .. n /\ k <= j BY <3>1, <3>2
        <4>4. k = j \/ k < j
          <5> HIDE DEF k, hits
          <5> QED BY <2>2, <4>5
        <4> QED BY <2>2, <3>2, <3>3, <4>1, <4>3, <4>4
      <3> QED BY <2>6, <3>3, <3>4 DEF Deepest, e
    <2> QED BY <2>5, <2>6
  <1> QED BY <1>1, <1>2

\* IndexInv holds in every state.
THEOREM IndexCorrect ==
    ASSUME Parameters PROVE Spec => []IndexInv
  <1>1. Init => IndexInv
    <2> SUFFICES ASSUME Init PROVE IndexInv OBVIOUS
    <2>1. /\ dir.by = <<>> /\ dir.suffix = <<>> /\ dir.len = 0 /\ dir.active = 0
          /\ dir.small = <<>> /\ ids = 0
      BY DEF Init, EmptyDirectory
    <2>2. StoreInv BY InitInv
    <2>3. DOMAIN dir.by = {} BY <2>1
    <2>4. CountedIn(dir.by) = {} /\ EntriesOf(dir.by) = {} BY <2>3 DEF CountedIn, EntriesOf
    <2>5. SmallLimit \in Nat /\ MaxIds \in Nat BY DEF Parameters
    <2>6. ListOf(<<>>, {}) BY FS_EmptySet DEF ListOf, Descends
    <2>7. Indexed(dir) BY <2>1, <2>3, <2>4, <2>5, <2>6, FS_EmptySet DEF Indexed
    <2> QED BY <2>1, <2>2, <2>5, <2>7 DEF IndexInv
  <1>2. IndexInv /\ [Next]_vars => IndexInv' BY NextIndexed
  <1> QED BY <1>1, <1>2, PTL DEF Spec

\* TypeOK for any constants: insert and remove keep both indexes, the number of
\* zones and the number of active zones in step.
THEOREM DirectoryTypes ==
    ASSUME Parameters PROVE Spec => []TypeOK
  <1>1. IndexInv => TypeOK
    <2> SUFFICES ASSUME IndexInv PROVE TypeOK OBVIOUS
    <2>1. /\ DOMAIN dir.by \subseteq Origins /\ ids \in Nat /\ DOMAIN wanted = DOMAIN dir.by
      BY DEF IndexInv, StoreInv, DirOK, SoundDirectory
    <2>2. ids \in 0 .. MaxIds BY <2>1 DEF IndexInv, Parameters
    <2>3. /\ dir.suffix = dir.by /\ dir.len = Cardinality(DOMAIN dir.by)
          /\ dir.active = Cardinality({z \in DOMAIN dir.by : Counted(dir.by[z]) = 1})
      BY DEF IndexInv, Indexed, CountedIn
    <2> QED BY <2>1, <2>2, <2>3 DEF TypeOK
  <1> QED BY <1>1, IndexCorrect, PTL

\* LookupIsLongestMatch for any constants: a query is answered from the deepest
\* zone that is not hidden, whether find_best_match_arc uses the short list or
\* the suffix index, and DS at an origin from the deepest one above.
THEOREM LookupCorrect ==
    ASSUME Parameters PROVE Spec => []LookupIsLongestMatch
  <1>1. IndexInv => LookupIsLongestMatch
    <2> SUFFICES ASSUME IndexInv, NEW q \in QNames
                 PROVE  LET shown == {e \in Entries : ~e.hidden /\ Covers(e.origin, q)}
                            above == {e \in shown : e.origin # q}
                        IN  /\ QueryZone(dir, q, FALSE).id = Reference(shown)
                            /\ QueryZone(dir, q, TRUE).id =
                                 IF above # {} THEN Reference(above) ELSE Reference(shown)
      BY DEF LookupIsLongestMatch
    <2> DEFINE shown == {e \in Entries : ~e.hidden /\ Covers(e.origin, q)}
               above == {e \in shown : e.origin # q}
               best == FindBestMatch(dir, q)
               parent == FindParentOfExactMatch(dir, q)
               by == dir.by
    <2>1. IsName(q) /\ Len(q) \in Nat BY DEF Parameters, IsName
    <2>2. SoundDirectory(by, ids, incs) /\ Indexed(dir) BY DEF IndexInv, StoreInv, DirOK
    <2>3. /\ \A z \in DOMAIN by : by[z].origin = z /\ Len(z) \in Nat
          /\ \A z \in DOMAIN by : by[z].id # None
      <3>1. \A z \in DOMAIN by : by[z].id # None
        BY <2>2 DEF SoundDirectory, SoundEntry, EntryType, None
      <3> QED BY <2>2, <3>1, FiniteParts DEF SoundDirectory, Parameters
    <2>4. Answering(by, q, Len(q)) = shown
      BY DEF Answering, Covers, EntriesOf, Entries
    <2>5. shown \subseteq EntriesOf(by) /\ above \subseteq EntriesOf(by)
          /\ (\A e \in shown : Covers(e.origin, q)) /\ (\A e \in above : Covers(e.origin, q))
      BY DEF Entries, EntriesOf
    <2>6. IF shown = {} THEN best = NoEntry ELSE Deepest(best, shown)
      <3>1. LET e == FindBestMatch(dir, q)
                S == Answering(dir.by, q, Len(q))
            IN  IF S = {} THEN e = NoEntry ELSE Deepest(e, S)
        BY <2>1, <2>2, BestMatchIs
      <3> QED BY <2>4, <3>1
    <2> HIDE DEF shown, above, best, parent
    <2>7. best.id = Reference(shown)
      <3>1. CASE shown = {} BY <2>6, <3>1 DEF Reference, NoEntry
      <3>2. CASE shown # {} BY <2>2, <2>5, <2>6, <3>2, ReferenceIs
      <3> QED BY <3>1, <3>2
    <2>8. QueryZone(dir, q, FALSE) = best BY DEF QueryZone, best
    <2>9. /\ parent.id # None => QueryZone(dir, q, TRUE) = parent
          /\ parent.id = None => QueryZone(dir, q, TRUE) = best
      BY DEF QueryZone, best, parent
    <2>10. Visible(SuffixGet(dir, q)) <=> (\E e \in shown : e.origin = q)
      <3>1. Visible(SuffixGet(dir, q)) <=> q \in DOMAIN by /\ ~by[q].hidden
        BY <2>2, SuffixIsBy
      <3>2. Covers(q, q)
        <4> DEFINE k == Len(q)
        <4>1. k \in 0 .. Len(q) BY <2>1
        <4>2. SubSeq(q, 1, Len(q)) = q BY <2>1, <4>1, FirstLabels
        <4> QED BY <2>1, <4>2 DEF Covers
      <3> QED BY <2>3, <3>1, <3>2 DEF shown, Entries
    <2>11. above = shown \/ Visible(SuffixGet(dir, q)) BY <2>10 DEF above
    <2>12. CASE ~Visible(SuffixGet(dir, q))
      <3>1. parent = NoEntry /\ above = shown BY <2>11, <2>12 DEF parent, FindParentOfExactMatch
      <3>2. parent.id = None BY <3>1 DEF NoEntry
      <3> QED BY <2>7, <2>8, <2>9, <3>1, <3>2 DEF shown, above
    <2>13. CASE Visible(SuffixGet(dir, q)) /\ q = <<>>
      <3>1. parent.id = None BY <2>13 DEF parent, FindParentOfExactMatch, NoEntry
      <3>2. above = {}
        <4> SUFFICES ASSUME NEW e \in above PROVE FALSE OBVIOUS
        <4>1. Covers(e.origin, q) /\ e.origin # q /\ e \in Entries BY DEF above, shown
        <4>2. Len(e.origin) \in Nat BY <2>3, <4>1 DEF Entries
        <4>3. Len(q) = 0 BY <2>13
        <4>4. Len(e.origin) = Len(q) BY <4>1, <4>2, <4>3 DEF Covers
        <4>5. PICK f \in shown : f.origin = q BY <2>10, <2>13
        <4>6. Covers(q, q) BY <4>5 DEF shown
        <4> QED BY <4>1, <4>4, <4>6, CoversOnce
      <3> QED BY <2>7, <2>8, <2>9, <3>1, <3>2 DEF shown, above
    <2>14. CASE Visible(SuffixGet(dir, q)) /\ q # <<>>
      <3> DEFINE n == Len(q) - 1
      <3>1. n \in 0 .. Len(q)
        <4>1. Len(q) # 0
          <5> SUFFICES ASSUME Len(q) = 0 PROVE FALSE OBVIOUS
          <5>1. q = [j \in 1 .. 0 |-> q[j]] BY <2>1 DEF IsName
          <5> QED BY <2>14, <5>1
        <4> QED BY <2>1, <4>1
      <3>2. parent = FirstVisible(dir, KeysUpTo(q, n)) BY <2>14 DEF parent, FindParentOfExactMatch
      <3>3. Covers(q, q)
        <4>1. PICK f \in shown : f.origin = q BY <2>10, <2>14
        <4> QED BY <4>1 DEF shown
      <3>4. Answering(by, q, n) = above
        <4>1. \A e \in Entries : Len(e.origin) \in Nat BY <2>3 DEF Entries
        <4>2. \A e \in Entries : Covers(e.origin, q) => (e.origin # q <=> Len(e.origin) <= n)
          <5> SUFFICES ASSUME NEW e \in Entries, Covers(e.origin, q)
                       PROVE  e.origin # q <=> Len(e.origin) <= n
            OBVIOUS
          <5>1. Len(e.origin) \in Nat /\ Len(e.origin) <= Len(q) BY <4>1 DEF Covers
          <5>2. Len(e.origin) = Len(q) => e.origin = q BY <3>3, CoversOnce
          <5> QED BY <2>1, <5>1, <5>2
        <4> HIDE DEF n
        <4> QED BY <4>2 DEF Answering, above, shown, EntriesOf, Entries
      <3>5. IF above = {} THEN parent = NoEntry ELSE Deepest(parent, above)
        <4> HIDE DEF n
        <4>1. LET e == FirstVisible(dir, KeysUpTo(q, n))
                  S == Answering(dir.by, q, n)
              IN  IF S = {} THEN e = NoEntry ELSE Deepest(e, S)
          BY <2>1, <2>2, <3>1, FirstVisibleIs
        <4> QED BY <3>2, <3>4, <4>1
      <3>6. CASE above = {}
        <4>1. parent.id = None BY <3>5, <3>6 DEF NoEntry
        <4> QED BY <2>7, <2>8, <2>9, <3>6, <4>1 DEF shown, above
      <3>7. CASE above # {}
        <4>1. Deepest(parent, above) BY <3>5, <3>7
        <4>2. parent.id = Reference(above) BY <2>2, <2>5, <4>1, ReferenceIs
        <4>3. parent.id # None
          <5>1. parent \in EntriesOf(by) BY <2>5, <4>1 DEF Deepest
          <5> QED BY <2>3, <5>1 DEF EntriesOf
        <4> QED BY <2>7, <2>8, <2>9, <3>7, <4>2, <4>3 DEF shown, above
      <3> QED BY <3>6, <3>7
    <2> QED BY <2>12, <2>13, <2>14
  <1> QED BY <1>1, IndexCorrect, PTL
=============================================================================
