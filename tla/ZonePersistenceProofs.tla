--------------------------- MODULE ZonePersistenceProofs ---------------------------
(***************************************************************************)
(* What the last-good cache of a zone keeps, for every value of the        *)
(* constants (crates/borondns-server/src/zone_persistence.rs).             *)
(*                                                                         *)
(* Part one is about a configured zone.  Inv ties the two directories, the *)
(* operations between them, the served copy and the attempt together; from *)
(* it follow TypeOK, RestoreIsWhole, FreshnessIsEarned and RestoredInTime, *)
(* whether a crash keeps operations in order or not.  When it does, AckInv *)
(* adds what was acknowledged, and the cache implements LastGoodCopy.      *)
(*                                                                         *)
(* Part two is about a catalog member.  MInv says in which namespace a     *)
(* content may be, and which namespaces an identity still leads to; from   *)
(* it follows NotRevived.                                                  *)
(*                                                                         *)
(* The theorems have Parameters as a hypothesis, which TLC evaluates for   *)
(* the instances of MCStorage.                                             *)
(***************************************************************************)
EXTENDS ZonePersistence, FiniteSetTheorems, WellFoundedInduction, TLAPS

(* The files of the one namespace of a configured zone.                    *)
BaseName == <<"base", 0>>
JournalName == <<"journal", 0>>
FreshName == <<"fresh", 0>>

IsSeq(s) == \E S : s \in Seq(S)

(* What a good file of each kind is, given the newest content k that may   *)
(* be on disk, the newest serial s and the times p of the primaries'       *)
(* statements.                                                             *)
IsCopy(c, k, s) ==
    /\ c = [serial |-> c.serial, content |-> c.content]
    /\ c.serial \in 1..s /\ c.content \in 1..k

IsBase(f, k, s, p) ==
    /\ f.kind = "base"
    /\ f = [kind |-> "base", copy |-> f.copy, time |-> f.time]
    /\ IsCopy(f.copy, k, s)
    /\ f.time \in Nat /\ f.time <= p[f.copy.content]

Entry == [old : Nat, new : Nat, from : Nat, to : Nat, time : Nat]

(* The entries lead from copy on, each from where the one before has led.  *)
Chained(e, copy) ==
    \A i \in 1..Len(e) :
        /\ e[i].old = IF i = 1 THEN copy.serial ELSE e[i - 1].new
        /\ e[i].from = IF i = 1 THEN copy.content ELSE e[i - 1].to

LastOf(e) == e[Len(e)]
EndOf(e) == [serial |-> LastOf(e).new, content |-> LastOf(e).to]

IsJournal(f, k, s, p) ==
    /\ f.kind = "journal"
    /\ f = [kind |-> "journal", base |-> f.base, serial |-> f.serial, entries |-> f.entries]
    /\ IsBase(f.base, k, s, p) /\ f.serial = f.base.copy.serial
    /\ f.entries \in Seq(Entry) /\ 1 <= Len(f.entries) /\ Len(f.entries) <= MaxEntries
    /\ Chained(f.entries, f.base.copy)
    /\ IsCopy(EndOf(f.entries), k, s)
    /\ LastOf(f.entries).time <= p[LastOf(f.entries).to]

IsSum(f, k, s, p) == IsBase(f, k, s, p) \/ IsJournal(f, k, s, p)

(* The copy that a checkpoint, or a journal with its checkpoint, stands    *)
(* for, and when it was written.                                           *)
CopyIn(f) == IF f.kind = "base" THEN f.copy ELSE EndOf(f.entries)
TimeIn(f) == IF f.kind = "base" THEN f.time ELSE LastOf(f.entries).time

IsFresh(f, k, s, p) ==
    /\ f.kind = "fresh"
    /\ f = [kind |-> "fresh", serial |-> f.serial, sum |-> f.sum, time |-> f.time]
    /\ IsSum(f.sum, k, s, p)
    /\ f.time \in Nat /\ f.time <= p[CopyIn(f.sum).content]

IsFile(n, f, k, s, p) ==
    \/ f = NoFile
    \/ n = BaseName /\ IsBase(f, k, s, p)
    \/ n = JournalName /\ IsJournal(f, k, s, p)
    \/ n = FreshName /\ IsFresh(f, k, s, p)

IsDisk(d, k, s, p) ==
    /\ d = [n \in Names |-> d[n]]
    /\ \A n \in Names : IsFile(n, d[n], k, s, p)

GoodOps(ops, k, s, p) ==
    /\ IsSeq(ops)
    /\ \A i \in 1..Len(ops) : ops[i].name \in Names /\ IsFile(ops[i].name, ops[i].file, k, s, p)

(* What the active file and the copy on a disk are.                        *)
Active(d) == IF JournalBound(d, 0) THEN d[JournalName] ELSE d[BaseName]
CopyOn(d) == IF d[BaseName] = NoFile THEN NoCopy ELSE CopyIn(Active(d))

DisksOf(d, ops) == { After(d, SubSeq(ops, 1, k)) : k \in 0..Len(ops) }

-----------------------------------------------------------------------------
(* The invariant.                                                          *)

(* The newest content that may be on disk: one that is only staged is not. *)
Settled == IF att[1].pc = "staged" THEN minted.content - 1 ELSE minted.content

Plain ==
    /\ now \in Nat /\ now \in 1..Max2(1, MaxTime) /\ crashes \in 0..MaxCrashes
    /\ plan.listed /\ plan.token = 0 /\ plan.gen = 0
    /\ cat.pc = "idle"
    /\ DOMAIN past = {"owner", "life", "ended"} /\ past.life = {} /\ past.ended = {}
    /\ DOMAIN minted = {"content", "token", "gen", "serial"} /\ minted.token = 0
    /\ minted.content \in 0..MaxContents /\ minted.serial \in Nat \ {0}
    /\ minted.serial <= minted.content + 1

History ==
    /\ proof \in [Contents -> Nat] /\ acked \in [Contents -> Nat]
    /\ \A c \in Contents :
          /\ proof[c] <= now /\ acked[c] <= proof[c]
          /\ acked[c] > 0 => c <= Settled

Files ==
    /\ IsDisk(visible, Settled, minted.serial, proof)
    /\ IsDisk(durable, Settled, minted.serial, proof)
    /\ GoodOps(pending, Settled, minted.serial, proof)
    /\ visible = After(durable, pending)

Memory ==
    /\ DOMAIN mem = {"copy", "expired"} /\ mem.expired \in BOOLEAN
    /\ mem.copy = CopyOn(visible)

StagedOK(a) ==
    /\ minted.content \in Nat \ {0}
    /\ IsCopy(a.copy, minted.content, minted.serial) /\ a.copy.content = minted.content
    /\ IF a.full
       THEN IsBase(a.file, minted.content, minted.serial, proof) /\ a.file.copy = a.copy
       ELSE /\ IsJournal(a.file, minted.content, minted.serial, proof)
            /\ a.file.base = visible[BaseName] /\ EndOf(a.file.entries) = a.copy

Fields == {"pc", "gen", "token", "base", "copy", "file", "full", "time"}

Attempt(a) ==
    /\ DOMAIN a = Fields /\ a.gen = 0 /\ a.token = 0
    /\ a.pc \in {"idle", "begun", "staged", "published", "summed", "renewed"}
    /\ a.copy = NoCopy \/ IsCopy(a.copy, minted.content, minted.serial)
    /\ a.pc \in {"begun", "staged", "summed", "renewed"} => a.base = mem.copy
    /\ a.pc = "staged" => StagedOK(a)
    /\ a.pc \in {"summed", "renewed"} =>
          a.base # NoCopy /\ a.time \in Nat /\ a.time = proof[a.base.content]
    /\ a.pc = "summed" => a.file = Active(visible)

Inv ==
    /\ Plain /\ History /\ Files /\ Memory
    /\ att = [x \in {1} |-> att[1]] /\ Attempt(att[1])

(* Acknowledged confirmations on the disks that a crash may leave.         *)
Kept(d) ==
    d[BaseName] # NoFile => Restore(d, 0).time >= acked[CopyOn(d).content]
Renewed(d) ==
    d[BaseName] # NoFile /\ att[1].pc = "renewed" /\ CopyOn(d).content = att[1].base.content =>
        Restore(d, 0).time >= att[1].time
AckInv == \A d \in DisksOf(durable, pending) : Kept(d) /\ Renewed(d)

-----------------------------------------------------------------------------
(* Disks and the operations on them.                                       *)

\* Every non-empty set of natural numbers has a least element.
LEMMA Least ==
    ASSUME NEW T, T \subseteq Nat, T # {}
    PROVE  \E n \in T : \A k \in T : n <= k
  <1>1. IsWellFoundedOn(OpToRel(<, Nat), Nat) BY NatLessThanWellFounded
  <1>2. PICK n \in T : \A k \in T : ~(<<k, n>> \in OpToRel(<, Nat)) BY <1>1, WFMin
  <1>3. \A k \in T : ~(k < n) BY <1>2 DEF OpToRel
  <1> QED BY <1>3

\* A non-empty set of indices has a greatest one, and Max picks it.
LEMMA MaxOf ==
    ASSUME NEW n \in Nat, NEW s \in SUBSET (1 .. n), s # {}
    PROVE  Max(s) \in s /\ \A y \in s : Max(s) >= y
  <1> DEFINE T == {k \in Nat : \A y \in s : k >= y}
  <1>1. n \in T OBVIOUS
  <1>2. PICK k \in T : \A j \in T : k <= j BY <1>1, Least
  <1>3. k \in s
    <2> SUFFICES ASSUME k \notin s PROVE FALSE OBVIOUS
    <2>1. \A y \in s : y \in Int /\ k >= y /\ y # k BY <1>2
    <2>2. \A y \in s : k - 1 >= y BY <1>2, <2>1
    <2>6. PICK y \in s : TRUE OBVIOUS
    <2>3. y \in Nat /\ y >= 1 OBVIOUS
    <2>4. k - 1 \in Nat BY <1>2, <2>2, <2>3
    <2>5. k - 1 \in T BY <2>2, <2>4
    <2> QED BY <1>2, <2>5
  <1>4. \E x \in s : \A y \in s : x >= y BY <1>2, <1>3
  <1> QED BY <1>4 DEF Max

\* A sequence has a natural length and its indices start at 1.
LEMMA SeqIs ==
    ASSUME NEW s, IsSeq(s)
    PROVE  /\ Len(s) \in Nat /\ DOMAIN s = 1 .. Len(s)
           /\ s = [i \in 1 .. Len(s) |-> s[i]]
  <1>1. PICK S : s \in Seq(S) BY DEF IsSeq
  <1> QED BY <1>1

\* The concatenation of two sequences, place by place.
LEMMA SeqConcat ==
    ASSUME NEW s, NEW t, IsSeq(s), IsSeq(t)
    PROVE  /\ IsSeq(s \o t) /\ Len(s \o t) = Len(s) + Len(t)
           /\ \A i \in 1 .. Len(s) : (s \o t)[i] = s[i]
           /\ \A i \in 1 .. Len(t) : (s \o t)[Len(s) + i] = t[i]
           /\ \A i \in 1 .. Len(s \o t) : i > Len(s) => (s \o t)[i] = t[i - Len(s)]
  <1>1. PICK S : s \in Seq(S) BY DEF IsSeq
  <1>2. PICK T : t \in Seq(T) BY DEF IsSeq
  <1>3. s \in Seq(S \cup T) /\ t \in Seq(S \cup T) BY <1>1, <1>2
  <1>4. s \o t \in Seq(S \cup T) BY <1>3
  <1> QED BY <1>3, <1>4 DEF IsSeq

\* The first k elements of a sequence.
LEMMA SeqPrefix ==
    ASSUME NEW s, IsSeq(s), NEW k \in 0 .. Len(s)
    PROVE  /\ IsSeq(SubSeq(s, 1, k)) /\ Len(SubSeq(s, 1, k)) = k
           /\ \A i \in 1 .. k : SubSeq(s, 1, k)[i] = s[i]
  <1>1. PICK S : s \in Seq(S) BY DEF IsSeq
  <1>2. SubSeq(s, 1, k) \in Seq(S) BY <1>1
  <1> QED BY <1>1, <1>2 DEF IsSeq

\* The value of a name after some operations is that of the last operation
\* on it, or the one it had.
LEMMA AfterAt ==
    ASSUME NEW d, NEW ops, IsSeq(ops), NEW n \in Names
    PROVE  \/ /\ \A i \in 1 .. Len(ops) : ops[i].name # n
              /\ After(d, ops)[n] = d[n]
           \/ \E i \in 1 .. Len(ops) :
                 /\ ops[i].name = n /\ After(d, ops)[n] = ops[i].file
                 /\ \A j \in 1 .. Len(ops) : j > i => ops[j].name # n
  <1> DEFINE mine == {i \in DOMAIN ops : ops[i].name = n}
  <1>1. After(d, ops)[n] = IF mine = {} THEN d[n] ELSE ops[Max(mine)].file BY DEF After
  <1>2. Len(ops) \in Nat /\ DOMAIN ops = 1 .. Len(ops) BY SeqIs
  <1>3. CASE mine = {} BY <1>1, <1>2, <1>3
  <1>4. CASE mine # {}
    <2>1. mine \in SUBSET (1 .. Len(ops)) BY <1>2
    <2> HIDE DEF mine
    <2>2. Max(mine) \in mine /\ \A y \in mine : Max(mine) >= y BY <1>2, <1>4, <2>1, MaxOf
    <2> DEFINE m == Max(mine)
    <2>3. m \in mine /\ \A y \in mine : m >= y BY <2>2
    <2>4. After(d, ops)[n] = ops[m].file BY <1>1, <1>4
    <2> HIDE DEF m
    <2>5. m \in 1 .. Len(ops) /\ ops[m].name = n BY <2>3, <1>2 DEF mine
    <2>6. \A j \in 1 .. Len(ops) : j > m => ops[j].name # n
      <3> SUFFICES ASSUME NEW j \in 1 .. Len(ops), j > m, ops[j].name = n PROVE FALSE
        OBVIOUS
      <3>1. j \in mine BY <1>2 DEF mine
      <3> QED BY <3>1, <2>3, <2>5
    <2> QED BY <2>4, <2>5, <2>6
  <1> QED BY <1>3, <1>4

\* What After makes is a directory.
LEMMA AfterIs ==
    ASSUME NEW d, NEW ops
    PROVE  After(d, ops) = [n \in Names |-> After(d, ops)[n]]
  BY DEF After

\* No operation, no change.
LEMMA AfterNone ==
    ASSUME NEW d, d = [n \in Names |-> d[n]]
    PROVE  After(d, << >>) = d
  <1>1. IsSeq(<< >>) BY DEF IsSeq
  <1>2. \A n \in Names : After(d, << >>)[n] = d[n] BY <1>1, AfterAt
  <1> QED BY <1>2, AfterIs

\* Operations after operations are one longer sequence of them.
LEMMA AfterConcat ==
    ASSUME NEW d, NEW s, NEW t, IsSeq(s), IsSeq(t)
    PROVE  After(After(d, s), t) = After(d, s \o t)
  <1> DEFINE u == s \o t
             e == After(d, s)
             x == After(e, t)
             y == After(d, u)
  <1>1. /\ IsSeq(u) /\ Len(u) = Len(s) + Len(t)
        /\ \A i \in 1 .. Len(s) : u[i] = s[i]
        /\ \A i \in 1 .. Len(t) : u[Len(s) + i] = t[i]
        /\ \A i \in 1 .. Len(u) : i > Len(s) => u[i] = t[i - Len(s)]
    BY SeqConcat
  <1>2. Len(s) \in Nat /\ Len(t) \in Nat BY SeqIs
  <1> HIDE DEF u
  <1>3. ASSUME NEW n \in Names PROVE x[n] = y[n]
    <2>1. \/ /\ \A i \in 1 .. Len(t) : t[i].name # n
             /\ x[n] = e[n]
          \/ \E i \in 1 .. Len(t) :
                 /\ t[i].name = n /\ x[n] = t[i].file
                 /\ \A j \in 1 .. Len(t) : j > i => t[j].name # n
      BY AfterAt
    <2>2. \/ /\ \A i \in 1 .. Len(s) : s[i].name # n
             /\ e[n] = d[n]
          \/ \E i \in 1 .. Len(s) :
                 /\ s[i].name = n /\ e[n] = s[i].file
                 /\ \A j \in 1 .. Len(s) : j > i => s[j].name # n
      BY AfterAt
    <2>3. \/ /\ \A i \in 1 .. Len(u) : u[i].name # n
             /\ y[n] = d[n]
          \/ \E i \in 1 .. Len(u) :
                 /\ u[i].name = n /\ y[n] = u[i].file
                 /\ \A j \in 1 .. Len(u) : j > i => u[j].name # n
      BY <1>1, AfterAt
    <2> HIDE DEF x, y, e
    <2>4. CASE \E i \in 1 .. Len(t) :
                 /\ t[i].name = n /\ x[n] = t[i].file
                 /\ \A j \in 1 .. Len(t) : j > i => t[j].name # n
      <3>1. PICK i \in 1 .. Len(t) :
                 /\ t[i].name = n /\ x[n] = t[i].file
                 /\ \A j \in 1 .. Len(t) : j > i => t[j].name # n
        BY <2>4
      <3>2. Len(s) + i \in 1 .. Len(u) /\ u[Len(s) + i].name = n BY <1>1, <1>2, <3>1
      <3>3. PICK k \in 1 .. Len(u) :
                 /\ u[k].name = n /\ y[n] = u[k].file
                 /\ \A j \in 1 .. Len(u) : j > k => u[j].name # n
        BY <2>3, <3>2
      <3>4. k >= Len(s) + i BY <3>2, <3>3, <1>2
      <3>5. u[k] = t[k - Len(s)] /\ k - Len(s) \in 1 .. Len(t) BY <3>4, <1>1, <1>2
      <3>6. k - Len(s) = i BY <3>1, <3>3, <3>4, <3>5, <1>2
      <3> QED BY <3>1, <3>3, <3>5, <3>6
    <2>5. CASE (\A i \in 1 .. Len(t) : t[i].name # n) /\ x[n] = e[n]
      <3>1. \A j \in 1 .. Len(u) : j > Len(s) => u[j].name # n
        <4> SUFFICES ASSUME NEW j \in 1 .. Len(u), j > Len(s) PROVE u[j].name # n OBVIOUS
        <4>1. u[j] = t[j - Len(s)] /\ j - Len(s) \in 1 .. Len(t) BY <1>1, <1>2
        <4> QED BY <4>1, <2>5
      <3>2. CASE (\A i \in 1 .. Len(s) : s[i].name # n) /\ e[n] = d[n]
        <4>1. \A j \in 1 .. Len(u) : u[j].name # n
          <5> SUFFICES ASSUME NEW j \in 1 .. Len(u) PROVE u[j].name # n OBVIOUS
          <5>1. CASE j > Len(s) BY <5>1, <3>1
          <5>2. CASE j <= Len(s)
            <6>1. j \in 1 .. Len(s) BY <5>2, <1>2
            <6> QED BY <6>1, <3>2, <1>1
          <5> QED BY <5>1, <5>2, <1>1, <1>2
        <4> QED BY <4>1, <2>3, <2>5, <3>2
      <3>3. CASE \E i \in 1 .. Len(s) :
                 /\ s[i].name = n /\ e[n] = s[i].file
                 /\ \A j \in 1 .. Len(s) : j > i => s[j].name # n
        <4>1. PICK i \in 1 .. Len(s) :
                 /\ s[i].name = n /\ e[n] = s[i].file
                 /\ \A j \in 1 .. Len(s) : j > i => s[j].name # n
          BY <3>3
        <4>2. i \in 1 .. Len(u) /\ u[i].name = n BY <4>1, <1>1, <1>2
        <4>3. PICK k \in 1 .. Len(u) :
                 /\ u[k].name = n /\ y[n] = u[k].file
                 /\ \A j \in 1 .. Len(u) : j > k => u[j].name # n
          BY <2>3, <4>2
        <4>4. k >= i BY <4>2, <4>3, <1>2
        <4>5. k <= Len(s) BY <4>3, <3>1, <1>1, <1>2
        <4>6. u[k] = s[k] /\ k \in 1 .. Len(s) BY <4>4, <4>5, <1>1, <1>2
        <4>7. k = i BY <4>1, <4>3, <4>4, <4>6, <1>2
        <4> QED BY <4>1, <4>3, <4>6, <4>7, <2>5
      <3> QED BY <3>2, <3>3, <2>2
    <2> QED BY <2>1, <2>4, <2>5
  <1>4. x = [n \in Names |-> x[n]] /\ y = [n \in Names |-> y[n]] BY AfterIs
  <1> HIDE DEF x, y
  <1>5. x = y BY <1>3, <1>4
  <1> QED BY <1>5 DEF x, y, e, u

\* The disks after further operations: those from before, and those that
\* keep some of the new ones.
LEMMA DisksAfterWrite ==
    ASSUME NEW d, NEW p, NEW o, IsSeq(p), IsSeq(o)
    PROVE  DisksOf(d, p \o o) =
             DisksOf(d, p) \cup { After(After(d, p), SubSeq(o, 1, j)) : j \in 1 .. Len(o) }
  <1> DEFINE u == p \o o
             v == After(d, p)
             New == { After(v, SubSeq(o, 1, j)) : j \in 1 .. Len(o) }
  <1>1. /\ IsSeq(u) /\ Len(u) = Len(p) + Len(o)
        /\ \A i \in 1 .. Len(p) : u[i] = p[i]
        /\ \A i \in 1 .. Len(o) : u[Len(p) + i] = o[i]
        /\ \A i \in 1 .. Len(u) : i > Len(p) => u[i] = o[i - Len(p)]
    BY SeqConcat
  <1>2. Len(p) \in Nat /\ Len(o) \in Nat BY SeqIs
  <1> HIDE DEF u
  <1>3. ASSUME NEW k \in 0 .. Len(p) PROVE SubSeq(u, 1, k) = SubSeq(p, 1, k)
    <2> DEFINE x == SubSeq(u, 1, k)
               y == SubSeq(p, 1, k)
    <2>0. k \in 0 .. Len(u) BY <1>1, <1>2
    <2>1. IsSeq(x) /\ Len(x) = k /\ \A i \in 1 .. k : x[i] = u[i] BY <2>0, <1>1, SeqPrefix
    <2>2. IsSeq(y) /\ Len(y) = k /\ \A i \in 1 .. k : y[i] = p[i] BY SeqPrefix
    <2> HIDE DEF x, y
    <2>3. \A i \in 1 .. k : x[i] = y[i] BY <2>1, <2>2, <1>1, <1>2
    <2>4. x = [i \in 1 .. Len(x) |-> x[i]] /\ y = [i \in 1 .. Len(y) |-> y[i]]
      BY <2>1, <2>2, SeqIs
    <2>5. x = y BY <2>1, <2>2, <2>3, <2>4
    <2> QED BY <2>5 DEF x, y
  <1>4. ASSUME NEW j \in 1 .. Len(o) PROVE SubSeq(u, 1, Len(p) + j) = p \o SubSeq(o, 1, j)
    <2> DEFINE k == Len(p) + j
               w == SubSeq(o, 1, j)
               x == SubSeq(u, 1, k)
               y == p \o w
    <2>0. k \in 0 .. Len(u) /\ j \in 0 .. Len(o) BY <1>1, <1>2
    <2>1. IsSeq(x) /\ Len(x) = k /\ \A i \in 1 .. k : x[i] = u[i] BY <2>0, <1>1, SeqPrefix
    <2>2. IsSeq(w) /\ Len(w) = j /\ \A i \in 1 .. j : w[i] = o[i] BY <2>0, SeqPrefix
    <2> HIDE DEF w
    <2>3. /\ IsSeq(y) /\ Len(y) = Len(p) + Len(w)
          /\ \A i \in 1 .. Len(p) : y[i] = p[i]
          /\ \A i \in 1 .. Len(y) : i > Len(p) => y[i] = w[i - Len(p)]
      BY <2>2, SeqConcat
    <2> HIDE DEF x, y
    <2>4. ASSUME NEW i \in 1 .. k PROVE x[i] = y[i]
      <3>1. CASE i <= Len(p) BY <3>1, <2>1, <2>3, <1>1, <1>2
      <3>2. CASE i > Len(p)
        <4>1. i - Len(p) \in 1 .. j BY <3>2, <1>2
        <4>2. y[i] = o[i - Len(p)] BY <4>1, <3>2, <2>2, <2>3
        <4>3. u[i] = o[i - Len(p)] BY <4>1, <3>2, <2>0, <1>1, <1>2
        <4> QED BY <4>2, <4>3, <2>1
      <3> QED BY <3>1, <3>2, <1>2
    <2>5. x = [i \in 1 .. Len(x) |-> x[i]] /\ y = [i \in 1 .. Len(y) |-> y[i]]
      BY <2>1, <2>3, SeqIs
    <2>6. x = y BY <2>1, <2>2, <2>3, <2>4, <2>5
    <2> QED BY <2>6 DEF x, y, k, w
  <1>5. ASSUME NEW j \in 1 .. Len(o)
        PROVE  After(d, SubSeq(u, 1, Len(p) + j)) = After(v, SubSeq(o, 1, j))
    <2>0. j \in 0 .. Len(o) BY <1>2
    <2>1. IsSeq(SubSeq(o, 1, j)) BY <2>0, SeqPrefix
    <2>2. After(v, SubSeq(o, 1, j)) = After(d, p \o SubSeq(o, 1, j)) BY <2>1, AfterConcat
    <2> QED BY <1>4, <2>2
  <1> HIDE DEF v
  <1>6. DisksOf(d, u) \subseteq DisksOf(d, p) \cup New
    <2> SUFFICES ASSUME NEW k \in 0 .. Len(u)
                 PROVE  After(d, SubSeq(u, 1, k)) \in DisksOf(d, p) \cup New
      BY DEF DisksOf
    <2>1. CASE k <= Len(p)
      <3>1. k \in 0 .. Len(p) BY <2>1, <1>1, <1>2
      <3> QED BY <3>1, <1>3 DEF DisksOf
    <2>2. CASE k > Len(p)
      <3> DEFINE j == k - Len(p)
      <3>1. j \in 1 .. Len(o) /\ k = Len(p) + j BY <2>2, <1>1, <1>2
      <3> HIDE DEF j
      <3> QED BY <3>1, <1>5
    <2> QED BY <2>1, <2>2, <1>1, <1>2
  <1>7. DisksOf(d, p) \subseteq DisksOf(d, u)
    <2> SUFFICES ASSUME NEW k \in 0 .. Len(p)
                 PROVE  After(d, SubSeq(p, 1, k)) \in DisksOf(d, u)
      BY DEF DisksOf
    <2>1. k \in 0 .. Len(u) BY <1>1, <1>2
    <2> QED BY <2>1, <1>3 DEF DisksOf
  <1>8. New \subseteq DisksOf(d, u)
    <2> SUFFICES ASSUME NEW j \in 1 .. Len(o)
                 PROVE  After(v, SubSeq(o, 1, j)) \in DisksOf(d, u)
      OBVIOUS
    <2>1. Len(p) + j \in 0 .. Len(u) BY <1>1, <1>2
    <2> QED BY <2>1, <1>5 DEF DisksOf
  <1>9. DisksOf(d, u) = DisksOf(d, p) \cup New BY <1>6, <1>7, <1>8
  <1> QED BY <1>9 DEF u, v

\* A synced directory is the only one that a crash may leave.
LEMMA DisksSynced ==
    ASSUME NEW d, d = [n \in Names |-> d[n]]
    PROVE  DisksOf(d, << >>) = {d}
  <1>1. SubSeq(<< >>, 1, 0) = << >> /\ Len(<< >>) = 0 OBVIOUS
  <1>2. After(d, << >>) = d BY AfterNone
  <1> DEFINE e == << >>
  <1>3. Len(e) = 0 /\ After(d, SubSeq(e, 1, 0)) = d BY <1>1, <1>2
  <1> HIDE DEF e
  <1>4. DisksOf(d, e) = {After(d, SubSeq(e, 1, k)) : k \in {0}}
    <2>1. 0 .. 0 = {0} OBVIOUS
    <2> QED BY <1>3, <2>1 DEF DisksOf
  <1>5. DisksOf(d, e) = {d} BY <1>3, <1>4
  <1> QED BY <1>5 DEF e

\* The directory as the process sees it is one that a crash may leave.
LEMMA DisksVisible ==
    ASSUME NEW d, NEW p, IsSeq(p)
    PROVE  After(d, p) \in DisksOf(d, p)
  <1>1. Len(p) \in 0 .. Len(p) BY SeqIs
  <1>2. IsSeq(SubSeq(p, 1, Len(p))) /\ Len(SubSeq(p, 1, Len(p))) = Len(p)
        /\ \A i \in 1 .. Len(p) : SubSeq(p, 1, Len(p))[i] = p[i]
    BY <1>1, SeqPrefix
  <1>3. SubSeq(p, 1, Len(p)) = [i \in 1 .. Len(p) |-> SubSeq(p, 1, Len(p))[i]]
    BY <1>2, SeqIs
  <1>4. p = [i \in 1 .. Len(p) |-> p[i]] BY SeqIs
  <1>5. SubSeq(p, 1, Len(p)) = p BY <1>2, <1>3, <1>4
  <1> QED BY <1>1, <1>5 DEF DisksOf

\* A configured zone has one namespace of three files.
LEMMA NamesAre ==
    ASSUME ~Member
    PROVE  /\ Names = {BaseName, JournalName, FreshName}
           /\ BaseName # JournalName /\ BaseName # FreshName /\ JournalName # FreshName
           /\ Tokens = {0} /\ Attempts = {1}
  <1>1. Identities = {} /\ Tokens = {0} /\ Attempts = {1} BY DEF Identities, Tokens, Attempts
  <1>2. {"base", "journal", "fresh"} \X {0} = {BaseName, JournalName, FreshName}
    BY DEF BaseName, JournalName, FreshName
  <1>3. {"token"} \X {} = {} OBVIOUS
  <1>4. Names = {BaseName, JournalName, FreshName} BY <1>1, <1>2, <1>3 DEF Names
  <1>5. BaseName # JournalName /\ BaseName # FreshName /\ JournalName # FreshName
    BY DEF BaseName, JournalName, FreshName
  <1> QED BY <1>1, <1>4, <1>5

\* The operation on a name is the operation Op makes.
LEMMA OpIs ==
    ASSUME NEW f
    PROVE  /\ Op("base", 0, f) = [name |-> BaseName, file |-> f]
           /\ Op("journal", 0, f) = [name |-> JournalName, file |-> f]
           /\ Op("fresh", 0, f) = [name |-> FreshName, file |-> f]
  BY DEF Op, BaseName, JournalName, FreshName

-----------------------------------------------------------------------------
(* What good files are good for.                                           *)

(* The parameters of goodness grow: contents k, serials s, times p.         *)
Grows(k, s, p, k2, s2, p2) ==
    /\ k \in Nat /\ k2 \in Nat /\ s \in Nat /\ s2 \in Nat /\ k <= k2 /\ s <= s2
    /\ \A c \in 1 .. k : p[c] \in Nat /\ p2[c] \in Nat /\ p[c] <= p2[c]

\* A good copy stays good.
LEMMA CopyGrows ==
    ASSUME NEW c, NEW k, NEW s, NEW p, NEW k2, NEW s2, NEW p2,
           Grows(k, s, p, k2, s2, p2), IsCopy(c, k, s)
    PROVE  IsCopy(c, k2, s2)
  BY DEF IsCopy, Grows

\* A good checkpoint stays good.
LEMMA BaseGrows ==
    ASSUME NEW f, NEW k, NEW s, NEW p, NEW k2, NEW s2, NEW p2,
           Grows(k, s, p, k2, s2, p2), IsBase(f, k, s, p)
    PROVE  IsBase(f, k2, s2, p2)
  <1>1. IsCopy(f.copy, k2, s2) BY CopyGrows DEF IsBase
  <1>2. f.copy.content \in 1 .. k BY DEF IsBase, IsCopy
  <1>3. f.time <= p2[f.copy.content] BY <1>2 DEF IsBase, Grows
  <1> QED BY <1>1, <1>3 DEF IsBase

\* The last entry of a journal is an entry.
LEMMA LastIs ==
    ASSUME NEW e \in Seq(Entry), 1 <= Len(e)
    PROVE  /\ LastOf(e) \in Entry /\ LastOf(e).time \in Nat
           /\ LastOf(e).new \in Nat /\ LastOf(e).to \in Nat
  <1>1. Len(e) \in 1 .. Len(e) OBVIOUS
  <1>2. e[Len(e)] \in Entry BY <1>1
  <1> QED BY <1>2 DEF LastOf, Entry

\* A good journal stays good.
LEMMA JournalGrows ==
    ASSUME NEW f, NEW k, NEW s, NEW p, NEW k2, NEW s2, NEW p2,
           Grows(k, s, p, k2, s2, p2), IsJournal(f, k, s, p)
    PROVE  IsJournal(f, k2, s2, p2)
  <1>1. IsCopy(EndOf(f.entries), k2, s2) BY CopyGrows DEF IsJournal
  <1>2. LastOf(f.entries).to \in 1 .. k BY DEF IsJournal, IsCopy, EndOf
  <1>3. LastOf(f.entries).time \in Nat BY LastIs DEF IsJournal
  <1>4. LastOf(f.entries).time <= p2[LastOf(f.entries).to] BY <1>2, <1>3 DEF IsJournal, Grows
  <1>5. IsBase(f.base, k2, s2, p2) BY BaseGrows DEF IsJournal
  <1> QED BY <1>1, <1>4, <1>5 DEF IsJournal

\* What a checkpoint or a journal stands for is a good copy, and the time it
\* was written is one at which a primary had vouched for it.
LEMMA SumIs ==
    ASSUME NEW f, NEW k, NEW s, NEW p, IsSum(f, k, s, p)
    PROVE  /\ f # NoFile /\ IsCopy(CopyIn(f), k, s) /\ CopyIn(f).content \in 1 .. k
           /\ TimeIn(f) \in Nat /\ TimeIn(f) <= p[CopyIn(f).content]
  <1>1. CASE IsBase(f, k, s, p) BY <1>1 DEF IsBase, CopyIn, TimeIn, NoFile, IsCopy
  <1>2. CASE IsJournal(f, k, s, p)
    <2>1. f.kind = "journal" /\ CopyIn(f) = EndOf(f.entries) BY <1>2 DEF IsJournal, CopyIn
    <2>2. LastOf(f.entries).time \in Nat BY <1>2, LastIs DEF IsJournal
    <2>3. EndOf(f.entries).content = LastOf(f.entries).to BY DEF EndOf
    <2>4. LastOf(f.entries).time <= p[LastOf(f.entries).to] /\ IsCopy(EndOf(f.entries), k, s)
      BY <1>2 DEF IsJournal
    <2>5. TimeIn(f) = LastOf(f.entries).time BY <2>1 DEF TimeIn
    <2>6. f # NoFile BY <2>1 DEF NoFile
    <2>7. EndOf(f.entries).content \in 1 .. k BY <2>4 DEF IsCopy
    <2> QED BY <2>1, <2>2, <2>3, <2>4, <2>5, <2>6, <2>7
  <1> QED BY <1>1, <1>2 DEF IsSum

\* A good freshness record stays good.
LEMMA FreshGrows ==
    ASSUME NEW f, NEW k, NEW s, NEW p, NEW k2, NEW s2, NEW p2,
           Grows(k, s, p, k2, s2, p2), IsFresh(f, k, s, p)
    PROVE  IsFresh(f, k2, s2, p2)
  <1>1. IsSum(f.sum, k, s, p) BY DEF IsFresh
  <1>2. IsSum(f.sum, k2, s2, p2) BY <1>1, BaseGrows, JournalGrows DEF IsSum
  <1>3. CopyIn(f.sum).content \in 1 .. k BY <1>1, SumIs
  <1>4. f.time <= p2[CopyIn(f.sum).content] BY <1>3 DEF IsFresh, Grows
  <1> QED BY <1>2, <1>4 DEF IsFresh

\* A good file stays good.
LEMMA FileGrows ==
    ASSUME NEW n, NEW f, NEW k, NEW s, NEW p, NEW k2, NEW s2, NEW p2,
           Grows(k, s, p, k2, s2, p2), IsFile(n, f, k, s, p)
    PROVE  IsFile(n, f, k2, s2, p2)
  BY BaseGrows, JournalGrows, FreshGrows DEF IsFile

\* A good directory stays good.
LEMMA DiskGrows ==
    ASSUME NEW d, NEW k, NEW s, NEW p, NEW k2, NEW s2, NEW p2,
           Grows(k, s, p, k2, s2, p2), IsDisk(d, k, s, p)
    PROVE  IsDisk(d, k2, s2, p2)
  <1>1. \A n \in Names : IsFile(n, d[n], k2, s2, p2) BY FileGrows DEF IsDisk
  <1> QED BY <1>1 DEF IsDisk

\* Good operations stay good.
LEMMA OpsGrow ==
    ASSUME NEW o, NEW k, NEW s, NEW p, NEW k2, NEW s2, NEW p2,
           Grows(k, s, p, k2, s2, p2), GoodOps(o, k, s, p)
    PROVE  GoodOps(o, k2, s2, p2)
  <1>1. \A i \in 1 .. Len(o) : IsFile(o[i].name, o[i].file, k2, s2, p2) BY FileGrows DEF GoodOps
  <1> QED BY <1>1 DEF GoodOps

\* Good operations keep a directory good.
LEMMA AfterGood ==
    ASSUME NEW d, NEW o, NEW k, NEW s, NEW p, IsDisk(d, k, s, p), GoodOps(o, k, s, p)
    PROVE  IsDisk(After(d, o), k, s, p)
  <1> SUFFICES ASSUME NEW n \in Names PROVE IsFile(n, After(d, o)[n], k, s, p)
    BY AfterIs DEF IsDisk
  <1>1. IsSeq(o) BY DEF GoodOps
  <1>2. \/ After(d, o)[n] = d[n]
        \/ \E i \in 1 .. Len(o) : o[i].name = n /\ After(d, o)[n] = o[i].file
    BY <1>1, AfterAt
  <1> QED BY <1>2 DEF GoodOps, IsDisk

\* More good operations.
LEMMA OpsConcat ==
    ASSUME NEW o, NEW q, NEW k, NEW s, NEW p, GoodOps(o, k, s, p), GoodOps(q, k, s, p)
    PROVE  GoodOps(o \o q, k, s, p)
  <1>1. IsSeq(o) /\ IsSeq(q) BY DEF GoodOps
  <1>2. /\ IsSeq(o \o q) /\ Len(o \o q) = Len(o) + Len(q)
        /\ \A i \in 1 .. Len(o) : (o \o q)[i] = o[i]
        /\ \A i \in 1 .. Len(o \o q) : i > Len(o) => (o \o q)[i] = q[i - Len(o)]
    BY <1>1, SeqConcat
  <1>3. Len(o) \in Nat /\ Len(q) \in Nat BY <1>1, SeqIs
  <1> SUFFICES ASSUME NEW i \in 1 .. Len(o \o q)
               PROVE  (o \o q)[i].name \in Names /\ IsFile((o \o q)[i].name, (o \o q)[i].file, k, s, p)
    BY <1>2 DEF GoodOps
  <1> DEFINE u == o \o q
  <1> HIDE DEF u
  <1>4. CASE i <= Len(o)
    <2>1. i \in 1 .. Len(o) /\ u[i] = o[i] BY <1>2, <1>3, <1>4 DEF u
    <2>2. o[i].name \in Names /\ IsFile(o[i].name, o[i].file, k, s, p) BY <2>1 DEF GoodOps
    <2>3. u[i].name \in Names /\ IsFile(u[i].name, u[i].file, k, s, p) BY <2>1, <2>2
    <2> QED BY <2>3 DEF u
  <1>5. CASE i > Len(o)
    <2> DEFINE j == i - Len(o)
    <2>1. j \in 1 .. Len(q) /\ u[i] = q[j] BY <1>2, <1>3, <1>5 DEF u
    <2> HIDE DEF j
    <2>2. q[j].name \in Names /\ IsFile(q[j].name, q[j].file, k, s, p) BY <2>1 DEF GoodOps
    <2>3. u[i].name \in Names /\ IsFile(u[i].name, u[i].file, k, s, p) BY <2>1, <2>2
    <2> QED BY <2>3 DEF u
  <1> QED BY <1>4, <1>5, <1>2, <1>3

\* Some of the good operations.
LEMMA OpsPrefix ==
    ASSUME NEW o, NEW k, NEW s, NEW p, GoodOps(o, k, s, p), NEW j \in 0 .. Len(o)
    PROVE  GoodOps(SubSeq(o, 1, j), k, s, p)
  <1> DEFINE q == SubSeq(o, 1, j)
  <1>1. IsSeq(o) BY DEF GoodOps
  <1>2. IsSeq(q) /\ Len(q) = j /\ \A i \in 1 .. j : q[i] = o[i] BY <1>1, SeqPrefix
  <1>3. Len(o) \in Nat BY <1>1, SeqIs
  <1> HIDE DEF q
  <1>4. \A i \in 1 .. Len(q) : i \in 1 .. Len(o) /\ q[i] = o[i] BY <1>2, <1>3
  <1>5. GoodOps(q, k, s, p) BY <1>2, <1>4 DEF GoodOps
  <1> QED BY <1>5 DEF q

\* No operation is good.
LEMMA OpsNone ==
    ASSUME NEW k, NEW s, NEW p
    PROVE  GoodOps(<< >>, k, s, p)
  BY DEF GoodOps, IsSeq

\* One good operation.
LEMMA OpsOne ==
    ASSUME NEW n \in Names, NEW f, NEW k, NEW s, NEW p, IsFile(n, f, k, s, p)
    PROVE  GoodOps(<<[name |-> n, file |-> f]>>, k, s, p)
  <1> DEFINE o == <<[name |-> n, file |-> f]>>
  <1>1. o \in Seq({[name |-> n, file |-> f]}) /\ Len(o) = 1 /\ o[1].name = n /\ o[1].file = f
    OBVIOUS
  <1> HIDE DEF o
  <1>2. \A i \in 1 .. Len(o) : i = 1 BY <1>1
  <1>3. GoodOps(o, k, s, p) BY <1>1, <1>2 DEF GoodOps, IsSeq
  <1> QED BY <1>3 DEF o

\* What a crash leaves of a good directory is good, in whatever order the
\* operations reach the disk.
LEMMA PossibleGood ==
    ASSUME NEW k, NEW s, NEW p, IsDisk(visible, k, s, p), IsDisk(durable, k, s, p),
           GoodOps(pending, k, s, p), NEW d \in PossibleDisks
    PROVE  IsDisk(d, k, s, p)
  <1>1. CASE Reorder
    <2>1. PICK kept : d = [n \in Names |-> IF n \in kept THEN visible[n] ELSE durable[n]]
      BY <1>1 DEF PossibleDisks
    <2>2. \A n \in Names : d[n] = visible[n] \/ d[n] = durable[n] BY <2>1
    <2>3. d = [n \in Names |-> d[n]] BY <2>1
    <2> QED BY <2>2, <2>3 DEF IsDisk
  <1>2. CASE ~Reorder
    <2>1. PICK j \in 0 .. Len(pending) : d = After(durable, SubSeq(pending, 1, j))
      BY <1>2 DEF PossibleDisks, PrefixOf
    <2>2. GoodOps(SubSeq(pending, 1, j), k, s, p) BY OpsPrefix
    <2> QED BY <2>1, <2>2, AfterGood
  <1> QED BY <1>1, <1>2

\* Without reordering, the possible directories are those of DisksOf.
LEMMA PossibleAre ==
    ASSUME ~Reorder
    PROVE  PossibleDisks = DisksOf(durable, pending)
  BY DEF PossibleDisks, PrefixOf, DisksOf

\* What the files of a good directory are.
LEMMA DiskFiles ==
    ASSUME ~Member, NEW d, NEW k, NEW s, NEW p, IsDisk(d, k, s, p)
    PROVE  /\ d[BaseName] = NoFile \/ IsBase(d[BaseName], k, s, p)
           /\ d[JournalName] = NoFile \/ IsJournal(d[JournalName], k, s, p)
           /\ d[FreshName] = NoFile \/ IsFresh(d[FreshName], k, s, p)
  <1>1. BaseName \in Names /\ JournalName \in Names /\ FreshName \in Names
    BY NamesAre
  <1>2. /\ IsFile(BaseName, d[BaseName], k, s, p)
        /\ IsFile(JournalName, d[JournalName], k, s, p)
        /\ IsFile(FreshName, d[FreshName], k, s, p)
    BY <1>1 DEF IsDisk
  <1> QED BY <1>2, NamesAre DEF IsFile

\* The active file of a directory with a checkpoint.
LEMMA ActiveIs ==
    ASSUME ~Member, NEW d, NEW k, NEW s, NEW p, IsDisk(d, k, s, p), d[BaseName] # NoFile
    PROVE  /\ IsSum(Active(d), k, s, p) /\ IsCopy(CopyOn(d), k, s)
           /\ CopyOn(d) = CopyIn(Active(d)) /\ CopyOn(d).content \in 1 .. k
           /\ TimeIn(Active(d)) \in Nat
           /\ TimeIn(Active(d)) <= p[CopyOn(d).content]
  <1>1. JournalBound(d, 0) => d[JournalName] # NoFile BY DEF JournalBound, JournalName
  <1>2. IsSum(Active(d), k, s, p) BY <1>1, DiskFiles DEF Active, IsSum
  <1>3. CopyOn(d) = CopyIn(Active(d)) BY DEF CopyOn
  <1> QED BY <1>2, <1>3, SumIs

\* The entries of a good journal, applied to their checkpoint, lead to its
\* last copy.
LEMMA AppliedIs ==
    ASSUME NEW f, NEW k, NEW s, NEW p, IsJournal(f, k, s, p)
    PROVE  /\ f.entries # << >> /\ Applied(f.base.copy, f.entries) = EndOf(f.entries)
           /\ f.base.copy.serial = f.serial
           /\ ~\E i \in DOMAIN f.entries :
                  f.entries[i].old # IF i = 1 THEN f.serial ELSE f.entries[i - 1].new
  <1> DEFINE e == f.entries
             c == f.base.copy
  <1>1. e \in Seq(Entry) /\ 1 <= Len(e) /\ Chained(e, c) /\ f.serial = c.serial BY DEF IsJournal
  <1> HIDE DEF e, c
  <1>2. e # << >> /\ DOMAIN e = 1 .. Len(e) BY <1>1
  <1>3. \A i \in DOMAIN e : e[i].from = IF i = 1 THEN c.content ELSE e[i - 1].to
    BY <1>1, <1>2 DEF Chained
  <1>4. \A i \in DOMAIN e : e[i].old = IF i = 1 THEN c.serial ELSE e[i - 1].new
    BY <1>1, <1>2 DEF Chained
  <1>5. Applied(c, e) = EndOf(e) BY <1>2, <1>3 DEF Applied, EndOf, LastOf
  <1>6. ~\E i \in DOMAIN e : e[i].old # IF i = 1 THEN f.serial ELSE e[i - 1].new
    BY <1>1, <1>4
  <1> QED BY <1>1, <1>2, <1>5, <1>6 DEF e, c

(* The time of a restored copy: when it was written, or renewed since.      *)
TimeOn(d) == Max2(TimeIn(Active(d)), FreshTime(d, 0, CopyOn(d).serial, Active(d)))

\* restore accepts a good directory and returns the copy of its active file.
LEMMA RestoreIs ==
    ASSUME ~Member, NEW d, NEW k, NEW s, NEW p, IsDisk(d, k, s, p)
    PROVE  /\ d[BaseName] = NoFile => Restore(d, 0) = NothingRestored
           /\ d[BaseName] # NoFile =>
                Restore(d, 0) = [ok |-> TRUE, copy |-> CopyOn(d), time |-> TimeOn(d)]
  <1> DEFINE b == d[<<"base", 0>>]
             j == d[<<"journal", 0>>]
             entries == IF JournalBound(d, 0) THEN j.entries ELSE << >>
             broken ==
               /\ JournalBound(d, 0)
               /\ \/ b.copy.serial # j.serial
                  \/ \E i \in DOMAIN entries :
                       entries[i].old # IF i = 1 THEN j.serial ELSE entries[i - 1].new
             copy == Applied(b.copy, entries)
             written == IF entries = << >> THEN b.time ELSE entries[Len(entries)].time
             sum == IF JournalBound(d, 0) THEN j ELSE b
             found == [ok |-> TRUE, copy |-> copy,
                       time |-> Max2(written, FreshTime(d, 0, copy.serial, sum))]
  <1>1. Restore(d, 0) = CASE b = NoFile -> NothingRestored
                          [] b # NoFile /\ broken -> RestoreRejected
                          [] OTHER -> found
    BY DEF Restore
  <1>2. b = d[BaseName] /\ j = d[JournalName] BY DEF BaseName, JournalName
  <1>3. CASE b = NoFile BY <1>1, <1>2, <1>3
  <1>4. CASE b # NoFile
    <2>1. sum = Active(d) BY <1>2 DEF Active
    <2>2. ~broken /\ copy = CopyOn(d) /\ written = TimeIn(Active(d))
      <3>1. CASE JournalBound(d, 0)
        <4>1. j # NoFile /\ j.base = b BY <3>1 DEF JournalBound
        <4>2. IsJournal(j, k, s, p) BY <1>2, <4>1, DiskFiles
        <4>3. entries = j.entries BY <3>1
        <4>4. /\ j.entries # << >> /\ Applied(j.base.copy, j.entries) = EndOf(j.entries)
              /\ j.base.copy.serial = j.serial
              /\ ~\E i \in DOMAIN j.entries :
                    j.entries[i].old # IF i = 1 THEN j.serial ELSE j.entries[i - 1].new
          BY <4>2, AppliedIs
        <4>5. ~broken BY <4>1, <4>3, <4>4
        <4>6. Active(d) = j BY <3>1, <1>2 DEF Active
        <4>7. j.kind = "journal" BY <4>2 DEF IsJournal
        <4>8. CopyIn(j) = EndOf(j.entries) /\ TimeIn(j) = LastOf(j.entries).time
          BY <4>7 DEF CopyIn, TimeIn
        <4> HIDE DEF b, j, entries, broken
        <4>9. copy = CopyOn(d) BY <4>1, <4>3, <4>4, <4>6, <4>8, <1>2, <1>4 DEF CopyOn
        <4>10. written = TimeIn(Active(d)) BY <4>3, <4>4, <4>6, <4>8 DEF LastOf
        <4> QED BY <4>5, <4>9, <4>10
      <3>2. CASE ~JournalBound(d, 0)
        <4>1. IsBase(b, k, s, p) BY <1>2, <1>4, DiskFiles
        <4>2. entries = << >> /\ ~broken BY <3>2
        <4>3. Active(d) = b BY <3>2, <1>2 DEF Active
        <4>4. CopyIn(b) = b.copy /\ TimeIn(b) = b.time BY <4>1 DEF CopyIn, TimeIn, IsBase
        <4>5. copy = b.copy BY <4>2 DEF Applied
        <4>6. CopyOn(d) = CopyIn(b) BY <4>3, <1>2, <1>4 DEF CopyOn
        <4>7. written = b.time BY <4>2
        <4> QED BY <4>2, <4>3, <4>4, <4>5, <4>6, <4>7
      <3> QED BY <3>1, <3>2
    <2>3. found = [ok |-> TRUE, copy |-> CopyOn(d), time |-> TimeOn(d)]
      BY <2>1, <2>2 DEF TimeOn
    <2> HIDE DEF b, broken, found
    <2>4. Restore(d, 0) = found BY <1>1, <1>4, <2>2
    <2> QED BY <1>2, <1>4, <2>3, <2>4
  <1> QED BY <1>3, <1>4

\* The copy that restore returns, and its age.
LEMMA RestoredCopy ==
    ASSUME ~Member, NEW d, NEW k \in Nat, NEW s, NEW p, IsDisk(d, k, s, p),
           \A c \in 1 .. k : p[c] \in Nat
    PROVE  /\ Restore(d, 0).copy = CopyOn(d) /\ Restore(d, 0).ok
           /\ d[BaseName] # NoFile =>
                 /\ TimeOn(d) \in Nat /\ TimeOn(d) <= p[CopyOn(d).content]
                 /\ TimeOn(d) >= FreshTime(d, 0, CopyOn(d).serial, Active(d))
                 /\ Restore(d, 0).time = TimeOn(d)
           /\ d[BaseName] = NoFile => CopyOn(d) = NoCopy /\ Restore(d, 0).time = 0
  <1>1. CASE d[BaseName] = NoFile BY <1>1, RestoreIs DEF NothingRestored, CopyOn
  <1>2. CASE d[BaseName] # NoFile
    <2>1. Restore(d, 0) = [ok |-> TRUE, copy |-> CopyOn(d), time |-> TimeOn(d)]
      BY <1>2, RestoreIs
    <2>2. /\ IsSum(Active(d), k, s, p) /\ IsCopy(CopyOn(d), k, s)
          /\ CopyOn(d) = CopyIn(Active(d)) /\ CopyOn(d).content \in 1 .. k
          /\ TimeIn(Active(d)) \in Nat
          /\ TimeIn(Active(d)) <= p[CopyOn(d).content]
      BY <1>2, ActiveIs
    <2> DEFINE f == d[FreshName]
               t == FreshTime(d, 0, CopyOn(d).serial, Active(d))
    <2>3. t = IF f # NoFile /\ f.serial = CopyOn(d).serial /\ f.sum = Active(d) THEN f.time ELSE 0
      BY DEF FreshTime, FreshName
    <2>4. f = NoFile \/ IsFresh(f, k, s, p) BY DiskFiles
    <2>5. f # NoFile /\ f.sum = Active(d) => f.time \in Nat /\ f.time <= p[CopyOn(d).content]
      BY <2>2, <2>4 DEF IsFresh
    <2>6. p[CopyOn(d).content] \in Nat BY <2>2
    <2>7. t \in Nat /\ t <= p[CopyOn(d).content] BY <2>3, <2>5, <2>6
    <2> HIDE DEF t
    <2>8. TimeOn(d) = Max2(TimeIn(Active(d)), t) BY DEF TimeOn, t
    <2>9. TimeOn(d) \in Nat /\ TimeOn(d) <= p[CopyOn(d).content] /\ TimeOn(d) >= t
      BY <2>2, <2>6, <2>7, <2>8 DEF Max2
    <2> QED BY <1>2, <2>1, <2>9 DEF t
  <1> QED BY <1>1, <1>2

\* The active file does not depend on the freshness record.
LEMMA CopyKept ==
    ASSUME NEW d, NEW e, e[BaseName] = d[BaseName], e[JournalName] = d[JournalName]
    PROVE  Active(e) = Active(d) /\ CopyOn(e) = CopyOn(d)
  <1>1. JournalBound(e, 0) <=> JournalBound(d, 0) BY DEF JournalBound, BaseName, JournalName
  <1>2. Active(e) = Active(d) BY <1>1 DEF Active
  <1> QED BY <1>2 DEF CopyOn

-----------------------------------------------------------------------------
(* The invariant of a configured zone.                                      *)

\* The contents that may be on disk have been handed out.
LEMMA SettledIs ==
    ASSUME Parameters, Inv
    PROVE  /\ Settled \in Nat /\ Settled <= minted.content /\ Settled <= MaxContents
           /\ minted.content \in Nat /\ MaxContents \in Nat /\ minted.serial \in Nat
           /\ att[1].pc # "staged" => Settled = minted.content
           /\ att[1].pc = "staged" => Settled = minted.content - 1
  <1>1. minted.content \in 0 .. MaxContents /\ minted.serial \in Nat BY DEF Inv, Plain
  <1>2. att[1].pc = "staged" => minted.content \in Nat \ {0} BY DEF Inv, Attempt, StagedOK
  <1>3. MaxContents \in Nat BY DEF Parameters
  <1> QED BY <1>1, <1>2, <1>3 DEF Settled

\* The served copy is a good one, when there is one.
LEMMA ServedIs ==
    ASSUME ~Member, Inv
    PROVE  \/ mem.copy = NoCopy /\ visible[BaseName] = NoFile
           \/ /\ visible[BaseName] # NoFile /\ mem.copy # NoCopy
              /\ IsCopy(mem.copy, Settled, minted.serial)
  <1>1. mem.copy = CopyOn(visible) /\ IsDisk(visible, Settled, minted.serial, proof)
    BY DEF Inv, Memory, Files
  <1>2. CASE visible[BaseName] = NoFile BY <1>1, <1>2 DEF CopyOn
  <1>3. CASE visible[BaseName] # NoFile
    <2>1. IsCopy(mem.copy, Settled, minted.serial) BY <1>1, <1>3, ActiveIs
    <2>2. mem.copy # NoCopy BY <2>1 DEF IsCopy, NoCopy
    <2> QED BY <1>3, <2>1, <2>2
  <1> QED BY <1>2, <1>3

\* The times of the contents that may be on disk.
LEMMA ProofIs ==
    ASSUME Parameters, Inv
    PROVE  \A c \in 1 .. Settled : c \in Contents /\ proof[c] \in Nat
  <1>1. Settled \in Nat /\ Settled <= MaxContents /\ MaxContents \in Nat BY SettledIs
  <1>2. \A c \in 1 .. Settled : c \in Contents BY <1>1 DEF Contents
  <1> QED BY <1>2 DEF Inv, History

\* Files that nobody touches stay good.
LEMMA FilesKept ==
    ASSUME Files, UNCHANGED <<visible, durable, pending>>,
           Grows(Settled, minted.serial, proof, Settled', minted.serial', proof')
    PROVE  Files'
  <1> DEFINE k == Settled
             k2 == Settled'
  <1>1. /\ IsDisk(visible, k, minted.serial, proof) /\ IsDisk(durable, k, minted.serial, proof)
        /\ GoodOps(pending, k, minted.serial, proof) /\ visible = After(durable, pending)
    BY DEF Files
  <1>2. Grows(k, minted.serial, proof, k2, minted.serial', proof') OBVIOUS
  <1> HIDE DEF k, k2
  <1>3. /\ IsDisk(visible, k2, minted.serial', proof') /\ IsDisk(durable, k2, minted.serial', proof')
        /\ GoodOps(pending, k2, minted.serial', proof')
    BY <1>1, <1>2, DiskGrows, OpsGrow
  <1>4. visible' = After(durable', pending') BY <1>1
  <1> QED BY <1>3, <1>4 DEF Files, k2

\* Growth when nothing but the staging is over.
LEMMA GrowsKept ==
    ASSUME Parameters, Inv, UNCHANGED <<minted, proof>>, att'[1].pc # "staged" \/ att'[1].pc = att[1].pc
    PROVE  /\ Settled' \in Nat /\ Settled <= Settled'
           /\ Grows(Settled, minted.serial, proof, Settled', minted.serial', proof')
  <1>1. /\ Settled \in Nat /\ Settled <= minted.content /\ minted.content \in Nat
        /\ minted.serial \in Nat
        /\ att[1].pc # "staged" => Settled = minted.content
        /\ att[1].pc = "staged" => Settled = minted.content - 1
    BY SettledIs
  <1>2. Settled' = IF att'[1].pc = "staged" THEN minted'.content - 1 ELSE minted'.content
    BY DEF Settled
  <1>3. Settled' \in Nat /\ Settled <= Settled' BY <1>1, <1>2
  <1>4. \A c \in 1 .. Settled : proof[c] \in Nat /\ proof'[c] = proof[c] BY ProofIs
  <1> QED BY <1>1, <1>3, <1>4 DEF Grows

\* The histories, when neither a statement nor an acknowledgement is added.
LEMMA HistoryKept ==
    ASSUME Parameters, Inv, UNCHANGED <<proof, acked>>, Settled' \in Nat, Settled <= Settled',
           now' \in Nat, now <= now'
    PROVE  History'
  <1>1. Settled \in Nat /\ now \in Nat BY SettledIs DEF Inv, Plain
  <1>2. /\ proof \in [Contents -> Nat] /\ acked \in [Contents -> Nat]
        /\ \A c \in Contents :
          /\ proof[c] <= now /\ acked[c] <= proof[c]
          /\ acked[c] > 0 => c <= Settled
    BY DEF Inv, History
  <1>3. \A c \in Contents : c \in Nat /\ proof[c] \in Nat BY <1>2 DEF Contents
  <1> DEFINE k == Settled
             k2 == Settled'
  <1>4. \A c \in Contents : proof[c] <= now' /\ (acked[c] > 0 => c <= k2)
    <2> HIDE DEF k2
    <2> QED BY <1>1, <1>2, <1>3 DEF k2
  <1> QED BY <1>2, <1>4 DEF History

\* The initial state has the invariant.
LEMMA InitInv ==
    ASSUME Parameters, ~Member, Init
    PROVE  Inv
  <1>1. now = 1 /\ crashes = 0 /\ pending = << >> /\ mem = [copy |-> NoCopy, expired |-> FALSE]
        /\ minted = [content |-> 0, token |-> 0, gen |-> 0, serial |-> 1]
        /\ plan = [NoPlan EXCEPT !.listed = TRUE]
        /\ visible = [n \in Names |-> NoFile] /\ durable = visible
        /\ proof = [c \in Contents |-> 0] /\ acked = [c \in Contents |-> 0]
    BY DEF Init
  <1>2. att = [a \in {1} |-> Idle] BY NamesAre DEF Init
  <1>3. att[1] = Idle /\ Idle.pc = "idle" BY <1>2 DEF Idle
  <1>4. Settled = 0 BY <1>1, <1>3 DEF Settled
  <1>5. Plain
    <2>1. cat.pc = "idle" BY DEF Init
    <2>2. DOMAIN past = {"owner", "life", "ended"} /\ past.life = {} /\ past.ended = {}
      BY DEF Init
    <2>3. 1 \in 1 .. Max2(1, MaxTime) BY DEF Max2, Parameters
    <2>4. plan.listed /\ plan.token = 0 /\ plan.gen = 0 BY <1>1 DEF NoPlan
    <2>5. /\ DOMAIN minted = {"content", "token", "gen", "serial"} /\ minted.token = 0
          /\ minted.content \in 0 .. MaxContents /\ minted.serial \in Nat \ {0}
          /\ minted.serial <= minted.content + 1
      BY <1>1 DEF Parameters
    <2>6. now \in Nat /\ now \in 1 .. Max2(1, MaxTime) /\ crashes \in 0 .. MaxCrashes
      BY <1>1, <2>3 DEF Parameters
    <2> QED BY <2>1, <2>2, <2>4, <2>5, <2>6 DEF Plain
  <1>6. History BY <1>1, <1>4 DEF History
  <1>7. IsDisk(visible, 0, 1, proof) BY <1>1 DEF IsDisk, IsFile
  <1>8. Files
    <2>1. GoodOps(pending, 0, 1, proof) BY <1>1, OpsNone
    <2>2. After(durable, pending) = visible BY <1>1, AfterNone
    <2> QED BY <1>1, <1>4, <1>7, <2>1, <2>2 DEF Files
  <1>9. Memory
    <2>1. visible[BaseName] = NoFile BY <1>1, NamesAre
    <2> QED BY <1>1, <2>1 DEF Memory, CopyOn
  <1>10. Attempt(att[1])
    <2>1. DOMAIN Idle = Fields /\ Idle.gen = 0 /\ Idle.token = 0 /\ Idle.copy = NoCopy
      BY DEF Idle, Fields
    <2> QED BY <1>3, <2>1 DEF Attempt
  <1> QED BY <1>2, <1>3, <1>5, <1>6, <1>8, <1>9, <1>10 DEF Inv

\* Time passes.
LEMMA TickInv ==
    ASSUME Parameters, ~Member, Inv, Tick
    PROVE  Inv'
  <1>1. UNCHANGED <<visible, durable, pending, mem, plan, att, cat, minted, proof, acked, past, crashes>>
        /\ now < MaxTime /\ now' = now + 1
    BY DEF Tick
  <1>2. now \in Nat /\ now \in 1 .. Max2(1, MaxTime) BY DEF Inv, Plain
  <1>3. /\ Settled' \in Nat /\ Settled <= Settled'
        /\ Grows(Settled, minted.serial, proof, Settled', minted.serial', proof')
    BY <1>1, GrowsKept
  <1>4. Files' BY <1>1, <1>3, FilesKept DEF Inv
  <1>5. History' BY <1>1, <1>2, <1>3, HistoryKept
  <1>6. now' \in Nat /\ now' \in 1 .. Max2(1, MaxTime)
    BY <1>1, <1>2 DEF Max2, Parameters
  <1>7. Plain' BY <1>1, <1>6 DEF Inv, Plain
  <1>8. Memory' BY <1>1 DEF Inv, Memory
  <1>9. Attempt(att[1])' BY <1>1 DEF Inv, Attempt, StagedOK
  <1>10. att' = [x \in {1} |-> att'[1]] BY <1>1 DEF Inv
  <1> QED BY <1>4, <1>5, <1>7, <1>8, <1>9, <1>10 DEF Inv

(* What the simple steps of the attempt leave alone.                        *)
Frame == UNCHANGED <<now, visible, durable, pending, plan, cat, minted, past, crashes>>

\* A step of the attempt that leaves the disk and the served copy alone.
LEMMA AttemptStep ==
    ASSUME Parameters, Inv, Frame, UNCHANGED <<proof, acked, mem>>,
           att' = [x \in {1} |-> att'[1]], Attempt(att[1])', att'[1].pc # "staged"
    PROVE  Inv'
  <1>1. /\ Settled' \in Nat /\ Settled <= Settled'
        /\ Grows(Settled, minted.serial, proof, Settled', minted.serial', proof')
    BY GrowsKept DEF Frame
  <1>2. Files' BY <1>1, FilesKept DEF Inv, Frame
  <1>3. now \in Nat BY DEF Inv, Plain
  <1>4. now' = now /\ now' \in Nat /\ now <= now' BY <1>3 DEF Frame
  <1>5. History' BY <1>1, <1>4, HistoryKept
  <1>7. Plain' BY DEF Inv, Plain, Frame
  <1>8. Memory' BY DEF Inv, Memory, Frame
  <1> QED BY <1>2, <1>5, <1>7, <1>8 DEF Inv

\* The attempt's record.
LEMMA AttIs ==
    ASSUME Inv
    PROVE  /\ att = [x \in {1} |-> att[1]] /\ DOMAIN att[1] = Fields
           /\ att[1].token = 0 /\ att[1].gen = 0
           /\ att[1].copy = NoCopy \/ IsCopy(att[1].copy, minted.content, minted.serial)
           /\ plan.listed /\ plan.gen = 0 /\ plan.token = 0
  BY DEF Inv, Attempt, Plain

\* The attempt ends.
LEMMA EndStep ==
    ASSUME Parameters, Inv, Frame, UNCHANGED <<proof, acked, mem>>, att' = [att EXCEPT ![1] = Idle]
    PROVE  Inv'
  <1>1. att' = [x \in {1} |-> Idle] BY AttIs
  <1>2. att'[1] = Idle BY <1>1
  <1>3. att' = [x \in {1} |-> att'[1]] BY <1>1, <1>2
  <1>4. DOMAIN Idle = Fields /\ Idle.gen = 0 /\ Idle.token = 0 /\ Idle.copy = NoCopy /\ Idle.pc = "idle"
    BY DEF Idle, Fields
  <1>5. Attempt(att[1])' BY <1>2, <1>4 DEF Attempt
  <1> QED BY <1>2, <1>3, <1>4, <1>5, AttemptStep

\* An attempt begins.
LEMMA BeginInv ==
    ASSUME Parameters, ~Member, Inv, Begin(1)
    PROVE  Inv'
  <1>1. Frame /\ UNCHANGED <<proof, acked, mem>> BY DEF Begin, Frame
  <1>2. plan.gen = 0 /\ plan.token = 0 BY AttIs
  <1> DEFINE r == [Idle EXCEPT !.pc = "begun", !.gen = plan.gen, !.token = plan.token, !.base = mem.copy]
  <1>3. att' = [att EXCEPT ![1] = r] BY DEF Begin
  <1>4. /\ DOMAIN r = Fields /\ r.pc = "begun" /\ r.gen = 0 /\ r.token = 0 /\ r.base = mem.copy
        /\ r.copy = NoCopy
    BY <1>2 DEF Idle, Fields
  <1> HIDE DEF r
  <1>5. att' = [x \in {1} |-> r] BY <1>3, AttIs
  <1>6. att'[1] = r BY <1>5
  <1>7. att' = [x \in {1} |-> att'[1]] BY <1>5, <1>6
  <1>9. Attempt(att[1])' BY <1>1, <1>4, <1>6 DEF Attempt
  <1>10. att'[1].pc # "staged" BY <1>4, <1>6
  <1> QED BY <1>1, <1>7, <1>9, <1>10, AttemptStep

\* A chain with one more entry that starts where it ends.
LEMMA ChainAppend ==
    ASSUME NEW e \in Seq(Entry), NEW x \in Entry, NEW c, Chained(e, c),
           x.old = (IF e = << >> THEN c.serial ELSE LastOf(e).new),
           x.from = (IF e = << >> THEN c.content ELSE LastOf(e).to)
    PROVE  /\ Append(e, x) \in Seq(Entry) /\ Len(Append(e, x)) = Len(e) + 1
           /\ LastOf(Append(e, x)) = x /\ Chained(Append(e, x), c)
  <1> DEFINE y == Append(e, x)
  <1>1. /\ y \in Seq(Entry) /\ Len(y) = Len(e) + 1 /\ y[Len(e) + 1] = x
        /\ \A i \in 1 .. Len(e) : y[i] = e[i]
    OBVIOUS
  <1>2. Len(e) \in Nat /\ (e = << >> <=> Len(e) = 0) OBVIOUS
  <1> HIDE DEF y
  <1>3. LastOf(y) = x BY <1>1 DEF LastOf
  <1>4. ASSUME NEW i \in 1 .. Len(y)
        PROVE  /\ y[i].old = IF i = 1 THEN c.serial ELSE y[i - 1].new
               /\ y[i].from = IF i = 1 THEN c.content ELSE y[i - 1].to
    <2>1. CASE i <= Len(e)
      <3>1. i \in 1 .. Len(e) BY <2>1, <1>1, <1>2
      <3>2. i # 1 => i - 1 \in 1 .. Len(e) BY <3>1
      <3> QED BY <3>1, <3>2, <1>1 DEF Chained
    <2>2. CASE i = Len(e) + 1
      <3>1. y[i] = x BY <2>2, <1>1
      <3>2. CASE i = 1 BY <3>1, <3>2, <2>2, <1>2
      <3>3. CASE i # 1
        <4>1. i - 1 = Len(e) /\ Len(e) \in 1 .. Len(e) /\ e # << >> BY <3>3, <2>2, <1>2
        <4>2. y[i - 1] = LastOf(e) BY <4>1, <1>1 DEF LastOf
        <4> QED BY <3>1, <3>3, <4>1, <4>2
      <3> QED BY <3>2, <3>3
    <2> QED BY <2>1, <2>2, <1>1, <1>2
  <1>5. Chained(y, c) BY <1>4 DEF Chained
  <1> QED BY <1>1, <1>3, <1>5 DEF y

\* stage_incremental makes a good journal of the checkpoint on disk.
LEMMA JournalMade ==
    ASSUME Parameters, ~Member, NEW k, NEW s, NEW p, NEW k2, NEW s2, NEW p2,
           Grows(k, s, p, k2, s2, p2), IsDisk(visible, k, s, p),
           NEW base, base = CopyOn(visible), JournalExtends(0, base),
           NEW copy, IsCopy(copy, k2, s2), now \in Nat, now <= p2[copy.content],
           NEW f, f = JournalWith(0, base, copy)
    PROVE  IsJournal(f, k2, s2, p2) /\ f.base = visible[BaseName] /\ EndOf(f.entries) = copy
  <1> DEFINE b == visible[BaseName]
             j == visible[JournalName]
             x == [old |-> base.serial, new |-> copy.serial,
                   from |-> base.content, to |-> copy.content, time |-> now]
             e == IF j = NoFile THEN << >> ELSE j.entries
             g == IF j = NoFile THEN base.serial ELSE j.serial
  <1>1. f = [kind |-> "journal", base |-> b, serial |-> g, entries |-> Append(e, x)]
    BY DEF JournalWith, BaseName, JournalName
  <1>2. /\ b # NoFile /\ MaxEntries > 0
        /\ j # NoFile => /\ j.base = b /\ Len(j.entries) < MaxEntries
                         /\ base.serial = IF j.entries = << >> THEN j.serial ELSE LastOf(j.entries).new
    BY DEF JournalExtends, BaseName, JournalName, LastOf
  <1>3. IsBase(b, k, s, p) /\ (j = NoFile \/ IsJournal(j, k, s, p)) BY <1>2, DiskFiles
  <1>4. JournalBound(visible, 0) <=> j # NoFile
    BY <1>2 DEF JournalBound, BaseName, JournalName
  <1>5. IsCopy(base, k, s) BY <1>2, ActiveIs
  <1>6. base.serial \in Nat /\ base.content \in Nat BY <1>5 DEF IsCopy, Grows
  <1>7. x \in Entry BY <1>6 DEF Entry, IsCopy, Grows
  <1>8. x.old = base.serial /\ x.new = copy.serial /\ x.from = base.content /\ x.to = copy.content
        /\ x.time = now
    OBVIOUS
  <1> HIDE DEF x
  <1>9. /\ e \in Seq(Entry) /\ Len(e) < MaxEntries /\ Chained(e, b.copy) /\ g = b.copy.serial
        /\ x.old = (IF e = << >> THEN b.copy.serial ELSE LastOf(e).new)
        /\ x.from = (IF e = << >> THEN b.copy.content ELSE LastOf(e).to)
    <2>1. CASE j = NoFile
      <3>1. Active(visible) = b BY <1>4, <2>1 DEF Active
      <3>2. base = b.copy BY <3>1, <1>2, <1>3 DEF CopyOn, CopyIn, IsBase
      <3>3. e = << >> /\ g = base.serial BY <2>1
      <3>4. Chained(<< >>, b.copy) BY DEF Chained
      <3> HIDE DEF e, g, b
      <3> QED BY <3>2, <3>3, <3>4, <1>2, <1>8
    <2>2. CASE j # NoFile
      <3>1. IsJournal(j, k, s, p) /\ j.base = b BY <2>2, <1>2, <1>3
      <3>2. Active(visible) = j BY <1>4, <2>2 DEF Active
      <3>3. base = EndOf(j.entries) BY <3>1, <3>2, <1>2 DEF CopyOn, CopyIn, IsJournal
      <3>4. base.serial = LastOf(j.entries).new /\ base.content = LastOf(j.entries).to
        BY <3>3 DEF EndOf
      <3>5. e = j.entries /\ g = j.serial BY <2>2
      <3>6. /\ j.entries \in Seq(Entry) /\ Chained(j.entries, b.copy) /\ j.serial = b.copy.serial
            /\ 1 <= Len(j.entries)
        BY <3>1 DEF IsJournal
      <3>7. j.entries # << >> BY <3>6
      <3> HIDE DEF e, g, b, j
      <3> QED BY <3>4, <3>5, <3>6, <3>7, <2>2, <1>2, <1>8
    <2> QED BY <2>1, <2>2
  <1> DEFINE y == Append(e, x)
  <1> HIDE DEF e, g, b, j
  <1>10. y \in Seq(Entry) /\ Len(y) = Len(e) + 1 /\ LastOf(y) = x /\ Chained(y, b.copy)
    BY <1>7, <1>9, ChainAppend
  <1>11. Len(e) \in Nat BY <1>9
  <1> HIDE DEF y
  <1>12. f = [kind |-> "journal", base |-> b, serial |-> g, entries |-> y] BY <1>1 DEF y
  <1>13. f.kind = "journal" /\ f.base = b /\ f.serial = g /\ f.entries = y
         /\ f = [kind |-> "journal", base |-> f.base, serial |-> f.serial, entries |-> f.entries]
    BY <1>12
  <1>14. EndOf(y) = [serial |-> copy.serial, content |-> copy.content]
    BY <1>8, <1>10 DEF EndOf
  <1>15. EndOf(y) = copy BY <1>14 DEF IsCopy
  <1>16. IsBase(b, k2, s2, p2) BY <1>3, BaseGrows
  <1>17. 1 <= Len(y) /\ Len(y) <= MaxEntries BY <1>9, <1>10, <1>11 DEF Parameters
  <1>18. LastOf(y).time <= p2[LastOf(y).to] BY <1>8, <1>10
  <1>19. IsJournal(f, k2, s2, p2)
    BY <1>9, <1>10, <1>13, <1>15, <1>16, <1>17, <1>18 DEF IsJournal
  <1> QED BY <1>13, <1>15, <1>19 DEF b

\* A transferred content is staged.
LEMMA StageStep ==
    ASSUME Parameters, ~Member, Inv, att[1].pc = "begun", minted.content < MaxContents,
           NEW t \in Nat, 1 <= t, t <= minted.serial + 1, NEW full \in BOOLEAN, Staged(1, t, full),
           UNCHANGED <<now, visible, durable, pending, mem, plan, cat, acked, crashes>>,
           full \/ JournalExtends(0, att[1].base)
    PROVE  Inv'
  <1> DEFINE k == minted.content
             s == minted.serial
             copy == [serial |-> t, content |-> k + 1]
  <1>1. /\ Settled = k /\ k \in Nat /\ k + 1 \in Contents /\ s \in Nat /\ s <= k + 1 /\ now \in Nat
        /\ k + 1 <= MaxContents /\ MaxContents \in Nat
    BY SettledIs DEF Contents, Inv, Plain
  <1>2. /\ minted' = [minted EXCEPT !.content = @ + 1, !.serial = Max2(@, t)]
        /\ proof' = [proof EXCEPT ![k + 1] = now]
        /\ past' = [past EXCEPT !.owner[k + 1] = att[1].token]
        /\ att' = [att EXCEPT ![1] =
                      [@ EXCEPT !.pc = "staged", !.copy = copy, !.full = full,
                                !.file = IF full THEN Checkpoint(copy)
                                         ELSE JournalWith(att[1].token, att[1].base, copy)]]
    BY DEF Staged
  <1>3. /\ DOMAIN minted' = {"content", "token", "gen", "serial"} /\ minted'.token = 0
        /\ minted'.content = k + 1 /\ minted'.serial = Max2(s, t)
    <2>1. DOMAIN minted = {"content", "token", "gen", "serial"} /\ minted.token = 0
      BY DEF Inv, Plain
    <2> QED BY <1>2, <2>1
  <1>4. minted'.serial \in Nat /\ s <= minted'.serial /\ t <= minted'.serial
        /\ minted'.serial <= s + 1 /\ minted'.serial # 0
    BY <1>1, <1>3 DEF Max2
  <1>5. DOMAIN past' = {"owner", "life", "ended"} /\ past'.life = {} /\ past'.ended = {}
    <2>1. DOMAIN past = {"owner", "life", "ended"} /\ past.life = {} /\ past.ended = {}
      BY DEF Inv, Plain
    <2> QED BY <1>2, <2>1
  <1>6. proof \in [Contents -> Nat] /\ acked \in [Contents -> Nat] BY DEF Inv, History
  <1>7. /\ proof' \in [Contents -> Nat] /\ proof'[k + 1] = now
        /\ \A c \in Contents : c # k + 1 => proof'[c] = proof[c]
    BY <1>1, <1>2, <1>6
  <1> HIDE DEF k, s
  <1> DEFINE r == att'[1]
             file == IF full THEN Checkpoint(copy) ELSE JournalWith(0, att[1].base, copy)
  <1>8. /\ att' = [x \in {1} |-> r]
        /\ DOMAIN r = Fields /\ r.gen = 0 /\ r.token = 0 /\ r.pc = "staged"
        /\ r.copy = copy /\ r.base = att[1].base /\ r.file = file /\ r.full = full
    <2>1. /\ att = [x \in {1} |-> att[1]] /\ DOMAIN att[1] = Fields
          /\ att[1].token = 0 /\ att[1].gen = 0
      BY AttIs
    <2>2. att' = [att EXCEPT ![1] =
                      [@ EXCEPT !.pc = "staged", !.copy = copy, !.full = full, !.file = file]]
      BY <1>2, <2>1
    <2> HIDE DEF copy, file
    <2> QED BY <2>1, <2>2 DEF Fields
  <1> HIDE DEF r, file
  <1>9. Settled' = k BY <1>1, <1>3, <1>8 DEF Settled, r
  <1>10. Grows(k, s, proof, k, minted'.serial, proof')
    <2>1. \A c \in 1 .. k : c \in Contents /\ c # k + 1 BY <1>1 DEF Contents
    <2>2. \A c \in 1 .. k : proof[c] \in Nat /\ proof'[c] \in Nat /\ proof[c] <= proof'[c]
      BY <1>6, <1>7, <2>1
    <2> QED BY <1>1, <1>4, <2>2 DEF Grows
  <1>11. Files'
    <2>1. Grows(Settled, minted.serial, proof, Settled', minted.serial', proof')
      BY <1>1, <1>9, <1>10 DEF s
    <2> QED BY <2>1, FilesKept DEF Inv
  <1>12. History'
    <2>1. \A c \in Contents : /\ c \in Nat /\ proof[c] <= now /\ acked[c] <= proof[c]
                              /\ acked[c] > 0 => c <= k
      BY <1>1 DEF Inv, History, Contents
    <2>2. \A c \in Contents : proof'[c] <= now /\ acked[c] <= proof'[c]
      BY <2>1, <1>1, <1>6, <1>7
    <2> QED BY <2>1, <2>2, <1>6, <1>7, <1>9 DEF History
  <1>13. Plain'
    <2>1. minted'.content \in 0 .. MaxContents /\ minted'.serial <= minted'.content + 1
      BY <1>1, <1>3, <1>4
    <2>2. minted'.serial \in Nat \ {0} BY <1>4
    <2> QED BY <1>3, <1>5, <2>1, <2>2 DEF Inv, Plain
  <1>14. Memory' BY DEF Inv, Memory
  <1>15. att[1].base = mem.copy /\ mem.copy = CopyOn(visible) BY DEF Inv, Attempt, Memory
  <1>16. /\ IsCopy(copy, k + 1, minted'.serial) /\ copy.content = k + 1
    BY <1>1, <1>4 DEF IsCopy
  <1>17. Grows(k, s, proof, k + 1, minted'.serial, proof')
    BY <1>1, <1>10 DEF Grows
  <1>18. IF r.full
         THEN IsBase(r.file, k + 1, minted'.serial, proof') /\ r.file.copy = r.copy
         ELSE /\ IsJournal(r.file, k + 1, minted'.serial, proof')
              /\ r.file.base = visible[BaseName] /\ EndOf(r.file.entries) = r.copy
    <2>1. CASE full
      <3>1. r.file = Checkpoint(copy) BY <2>1, <1>8 DEF file
      <3>2. Checkpoint(copy) = [kind |-> "base", copy |-> copy, time |-> now] BY DEF Checkpoint
      <3> DEFINE f == r.file
      <3>3. f.kind = "base" /\ f.copy = copy /\ f.time = now
            /\ f = [kind |-> "base", copy |-> f.copy, time |-> f.time]
        BY <3>1, <3>2
      <3> HIDE DEF f
      <3>4. f.time <= proof'[f.copy.content] BY <3>3, <1>1, <1>7, <1>16
      <3>5. IsBase(f, k + 1, minted'.serial, proof') BY <3>3, <3>4, <1>1, <1>16 DEF IsBase
      <3>6. f.copy = r.copy BY <3>3, <1>8
      <3> QED BY <3>5, <3>6, <2>1, <1>8 DEF f
    <2>2. CASE ~full
      <3>1. r.file = JournalWith(0, att[1].base, copy) BY <2>2, <1>8 DEF file
      <3>2. JournalExtends(0, att[1].base) BY <2>2
      <3>3. IsDisk(visible, k, s, proof) BY <1>1 DEF Inv, Files, s
      <3>4. now <= proof'[copy.content] BY <1>1, <1>7, <1>16
      <3> DEFINE f == r.file
                 base == att[1].base
                 k2 == k + 1
                 s2 == minted'.serial
                 p2 == proof'
      <3>5. Grows(k, s, proof, k2, s2, p2) /\ IsCopy(copy, k2, s2) /\ base = CopyOn(visible)
            /\ now <= p2[copy.content] /\ f = JournalWith(0, base, copy) /\ JournalExtends(0, base)
        BY <1>15, <1>16, <1>17, <3>1, <3>2, <3>4
      <3> HIDE DEF f, base, k2, s2, p2, copy
      <3>6. IsJournal(f, k2, s2, p2) /\ f.base = visible[BaseName] /\ EndOf(f.entries) = copy
        BY <3>3, <3>5, <1>1, JournalMade
      <3> QED BY <3>6, <2>2, <1>8 DEF f, k2, s2, p2
    <2> QED BY <2>1, <2>2
  <1>19. StagedOK(att[1])'
    <2>1. minted'.content = k + 1 /\ visible' = visible /\ k + 1 \in Nat \ {0} BY <1>1, <1>3
    <2>2. IsCopy(r.copy, minted'.content, minted'.serial) /\ r.copy.content = minted'.content
      BY <2>1, <1>8, <1>16
    <2>3. IF r.full
          THEN IsBase(r.file, minted'.content, minted'.serial, proof') /\ r.file.copy = r.copy
          ELSE /\ IsJournal(r.file, minted'.content, minted'.serial, proof')
               /\ r.file.base = visible'[BaseName] /\ EndOf(r.file.entries) = r.copy
      BY <2>1, <1>18
    <2> QED BY <2>1, <2>2, <2>3 DEF StagedOK, r
  <1>20. Attempt(att[1])'
    <2>1. IsCopy(r.copy, minted'.content, minted'.serial) BY <1>3, <1>8, <1>16
    <2>2. r.base = mem'.copy BY <1>8, <1>15
    <2> QED BY <2>1, <2>2, <1>8, <1>19 DEF Attempt, r
  <1>21. att' = [x \in {1} |-> att'[1]] BY <1>8 DEF r
  <1> QED BY <1>11, <1>12, <1>13, <1>14, <1>20, <1>21 DEF Inv

\* An AXFR is staged.
LEMMA StageFullInv ==
    ASSUME Parameters, ~Member, Inv, StageFull(1)
    PROVE  Inv'
  <1>1. PICK t \in NewSerials(att[1].base) : Staged(1, t, TRUE) BY DEF StageFull
  <1>2. att[1].pc = "begun" /\ minted.content < MaxContents
        /\ UNCHANGED <<now, visible, durable, pending, mem, plan, cat, acked, crashes>>
    BY DEF StageFull
  <1>3. att[1].base = mem.copy BY <1>2 DEF Inv, Attempt
  <1>4. minted.serial \in Nat /\ minted.serial # 0 BY DEF Inv, Plain
  <1>5. t \in Nat /\ 1 <= t /\ t <= minted.serial + 1
    <2>1. CASE mem.copy = NoCopy BY <2>1, <1>1, <1>3, <1>4 DEF NewSerials
    <2>2. CASE mem.copy # NoCopy
      <3>1. mem.copy.serial \in 1 .. minted.serial BY <2>2, ServedIs DEF IsCopy
      <3> QED BY <2>2, <3>1, <1>1, <1>3, <1>4 DEF NewSerials
    <2> QED BY <2>1, <2>2
  <1> QED BY <1>1, <1>2, <1>5, StageStep

\* An IXFR is staged.
LEMMA StageIncrementalInv ==
    ASSUME Parameters, ~Member, Inv, StageIncremental(1)
    PROVE  Inv'
  <1> DEFINE full == ~JournalExtends(att[1].token, att[1].base)
  <1>1. att[1].pc = "begun" /\ minted.content < MaxContents
        /\ UNCHANGED <<now, visible, durable, pending, mem, plan, cat, acked, crashes>>
        /\ Staged(1, minted.serial + 1, full)
    BY DEF StageIncremental
  <1>2. minted.serial \in Nat BY DEF Inv, Plain
  <1> DEFINE t == minted.serial + 1
  <1>3. t \in Nat /\ 1 <= t /\ t <= minted.serial + 1 BY <1>2
  <1>4. full \in BOOLEAN OBVIOUS
  <1>5. full \/ JournalExtends(0, att[1].base) BY AttIs
  <1> HIDE DEF t, full
  <1>6. Staged(1, t, full) BY <1>1 DEF t
  <1> QED BY <1>1, <1>3, <1>4, <1>5, <1>6, StageStep

\* What is staged is dropped.
LEMMA AbandonInv ==
    ASSUME Parameters, ~Member, Inv, Abandon(1)
    PROVE  Inv'
  BY EndStep DEF Abandon, Frame

\* The directory sync fails.
LEMMA FinishFailsInv ==
    ASSUME Parameters, ~Member, Inv, FinishFails(1)
    PROVE  Inv'
  BY EndStep DEF FinishFails, Frame

\* No checkpoint to renew.
LEMMA RenewFailsInv ==
    ASSUME Parameters, ~Member, Inv, RenewFails(1)
    PROVE  Inv'
  BY EndStep DEF RenewFails, Frame

(* A step that changes the disk, but neither memory nor histories.          *)
DiskFrame == UNCHANGED <<now, mem, plan, cat, minted, proof, acked, past, crashes>>

\* Files after a sync.
LEMMA SyncFiles ==
    ASSUME NEW o, NEW k, NEW s, NEW p, IsDisk(visible, k, s, p), GoodOps(o, k, s, p), WriteAndSync(o)
    PROVE  /\ visible' = After(visible, o) /\ IsDisk(visible', k, s, p) /\ IsDisk(durable', k, s, p)
           /\ GoodOps(pending', k, s, p) /\ visible' = After(durable', pending')
           /\ DisksOf(durable', pending') = {visible'}
  <1>1. visible' = After(visible, o) /\ durable' = visible' /\ pending' = << >> BY DEF WriteAndSync
  <1>2. IsDisk(visible', k, s, p) BY <1>1, AfterGood
  <1> DEFINE v == visible'
  <1>3. v = [n \in Names |-> v[n]] BY <1>2 DEF IsDisk
  <1>4. GoodOps(<< >>, k, s, p) BY OpsNone
  <1> HIDE DEF v
  <1>5. After(v, << >>) = v /\ DisksOf(v, << >>) = {v} BY <1>3, AfterNone, DisksSynced
  <1> QED BY <1>1, <1>2, <1>4, <1>5 DEF v

\* Files after operations that are not synced.
LEMMA WriteFiles ==
    ASSUME NEW o, NEW k, NEW s, NEW p, IsDisk(visible, k, s, p), IsDisk(durable, k, s, p),
           GoodOps(pending, k, s, p), visible = After(durable, pending), GoodOps(o, k, s, p), Write(o)
    PROVE  /\ visible' = After(visible, o) /\ IsDisk(visible', k, s, p) /\ IsDisk(durable', k, s, p)
           /\ GoodOps(pending', k, s, p) /\ visible' = After(durable', pending')
           /\ DisksOf(durable', pending') =
                DisksOf(durable, pending) \cup { After(visible, SubSeq(o, 1, j)) : j \in 1 .. Len(o) }
  <1>1. visible' = After(visible, o) /\ pending' = pending \o o /\ durable' = durable BY DEF Write
  <1>2. IsDisk(visible', k, s, p) BY <1>1, AfterGood
  <1>3. GoodOps(pending \o o, k, s, p) BY OpsConcat
  <1>4. IsSeq(pending) /\ IsSeq(o) BY DEF GoodOps
  <1>5. After(After(durable, pending), o) = After(durable, pending \o o) BY <1>4, AfterConcat
  <1>6. DisksOf(durable, pending \o o) =
          DisksOf(durable, pending) \cup { After(After(durable, pending), SubSeq(o, 1, j)) : j \in 1 .. Len(o) }
    BY <1>4, DisksAfterWrite
  <1> QED BY <1>1, <1>2, <1>3, <1>5, <1>6

\* A step that changes the disk but not the copy on it.
LEMMA DiskStep ==
    ASSUME Parameters, Inv, DiskFrame,
           IsDisk(visible', Settled, minted.serial, proof), IsDisk(durable', Settled, minted.serial, proof),
           GoodOps(pending', Settled, minted.serial, proof), visible' = After(durable', pending'),
           CopyOn(visible') = CopyOn(visible),
           att' = [x \in {1} |-> att'[1]], Attempt(att[1])',
           att'[1].pc # "staged", att[1].pc # "staged"
    PROVE  Inv'
  <1>1. Settled' = Settled BY DEF Settled, DiskFrame
  <1>2. Files' BY <1>1 DEF Files, DiskFrame
  <1>3. now \in Nat /\ Settled \in Nat BY SettledIs DEF Inv, Plain
  <1>4. History' BY <1>1 DEF Inv, History, DiskFrame
  <1>5. Plain' BY DEF Inv, Plain, DiskFrame
  <1>6. Memory' BY DEF Inv, Memory, DiskFrame
  <1> QED BY <1>2, <1>4, <1>5, <1>6 DEF Inv

\* The attempt that has ended.
LEMMA IdleAtt ==
    ASSUME Inv, att' = [att EXCEPT ![1] = Idle]
    PROVE  /\ att' = [x \in {1} |-> att'[1]] /\ Attempt(att[1])' /\ att'[1].pc = "idle"
  <1>1. att' = [x \in {1} |-> Idle] BY AttIs
  <1>2. att'[1] = Idle BY <1>1
  <1>3. DOMAIN Idle = Fields /\ Idle.gen = 0 /\ Idle.token = 0 /\ Idle.copy = NoCopy /\ Idle.pc = "idle"
    BY DEF Idle, Fields
  <1>4. Attempt(att[1])' BY <1>2, <1>3 DEF Attempt
  <1> QED BY <1>1, <1>2, <1>3, <1>4

\* The directory is synced after a publication.
LEMMA FinishInv ==
    ASSUME Parameters, ~Member, Inv, Finish(1)
    PROVE  Inv' /\ visible' = visible /\ DisksOf(durable', pending') = {visible}
  <1>1. att[1].pc = "published" /\ WriteAndSync(<< >>) /\ att' = [att EXCEPT ![1] = Idle] /\ DiskFrame
    BY DEF Finish, DiskFrame
  <1> DEFINE k == Settled
             s == minted.serial
  <1>2. IsDisk(visible, k, s, proof) BY DEF Inv, Files
  <1> HIDE DEF k, s
  <1>3. GoodOps(<< >>, k, s, proof) BY OpsNone
  <1>4. /\ visible' = After(visible, << >>) /\ IsDisk(visible', k, s, proof)
        /\ IsDisk(durable', k, s, proof)
        /\ GoodOps(pending', k, s, proof) /\ visible' = After(durable', pending')
        /\ DisksOf(durable', pending') = {visible'}
    BY <1>1, <1>2, <1>3, SyncFiles
  <1>5. visible = [n \in Names |-> visible[n]] BY <1>2 DEF IsDisk
  <1>6. visible' = visible BY <1>4, <1>5, AfterNone
  <1>7. att' = [x \in {1} |-> att'[1]] /\ Attempt(att[1])' /\ att'[1].pc = "idle" BY <1>1, IdleAtt
  <1>8. Inv'
    BY <1>1, <1>4, <1>6, <1>7, DiskStep DEF k, s
  <1> QED BY <1>4, <1>6, <1>8

\* One operation changes one name.
LEMMA AfterOne ==
    ASSUME NEW d, NEW n, NEW f, NEW m \in Names
    PROVE  After(d, <<[name |-> n, file |-> f]>>)[m] = IF m = n THEN f ELSE d[m]
  <1> DEFINE o == <<[name |-> n, file |-> f]>>
  <1>1. o \in Seq({[name |-> n, file |-> f]}) /\ Len(o) = 1 /\ o[1].name = n /\ o[1].file = f
    OBVIOUS
  <1> HIDE DEF o
  <1>2. IsSeq(o) BY <1>1 DEF IsSeq
  <1>3. \A i \in 1 .. Len(o) : i = 1 BY <1>1
  <1>4. 1 \in 1 .. Len(o) BY <1>1
  <1>6. \/ (\A i \in 1 .. Len(o) : o[i].name # m) /\ After(d, o)[m] = d[m]
        \/ \E i \in 1 .. Len(o) : o[i].name = m /\ After(d, o)[m] = o[i].file
    BY <1>2, AfterAt
  <1>5. After(d, o)[m] = IF m = n THEN f ELSE d[m] BY <1>1, <1>3, <1>4, <1>6
  <1> QED BY <1>5 DEF o

\* active_cache_checksum names the active file.
LEMMA ActiveSumIs == ActiveSum(0) = Active(visible)
  BY DEF ActiveSum, Active, BaseName, JournalName

\* The digest of the active file is taken, and the primary's statement noted.
LEMMA RenewChecksumInv ==
    ASSUME Parameters, ~Member, Inv, RenewChecksum(1)
    PROVE  Inv' /\ UNCHANGED <<visible, durable, pending, mem, acked>>
  <1> DEFINE b == att[1].base
             c == b.content
             k == Settled
             s == minted.serial
  <1>1. /\ att[1].pc = "begun" /\ b # NoCopy /\ mem.copy = b
        /\ att' = [att EXCEPT ![1].pc = "summed", ![1].time = now, ![1].file = ActiveSum(att[1].token)]
        /\ proof' = [proof EXCEPT ![c] = now] /\ Frame /\ UNCHANGED <<mem, acked>>
    BY DEF RenewChecksum, ConfirmStarts, Frame
  <1>2. IsCopy(b, k, s) /\ k \in Nat /\ s \in Nat BY <1>1, ServedIs, SettledIs
  <1>3. c \in 1 .. k BY <1>2 DEF IsCopy
  <1>4. c \in Contents /\ \A x \in 1 .. k : x \in Contents BY <1>3, ProofIs
  <1>5. now \in Nat BY DEF Inv, Plain
  <1>6. proof \in [Contents -> Nat] /\ acked \in [Contents -> Nat] /\
        \A x \in Contents : proof[x] <= now /\ acked[x] <= proof[x] /\ (acked[x] > 0 => x <= k)
    BY DEF Inv, History
  <1>7. proof' \in [Contents -> Nat] /\ proof'[c] = now
        /\ \A x \in Contents : proof[x] <= proof'[x] /\ proof'[x] <= now
    BY <1>1, <1>4, <1>5, <1>6
  <1> DEFINE r == att'[1]
  <1>8. /\ att' = [x \in {1} |-> r]
        /\ DOMAIN r = Fields /\ r.gen = 0 /\ r.token = 0 /\ r.pc = "summed" /\ r.time = now
        /\ r.base = b /\ r.file = Active(visible) /\ r.copy = att[1].copy
    <2>1. att = [x \in {1} |-> att[1]] /\ DOMAIN att[1] = Fields /\ att[1].token = 0 /\ att[1].gen = 0
      BY AttIs
    <2>2. att' = [att EXCEPT ![1].pc = "summed", ![1].time = now, ![1].file = Active(visible)]
      BY <1>1, <2>1, ActiveSumIs
    <2> QED BY <2>1, <2>2 DEF Fields
  <1>9. Settled' = k BY <1>1, <1>8 DEF Settled, Frame
  <1> HIDE DEF r, k, c
  <1>10. Grows(k, s, proof, k, s, proof') BY <1>2, <1>4, <1>6, <1>7 DEF Grows
  <1>11. Files'
    <2>1. Grows(Settled, minted.serial, proof, Settled', minted.serial', proof')
      BY <1>1, <1>9, <1>10 DEF k, Frame
    <2> QED BY <1>1, <2>1, FilesKept DEF Inv, Frame
  <1>12. History'
    <2>1. \A x \in Contents : acked[x] <= proof'[x] BY <1>6, <1>7
    <2> QED BY <1>1, <1>6, <1>7, <1>9, <2>1 DEF History, Frame
  <1>13. Plain' BY <1>1 DEF Inv, Plain, Frame
  <1>14. Memory' BY <1>1 DEF Inv, Memory, Frame
  <1>15. Attempt(att[1])'
    <2>1. r.copy = NoCopy \/ IsCopy(r.copy, minted'.content, minted'.serial)
      BY <1>1, <1>8, AttIs DEF Frame
    <2>2. r.base = mem'.copy /\ r.base # NoCopy /\ r.time = proof'[r.base.content] /\ r.time \in Nat
          /\ r.file = Active(visible')
      BY <1>1, <1>5, <1>7, <1>8 DEF c, Frame
    <2> QED BY <1>8, <2>1, <2>2 DEF Attempt, r
  <1>16. att' = [x \in {1} |-> att'[1]] BY <1>8 DEF r
  <1> QED BY <1>1, <1>11, <1>12, <1>13, <1>14, <1>15, <1>16 DEF Inv, Frame

\* The freshness record of the active file, on disk.
LEMMA FreshWritten ==
    ASSUME Parameters, ~Member, Inv, att[1].pc = "summed",
           NEW o, o = <<Op("fresh", att[1].token, FreshRecord(1))>>,
           NEW v, v = After(visible, o)
    PROVE  /\ GoodOps(o, Settled, minted.serial, proof) /\ Len(o) = 1
           /\ visible[BaseName] # NoFile /\ v[BaseName] = visible[BaseName]
           /\ CopyOn(v) = CopyOn(visible) /\ Active(v) = Active(visible)
           /\ CopyOn(visible) = att[1].base /\ att[1].time = proof[att[1].base.content]
           /\ FreshTime(v, 0, CopyOn(v).serial, Active(v)) = att[1].time
  <1> DEFINE b == att[1].base
             f == FreshRecord(1)
             k == Settled
             s == minted.serial
  <1>1. b # NoCopy /\ b = mem.copy /\ mem.copy = CopyOn(visible) /\ att[1].file = Active(visible)
        /\ att[1].time \in Nat /\ att[1].time = proof[b.content]
    BY DEF Inv, Attempt, Memory
  <1>2. visible[BaseName] # NoFile BY <1>1, ServedIs
  <1>3. IsDisk(visible, k, s, proof) BY DEF Inv, Files
  <1>4. f = [kind |-> "fresh", serial |-> b.serial, sum |-> Active(visible), time |-> att[1].time]
    BY <1>1 DEF FreshRecord
  <1>5. /\ f.kind = "fresh" /\ f.serial = b.serial /\ f.sum = Active(visible) /\ f.time = att[1].time
        /\ f = [kind |-> "fresh", serial |-> f.serial, sum |-> f.sum, time |-> f.time]
    BY <1>4
  <1>6. IsSum(Active(visible), k, s, proof) /\ CopyIn(Active(visible)) = b
    BY <1>1, <1>2, <1>3, ActiveIs
  <1> HIDE DEF f, k, s
  <1>7. f.time <= proof[CopyIn(f.sum).content] BY <1>1, <1>5, <1>6
  <1>8. IsFresh(f, k, s, proof) BY <1>1, <1>5, <1>6, <1>7 DEF IsFresh
  <1>9. FreshName \in Names /\ BaseName \in Names /\ JournalName \in Names
        /\ FreshName # BaseName /\ FreshName # JournalName
    BY NamesAre
  <1>10. IsFile(FreshName, f, k, s, proof) BY <1>8 DEF IsFile
  <1>11. o = <<[name |-> FreshName, file |-> f]>> BY AttIs, OpIs DEF f
  <1>12. GoodOps(o, k, s, proof) BY <1>9, <1>10, <1>11, OpsOne
  <1>13. v[FreshName] = f /\ v[BaseName] = visible[BaseName] /\ v[JournalName] = visible[JournalName]
    BY <1>9, <1>11, AfterOne
  <1>14. Active(v) = Active(visible) /\ CopyOn(v) = CopyOn(visible) BY <1>13, CopyKept
  <1>15. f # NoFile BY <1>5 DEF NoFile
  <1>16. FreshTime(v, 0, CopyOn(v).serial, Active(v)) = att[1].time
    BY <1>1, <1>5, <1>13, <1>14, <1>15 DEF FreshTime, FreshName
  <1>17. Len(o) = 1 BY <1>11
  <1> QED BY <1>1, <1>2, <1>12, <1>13, <1>14, <1>16, <1>17 DEF k, s

\* The record is renamed into place and the directory synced.
LEMMA RenewFreshnessInv ==
    ASSUME Parameters, ~Member, Inv, RenewFreshness(1)
    PROVE  /\ Inv' /\ DisksOf(durable', pending') = {visible'}
           /\ CopyOn(visible') = CopyOn(visible) /\ visible'[BaseName] # NoFile
           /\ FreshTime(visible', 0, CopyOn(visible').serial, Active(visible')) = att[1].time
           /\ CopyOn(visible) = att[1].base /\ att[1].time = proof[att[1].base.content]
           /\ att'[1].time = att[1].time /\ att'[1].base = att[1].base
  <1> DEFINE o == <<Op("fresh", att[1].token, FreshRecord(1))>>
             v == After(visible, o)
  <1>1. att[1].pc = "summed" /\ WriteAndSync(o) /\ DiskFrame /\ att' = [att EXCEPT ![1].pc = "renewed"]
    BY DEF RenewFreshness, DiskFrame
  <1>2. /\ GoodOps(o, Settled, minted.serial, proof)
        /\ visible[BaseName] # NoFile /\ v[BaseName] = visible[BaseName]
        /\ CopyOn(v) = CopyOn(visible) /\ Active(v) = Active(visible)
        /\ CopyOn(visible) = att[1].base /\ att[1].time = proof[att[1].base.content]
        /\ FreshTime(v, 0, CopyOn(v).serial, Active(v)) = att[1].time
    BY <1>1, FreshWritten
  <1> HIDE DEF o
  <1>3. IsDisk(visible, Settled, minted.serial, proof) BY DEF Inv, Files
  <1> DEFINE k == Settled
             s == minted.serial
  <1>4. /\ visible' = v /\ IsDisk(visible', k, s, proof) /\ IsDisk(durable', k, s, proof)
        /\ GoodOps(pending', k, s, proof) /\ visible' = After(durable', pending')
        /\ DisksOf(durable', pending') = {visible'}
    <2> HIDE DEF k, s
    <2> QED BY <1>1, <1>2, <1>3, SyncFiles DEF k, s
  <1> DEFINE r == att'[1]
  <1>5. /\ att' = [x \in {1} |-> r]
        /\ DOMAIN r = Fields /\ r.gen = 0 /\ r.token = 0 /\ r.pc = "renewed" /\ r.time = att[1].time
        /\ r.base = att[1].base /\ r.copy = att[1].copy
    <2>1. att = [x \in {1} |-> att[1]] /\ DOMAIN att[1] = Fields /\ att[1].token = 0 /\ att[1].gen = 0
      BY AttIs
    <2> QED BY <1>1, <2>1 DEF Fields
  <1>6. att[1].base = mem.copy /\ att[1].base # NoCopy /\ att[1].time \in Nat
    BY <1>1 DEF Inv, Attempt
  <1>7. Attempt(att[1])'
    <2>1. r.copy = NoCopy \/ IsCopy(r.copy, minted'.content, minted'.serial)
      BY <1>1, <1>5, AttIs DEF DiskFrame
    <2>2. r.base = mem'.copy /\ r.base # NoCopy /\ r.time = proof'[r.base.content] /\ r.time \in Nat
      BY <1>1, <1>2, <1>5, <1>6 DEF DiskFrame
    <2> HIDE DEF r
    <2> QED BY <1>5, <2>1, <2>2 DEF Attempt, r
  <1>8. Inv' BY <1>1, <1>2, <1>4, <1>5, <1>7, DiskStep
  <1> QED BY <1>2, <1>4, <1>5, <1>8

\* The record is renamed into place or not, and the refresh fails.
LEMMA RenewFreshnessFailsInv ==
    ASSUME Parameters, ~Member, Inv, RenewFreshnessFails(1)
    PROVE  /\ Inv'
           /\ \/ UNCHANGED <<visible, durable, pending>>
              \/ /\ DisksOf(durable', pending') = DisksOf(durable, pending) \cup {visible'}
                 /\ CopyOn(visible') = CopyOn(visible) /\ visible'[BaseName] # NoFile
                 /\ FreshTime(visible', 0, CopyOn(visible').serial, Active(visible')) = att[1].time
                 /\ CopyOn(visible) = att[1].base /\ att[1].time = proof[att[1].base.content]
  <1> DEFINE o == <<Op("fresh", att[1].token, FreshRecord(1))>>
             v == After(visible, o)
  <1>1. att[1].pc = "summed" /\ DiskFrame /\ att' = [att EXCEPT ![1] = Idle]
        /\ (Write(o) \/ UNCHANGED <<visible, durable, pending>>)
    BY DEF RenewFreshnessFails, DiskFrame
  <1>2. att' = [x \in {1} |-> att'[1]] /\ Attempt(att[1])' /\ att'[1].pc = "idle" BY <1>1, IdleAtt
  <1>3. /\ IsDisk(visible, Settled, minted.serial, proof) /\ IsDisk(durable, Settled, minted.serial, proof)
        /\ GoodOps(pending, Settled, minted.serial, proof) /\ visible = After(durable, pending)
    BY DEF Inv, Files
  <1>4. CASE UNCHANGED <<visible, durable, pending>> BY <1>1, <1>2, <1>3, <1>4, DiskStep
  <1>5. CASE Write(o)
    <2>1. /\ GoodOps(o, Settled, minted.serial, proof) /\ Len(o) = 1
          /\ visible[BaseName] # NoFile /\ v[BaseName] = visible[BaseName]
          /\ CopyOn(v) = CopyOn(visible) /\ Active(v) = Active(visible)
          /\ CopyOn(visible) = att[1].base /\ att[1].time = proof[att[1].base.content]
          /\ FreshTime(v, 0, CopyOn(v).serial, Active(v)) = att[1].time
      BY <1>1, FreshWritten
    <2> HIDE DEF o
    <2> DEFINE k == Settled
               s == minted.serial
    <2>2. /\ visible' = v /\ IsDisk(visible', k, s, proof) /\ IsDisk(durable', k, s, proof)
          /\ GoodOps(pending', k, s, proof) /\ visible' = After(durable', pending')
          /\ DisksOf(durable', pending') =
                DisksOf(durable, pending) \cup { After(visible, SubSeq(o, 1, j)) : j \in 1 .. Len(o) }
      <3> HIDE DEF k, s
      <3> QED BY <1>3, <1>5, <2>1, WriteFiles DEF k, s
    <2>3. SubSeq(o, 1, 1) = o
      <3>1. IsSeq(o) BY <2>1 DEF GoodOps
      <3>2. 1 \in 0 .. Len(o) BY <2>1
      <3>3. IsSeq(SubSeq(o, 1, 1)) /\ Len(SubSeq(o, 1, 1)) = 1 /\ \A i \in 1 .. 1 : SubSeq(o, 1, 1)[i] = o[i]
        BY <3>1, <3>2, SeqPrefix
      <3>4. SubSeq(o, 1, 1) = [i \in 1 .. 1 |-> SubSeq(o, 1, 1)[i]] /\ o = [i \in 1 .. 1 |-> o[i]]
        BY <2>1, <3>1, <3>3, SeqIs
      <3> QED BY <3>3, <3>4
    <2>4. { After(visible, SubSeq(o, 1, j)) : j \in 1 .. Len(o) } = {v}
      <3>1. \A j \in 1 .. Len(o) : j = 1 BY <2>1
      <3>2. 1 \in 1 .. Len(o) BY <2>1
      <3> QED BY <3>1, <3>2, <2>3
    <2>5. Inv' BY <1>1, <1>2, <2>1, <2>2, DiskStep
    <2> QED BY <2>1, <2>2, <2>4, <2>5
  <1> QED BY <1>1, <1>4, <1>5

\* The refresh is acknowledged, unless the zone has changed.
LEMMA ActivateInv ==
    ASSUME Parameters, ~Member, Inv, Activate(1)
    PROVE  Inv'
  <1>1. /\ att[1].pc = "renewed" /\ att' = [att EXCEPT ![1] = Idle] /\ Frame /\ UNCHANGED proof
        /\ IF IsCurrent(1) /\ mem.copy = att[1].base
           THEN /\ mem' = [mem EXCEPT !.expired = FALSE]
                /\ acked' = [acked EXCEPT ![mem.copy.content] = att[1].time]
           ELSE UNCHANGED <<mem, acked>>
    BY DEF Activate, Frame
  <1>2. att' = [x \in {1} |-> att'[1]] /\ Attempt(att[1])' /\ att'[1].pc = "idle" BY <1>1, IdleAtt
  <1>3. CASE UNCHANGED <<mem, acked>> BY <1>1, <1>3, EndStep
  <1>4. CASE /\ mem' = [mem EXCEPT !.expired = FALSE]
             /\ acked' = [acked EXCEPT ![mem.copy.content] = att[1].time]
             /\ mem.copy = att[1].base
    <2> DEFINE c == mem.copy.content
               k == Settled
    <2>1. att[1].base # NoCopy /\ att[1].time \in Nat /\ att[1].time = proof[c]
      BY <1>1, <1>4 DEF Inv, Attempt
    <2>2. c \in 1 .. k BY <1>4, <2>1, ServedIs DEF IsCopy
    <2>3. c \in Contents /\ k \in Nat BY <2>2, ProofIs, SettledIs
    <2>4. DOMAIN mem' = {"copy", "expired"} /\ mem'.expired = FALSE /\ mem'.copy = mem.copy
      <3>1. DOMAIN mem = {"copy", "expired"} BY DEF Inv, Memory
      <3> QED BY <1>4, <3>1
    <2>5. Memory' BY <1>1, <2>4 DEF Inv, Memory, Frame
    <2>6. Settled' = k BY <1>1, <1>2 DEF Settled, Frame
    <2> HIDE DEF c, k
    <2>7. proof \in [Contents -> Nat] /\ acked \in [Contents -> Nat] /\
          \A x \in Contents : proof[x] <= now /\ acked[x] <= proof[x] /\ (acked[x] > 0 => x <= k)
      BY DEF Inv, History, k
    <2>8. acked' = [acked EXCEPT ![c] = att[1].time] BY <1>4 DEF c
    <2>9. acked' \in [Contents -> Nat] /\
          \A x \in Contents : acked'[x] <= proof[x] /\ (acked'[x] > 0 => x <= k)
      BY <2>1, <2>2, <2>3, <2>7, <2>8
    <2>10. History' BY <1>1, <2>6, <2>7, <2>9 DEF History, Frame
    <2>11. Files' BY <1>1, <2>6 DEF Inv, Files, Frame, k
    <2>12. Plain' BY <1>1 DEF Inv, Plain, Frame
    <2> QED BY <1>2, <2>5, <2>10, <2>11, <2>12 DEF Inv
  <1> QED BY <1>1, <1>3, <1>4

(* The operations of promote: the rename first, then unlinks of other       *)
(* files; an incremental one leaves the checkpoint alone.                   *)
Renamed == IF att[1].full THEN BaseName ELSE JournalName
Unlink(op) == op.file = NoFile /\ op.name \in Names /\ op.name # Renamed /\ op.name # BaseName
Promotion(o) ==
    /\ IsSeq(o) /\ Len(o) >= 1 /\ o[1].name = Renamed /\ o[1].file = att[1].file
    /\ \A i \in 2 .. Len(o) : Unlink(o[i])

\* The rename alone.
LEMMA PromotionStarts ==
    ASSUME NEW o, o = <<[name |-> Renamed, file |-> att[1].file]>>
    PROVE  Promotion(o)
  <1>1. o \in Seq({[name |-> Renamed, file |-> att[1].file]}) /\ Len(o) = 1
        /\ o[1].name = Renamed /\ o[1].file = att[1].file
    OBVIOUS
  <1>2. IsSeq(o) BY <1>1 DEF IsSeq
  <1> HIDE DEF IsSeq
  <1>3. ~\E i \in 2 .. Len(o) : TRUE BY <1>1
  <1>4. Len(o) >= 1 /\ o[1].name = Renamed /\ o[1].file = att[1].file BY <1>1
  <1> QED BY <1>2, <1>3, <1>4 DEF Promotion

\* One more unlink, or none.
LEMMA PromotionGoesOn ==
    ASSUME NEW o, Promotion(o), NEW q, IsSeq(q), \A i \in 1 .. Len(q) : Unlink(q[i])
    PROVE  Promotion(o \o q)
  <1> DEFINE u == o \o q
  <1>1. IsSeq(o) /\ Len(o) >= 1 BY DEF Promotion
  <1>2. /\ IsSeq(u) /\ Len(u) = Len(o) + Len(q)
        /\ \A i \in 1 .. Len(o) : u[i] = o[i]
        /\ \A i \in 1 .. Len(u) : i > Len(o) => u[i] = q[i - Len(o)]
    BY <1>1, SeqConcat
  <1>3. Len(o) \in Nat /\ Len(q) \in Nat BY <1>1, SeqIs
  <1> HIDE DEF u
  <1>4. ASSUME NEW i \in 2 .. Len(u) PROVE Unlink(u[i])
    <2>1. CASE i <= Len(o)
      <3>1. i \in 2 .. Len(o) /\ i \in 1 .. Len(o) BY <2>1, <1>3
      <3> QED BY <3>1, <1>2 DEF Promotion
    <2>2. CASE i > Len(o)
      <3>1. i \in 1 .. Len(u) /\ i - Len(o) \in 1 .. Len(q) BY <2>2, <1>2, <1>3
      <3> QED BY <3>1, <2>2, <1>2
    <2> QED BY <2>1, <2>2, <1>3
  <1>5. 1 \in 1 .. Len(o) BY <1>1, <1>3
  <1>6. u[1].name = Renamed /\ u[1].file = att[1].file BY <1>2, <1>5 DEF Promotion
  <1>7. Promotion(u) BY <1>1, <1>2, <1>3, <1>4, <1>6 DEF Promotion
  <1> QED BY <1>7 DEF u

\* A non-empty beginning of a promotion.
LEMMA PromotionPrefix ==
    ASSUME NEW o, Promotion(o), NEW j \in 1 .. Len(o)
    PROVE  Promotion(SubSeq(o, 1, j))
  <1> DEFINE q == SubSeq(o, 1, j)
  <1>1. IsSeq(o) BY DEF Promotion
  <1>2. Len(o) \in Nat BY <1>1, SeqIs
  <1>3. j \in 0 .. Len(o) BY <1>2
  <1>4. IsSeq(q) /\ Len(q) = j /\ \A i \in 1 .. j : q[i] = o[i] BY <1>1, <1>3, SeqPrefix
  <1> HIDE DEF q
  <1>5. \A i \in 2 .. Len(q) : i \in 2 .. Len(o) /\ q[i] = o[i] BY <1>2, <1>4
  <1>6. q[1] = o[1] BY <1>4
  <1>7. Promotion(q) BY <1>4, <1>5, <1>6 DEF Promotion
  <1> QED BY <1>7 DEF q

\* promote makes such operations, whichever unlinks fail.
LEMMA PromoteOpsAre ==
    ASSUME ~Member, att[1].token = 0, NEW uj, NEW uf
    PROVE  Promotion(PromoteOps(1, uj, uf))
  <1> DEFINE o == <<Op(IF att[1].full THEN "base" ELSE "journal", 0, att[1].file)>>
             x == IF att[1].full /\ uj THEN <<Op("journal", 0, NoFile)>> ELSE << >>
             y == IF uf THEN <<Op("fresh", 0, NoFile)>> ELSE << >>
  <1>1. PromoteOps(1, uj, uf) = (o \o x) \o y BY DEF PromoteOps
  <1>2. o = <<[name |-> Renamed, file |-> att[1].file]>> BY OpIs DEF Renamed
  <1>3. Promotion(o) BY <1>2, PromotionStarts
  <1>4. IsSeq(<< >>) BY DEF IsSeq
  <1>5. ASSUME NEW n \in Names, n # Renamed, n # BaseName
        PROVE  LET q == <<[name |-> n, file |-> NoFile]>> IN IsSeq(q) /\ \A i \in 1 .. Len(q) : Unlink(q[i])
    <2> DEFINE q == <<[name |-> n, file |-> NoFile]>>
    <2>1. q \in Seq({[name |-> n, file |-> NoFile]}) /\ Len(q) = 1 /\ q[1].name = n /\ q[1].file = NoFile
      OBVIOUS
    <2> HIDE DEF q
    <2>2. \A i \in 1 .. Len(q) : i = 1 BY <2>1
    <2>3. IsSeq(q) /\ \A i \in 1 .. Len(q) : Unlink(q[i]) BY <2>1, <2>2, <1>5 DEF IsSeq, Unlink
    <2> QED BY <2>3 DEF q
  <1>6. /\ JournalName \in Names /\ FreshName \in Names /\ FreshName # BaseName
        /\ JournalName # BaseName /\ FreshName # JournalName
    BY NamesAre
  <1>7. IsSeq(x) /\ \A i \in 1 .. Len(x) : Unlink(x[i])
    <2>1. CASE att[1].full /\ uj
      <3>1. x = <<[name |-> JournalName, file |-> NoFile]>> BY <2>1, OpIs
      <3>2. JournalName # Renamed BY <2>1, <1>6 DEF Renamed
      <3> QED BY <3>1, <3>2, <1>5, <1>6
    <2>2. CASE ~(att[1].full /\ uj)
      <3>1. x = << >> BY <2>2
      <3> QED BY <3>1, <1>4
    <2> QED BY <2>1, <2>2
  <1>8. IsSeq(y) /\ \A i \in 1 .. Len(y) : Unlink(y[i])
    <2>1. CASE uf
      <3>1. y = <<[name |-> FreshName, file |-> NoFile]>> BY <2>1, OpIs
      <3>2. FreshName # Renamed BY <1>6 DEF Renamed
      <3> QED BY <3>1, <3>2, <1>5, <1>6
    <2>2. CASE ~uf
      <3>1. y = << >> BY <2>2
      <3> QED BY <3>1, <1>4
    <2> QED BY <2>1, <2>2
  <1> HIDE DEF o, x, y
  <1>9. Promotion(o \o x) BY <1>3, <1>7, PromotionGoesOn
  <1>10. Promotion((o \o x) \o y) BY <1>8, <1>9, PromotionGoesOn
  <1> QED BY <1>1, <1>10

\* Whatever part of a promotion reaches the disk, the staged copy is on it:
\* the new checkpoint is not one that an older journal is bound to.
LEMMA Promoted ==
    ASSUME Parameters, ~Member, Inv, att[1].pc = "staged", NEW o, Promotion(o), NEW v, v = After(visible, o)
    PROVE  v[BaseName] # NoFile /\ CopyOn(v) = att[1].copy
  <1> DEFINE k == Settled
             s == minted.serial
             f == att[1].file
  <1>1. /\ StagedOK(att[1]) /\ IsDisk(visible, k, s, proof) BY DEF Inv, Files, Attempt
  <1>2. k = minted.content - 1 /\ minted.content \in Nat BY SettledIs
  <1>3. IsSeq(o) /\ Len(o) \in Nat /\ 1 \in 1 .. Len(o) BY SeqIs DEF Promotion
  <1>4. BaseName \in Names /\ JournalName \in Names /\ BaseName # JournalName BY NamesAre
  <1>5. ASSUME NEW i \in 1 .. Len(o), i # 1 PROVE Unlink(o[i])
    <2>1. i \in 2 .. Len(o) BY <1>5
    <2> QED BY <2>1 DEF Promotion
  <1>6. \A n \in Names : \/ (\A i \in 1 .. Len(o) : o[i].name # n) /\ v[n] = visible[n]
                         \/ \E i \in 1 .. Len(o) : o[i].name = n /\ v[n] = o[i].file
    BY <1>3, AfterAt
  <1>7. o[1].name = Renamed /\ o[1].file = f BY DEF Promotion
  <1>8. Renamed \in Names BY <1>4 DEF Renamed
  <1>9. v[Renamed] = f
    <2>1. \E i \in 1 .. Len(o) : o[i].name = Renamed /\ v[Renamed] = o[i].file
      BY <1>3, <1>6, <1>7, <1>8
    <2>2. PICK i \in 1 .. Len(o) : o[i].name = Renamed /\ v[Renamed] = o[i].file BY <2>1
    <2>3. i = 1 BY <1>5, <2>2 DEF Unlink
    <2> QED BY <1>7, <2>2, <2>3
  <1>10. CASE att[1].full
    <2>1. IsBase(f, minted.content, s, proof) /\ f.copy = att[1].copy
          /\ att[1].copy.content = minted.content
      BY <1>1, <1>10 DEF StagedOK
    <2>2. v[BaseName] = f BY <1>9, <1>10 DEF Renamed
    <2>3. f # NoFile /\ f.kind = "base" BY <2>1 DEF IsBase, NoFile
    <2>4. v[JournalName] = NoFile \/ v[JournalName] = visible[JournalName]
      BY <1>4, <1>5, <1>6, <1>7, <1>10 DEF Unlink, Renamed
    <2>5. ~JournalBound(v, 0)
      <3> SUFFICES ASSUME v[JournalName] # NoFile, v[JournalName].base = f PROVE FALSE
        BY <2>2 DEF JournalBound, BaseName, JournalName
      <3>1. IsJournal(visible[JournalName], k, s, proof) BY <1>1, <2>4, DiskFiles
      <3>2. IsBase(f, k, s, proof) BY <2>4, <3>1 DEF IsJournal
      <3>3. f.copy.content <= k BY <3>2, <1>2 DEF IsBase, IsCopy
      <3> QED BY <3>3, <2>1, <1>2
    <2>6. Active(v) = f BY <2>2, <2>5 DEF Active
    <2> QED BY <2>1, <2>2, <2>3, <2>6 DEF CopyOn, CopyIn
  <1>11. CASE ~att[1].full
    <2>1. /\ IsJournal(f, minted.content, s, proof) /\ f.base = visible[BaseName]
          /\ EndOf(f.entries) = att[1].copy
      BY <1>1, <1>11 DEF StagedOK
    <2>2. v[JournalName] = f BY <1>9, <1>11 DEF Renamed
    <2>3. f # NoFile /\ f.kind = "journal" BY <2>1 DEF IsJournal, NoFile
    <2>4. v[BaseName] = visible[BaseName]
      BY <1>4, <1>5, <1>6, <1>7, <1>11 DEF Unlink, Renamed
    <2>5. JournalBound(v, 0) BY <2>1, <2>2, <2>3, <2>4 DEF JournalBound, BaseName, JournalName
    <2>6. Active(v) = f BY <2>2, <2>5 DEF Active
    <2>7. visible[BaseName] # NoFile BY <2>1 DEF IsJournal, IsBase, NoFile
    <2> QED BY <2>1, <2>3, <2>4, <2>6, <2>7 DEF CopyOn, CopyIn
  <1> QED BY <1>10, <1>11

\* The publication: every new directory has the published copy.
LEMMA PublishInv ==
    ASSUME Parameters, ~Member, Inv, Publish(1)
    PROVE  /\ Inv' /\ mem'.copy = att[1].copy /\ att[1].copy.content = minted.content
           /\ att[1].pc = "staged" /\ UNCHANGED acked
           /\ IsCopy(att[1].copy, minted.content, minted.serial)
           /\ DisksOf(durable, pending) \subseteq DisksOf(durable', pending')
           /\ \E d \in DisksOf(durable', pending') : d[BaseName] # NoFile /\ CopyOn(d) = att[1].copy
           /\ \A d \in DisksOf(durable', pending') :
                 \/ d \in DisksOf(durable, pending)
                 \/ d[BaseName] # NoFile /\ CopyOn(d) = att[1].copy
  <1>1. PICK uj, uf \in Unlinked : Write(PromoteOps(1, uj, uf)) BY DEF Publish
  <1>2. /\ att[1].pc = "staged" /\ mem' = [copy |-> att[1].copy, expired |-> FALSE]
        /\ att' = [att EXCEPT ![1].pc = "published"]
        /\ UNCHANGED <<now, plan, cat, minted, proof, acked, past, crashes>>
    BY DEF Publish
  <1> DEFINE o == PromoteOps(1, uj, uf)
             k == minted.content
             s == minted.serial
  <1>3. Promotion(o) BY AttIs, PromoteOpsAre
  <1>4. StagedOK(att[1]) BY <1>2 DEF Inv, Attempt
  <1>5. /\ att[1].copy.content = k /\ IsCopy(att[1].copy, k, s) /\ k \in Nat /\ s \in Nat
        /\ Settled = k - 1 /\ Settled \in Nat
    BY <1>2, <1>4, SettledIs DEF StagedOK
  <1>6. Grows(Settled, s, proof, k, s, proof) BY <1>5, ProofIs DEF Grows
  <1> DEFINE z == Settled
  <1>7. /\ IsDisk(visible, z, s, proof) /\ IsDisk(durable, z, s, proof)
        /\ GoodOps(pending, z, s, proof) /\ visible = After(durable, pending)
    BY DEF Inv, Files
  <1> HIDE DEF o, k, s, z
  <1>8. /\ IsDisk(visible, k, s, proof) /\ IsDisk(durable, k, s, proof)
        /\ GoodOps(pending, k, s, proof)
    BY <1>6, <1>7, DiskGrows, OpsGrow DEF z
  <1>9. GoodOps(o, k, s, proof)
    <2>1. IsFile(Renamed, att[1].file, k, s, proof) /\ Renamed \in Names
      <3>1. CASE att[1].full
        <4>1. IsBase(att[1].file, k, s, proof) BY <3>1, <1>4 DEF StagedOK, k, s
        <4> QED BY <3>1, <4>1, NamesAre DEF IsFile, Renamed
      <3>2. CASE ~att[1].full
        <4>1. IsJournal(att[1].file, k, s, proof) BY <3>2, <1>4 DEF StagedOK, k, s
        <4> QED BY <3>2, <4>1, NamesAre DEF IsFile, Renamed
      <3> QED BY <3>1, <3>2
    <2>2. IsSeq(o) /\ Len(o) \in Nat BY <1>3, SeqIs DEF Promotion
    <2>3. ASSUME NEW i \in 1 .. Len(o)
          PROVE  o[i].name \in Names /\ IsFile(o[i].name, o[i].file, k, s, proof)
      <3>1. CASE i = 1 BY <3>1, <1>3, <2>1 DEF Promotion
      <3>2. CASE i # 1
        <4>1. i \in 2 .. Len(o) BY <3>2
        <4>2. Unlink(o[i]) BY <4>1, <1>3 DEF Promotion
        <4> QED BY <4>2 DEF Unlink, IsFile
      <3> QED BY <3>1, <3>2
    <2> QED BY <2>2, <2>3 DEF GoodOps
  <1>10. Write(o) BY <1>1 DEF o
  <1>11. /\ visible' = After(visible, o) /\ IsDisk(visible', k, s, proof) /\ IsDisk(durable', k, s, proof)
         /\ GoodOps(pending', k, s, proof) /\ visible' = After(durable', pending')
         /\ DisksOf(durable', pending') =
                DisksOf(durable, pending) \cup { After(visible, SubSeq(o, 1, j)) : j \in 1 .. Len(o) }
    BY <1>7, <1>8, <1>9, <1>10, WriteFiles
  <1>12. ASSUME NEW j \in 1 .. Len(o)
         PROVE  After(visible, SubSeq(o, 1, j))[BaseName] # NoFile
                /\ CopyOn(After(visible, SubSeq(o, 1, j))) = att[1].copy
    <2>1. Promotion(SubSeq(o, 1, j)) BY <1>3, PromotionPrefix
    <2> QED BY <1>2, <2>1, Promoted
  <1>13. visible'[BaseName] # NoFile /\ CopyOn(visible') = att[1].copy BY <1>2, <1>3, <1>11, Promoted
  <1>14. visible' \in DisksOf(durable', pending')
    <2>1. IsSeq(pending') BY <1>11 DEF GoodOps
    <2> DEFINE dd == durable'
               pp == pending'
    <2>2. visible' = After(dd, pp) /\ IsSeq(pp) BY <1>11, <2>1
    <2> HIDE DEF dd, pp
    <2>3. After(dd, pp) \in DisksOf(dd, pp) BY <2>2, DisksVisible
    <2> QED BY <2>2, <2>3 DEF dd, pp
  <1> DEFINE r == att'[1]
  <1>15. /\ att' = [x \in {1} |-> r]
         /\ DOMAIN r = Fields /\ r.gen = 0 /\ r.token = 0 /\ r.pc = "published" /\ r.copy = att[1].copy
    <2>1. att = [x \in {1} |-> att[1]] /\ DOMAIN att[1] = Fields /\ att[1].token = 0 /\ att[1].gen = 0
      BY AttIs
    <2> QED BY <1>2, <2>1 DEF Fields
  <1>16. Settled' = k BY <1>2, <1>15 DEF Settled, k
  <1> HIDE DEF r
  <1>17. Files' BY <1>2, <1>11, <1>16 DEF Files, s
  <1>18. mem'.copy = att[1].copy /\ Memory'
    <2>1. mem'.copy = att[1].copy /\ mem'.expired = FALSE /\ DOMAIN mem' = {"copy", "expired"} BY <1>2
    <2> QED BY <2>1, <1>13 DEF Memory
  <1>19. Plain' BY <1>2 DEF Inv, Plain
  <1>20. History'
    <2>1. now \in Nat BY DEF Inv, Plain
    <2>2. Settled' \in Nat /\ Settled <= Settled' /\ now' \in Nat /\ now <= now'
      BY <2>1, <1>2, <1>5, <1>16
    <2> QED BY <1>2, <2>2, HistoryKept
  <1>21. Attempt(att[1])'
    <2>1. IsCopy(r.copy, minted'.content, minted'.serial) BY <1>2, <1>5, <1>15 DEF k, s
    <2> QED BY <1>15, <2>1 DEF Attempt, r
  <1>22. Inv' BY <1>15, <1>17, <1>18, <1>19, <1>20, <1>21 DEF Inv, r
  <1>23. \A d \in DisksOf(durable', pending') :
            \/ d \in DisksOf(durable, pending)
            \/ d[BaseName] # NoFile /\ CopyOn(d) = att[1].copy
    BY <1>11, <1>12
  <1>24. DisksOf(durable, pending) \subseteq DisksOf(durable', pending') BY <1>11
  <1>25. \E d \in DisksOf(durable', pending') : d[BaseName] # NoFile /\ CopyOn(d) = att[1].copy
    BY <1>13, <1>14
  <1> QED BY <1>2, <1>5, <1>18, <1>22, <1>23, <1>24, <1>25 DEF k, s

\* A restart from a good directory: what comes back is the copy on it, and
\* only a copy that somebody has vouched for in time comes back ACTIVE.
LEMMA RestartStep ==
    ASSUME Parameters, ~Member, Inv, crashes < MaxCrashes, NEW d, NEW L, Restarted(d, L),
           IsDisk(d, Settled, minted.serial, proof), visible' = d,
           IsDisk(durable', Settled, minted.serial, proof),
           GoodOps(pending', Settled, minted.serial, proof), d = After(durable', pending')
    PROVE  Inv' /\ mem'.copy = CopyOn(d) /\ RestoredInTime /\ att'[1].pc = "idle" /\ UNCHANGED acked
  <1> DEFINE k == Settled
             s == minted.serial
             q == Restore(d, 0)
  <1>1. /\ mem' = Served(q) /\ plan' = plan /\ att' = [a \in {1} |-> Idle]
        /\ crashes' = crashes + 1 /\ UNCHANGED cat
        /\ UNCHANGED <<now, minted, proof, acked, past>>
    BY NamesAre DEF Restarted
  <1>2. att'[1] = Idle /\ att' = [x \in {1} |-> att'[1]] BY <1>1
  <1>3. DOMAIN Idle = Fields /\ Idle.gen = 0 /\ Idle.token = 0 /\ Idle.copy = NoCopy /\ Idle.pc = "idle"
    BY DEF Idle, Fields
  <1>4. Attempt(att[1])' BY <1>2, <1>3 DEF Attempt
  <1>5. att'[1].pc # "staged" /\ att'[1].pc = "idle" BY <1>2, <1>3
  <1>6. /\ Settled' \in Nat /\ k <= Settled'
        /\ Grows(k, s, proof, Settled', minted.serial', proof')
    BY <1>1, <1>5, GrowsKept
  <1> DEFINE k2 == Settled'
             s2 == minted.serial'
             p2 == proof'
  <1>7. Files'
    <2>1. IsDisk(d, k, s, proof) /\ IsDisk(durable', k, s, proof) /\ GoodOps(pending', k, s, proof)
      OBVIOUS
    <2>2. Grows(k, s, proof, k2, s2, p2) BY <1>6
    <2> HIDE DEF k, s, k2, s2, p2
    <2>3. IsDisk(d, k2, s2, p2) /\ IsDisk(durable', k2, s2, p2) /\ GoodOps(pending', k2, s2, p2)
      BY <2>1, <2>2, DiskGrows, OpsGrow
    <2> QED BY <2>3 DEF Files, k2, s2, p2
  <1>8. now \in Nat /\ crashes \in 0 .. MaxCrashes /\ MaxCrashes \in Nat BY DEF Inv, Plain, Parameters
  <1>9. History' BY <1>1, <1>6, <1>8, HistoryKept
  <1>10. Plain'
    <2>1. crashes' \in 0 .. MaxCrashes BY <1>1, <1>8
    <2> QED BY <1>1, <2>1 DEF Inv, Plain
  <1>11. k \in Nat /\ \A c \in 1 .. k : c \in Contents /\ proof[c] \in Nat BY SettledIs, ProofIs
  <1>12. /\ q.copy = CopyOn(d)
         /\ d[BaseName] # NoFile => q.time \in Nat /\ q.time <= proof[CopyOn(d).content]
         /\ d[BaseName] = NoFile => CopyOn(d) = NoCopy
    <2> HIDE DEF k, s
    <2>1. IsDisk(d, k, s, proof) BY DEF k, s
    <2> QED BY <1>11, <2>1, RestoredCopy
  <1> HIDE DEF q
  <1>13. mem' = [copy |-> q.copy, expired |-> q.copy # NoCopy /\ now - q.time >= Expire] BY <1>1 DEF Served
  <1>14. DOMAIN mem' = {"copy", "expired"} /\ mem'.copy = q.copy BY <1>13
  <1>15. mem'.expired \in BOOLEAN /\ (mem'.expired <=> q.copy # NoCopy /\ now - q.time >= Expire)
    BY <1>13
  <1>16. Memory' BY <1>12, <1>14, <1>15 DEF Memory
  <1>17. RestoredInTime
    <2> SUFFICES ASSUME mem'.copy # NoCopy, ~mem'.expired
                 PROVE  now - proof[mem'.copy.content] < Expire
      BY DEF RestoredInTime
    <2>1. d[BaseName] # NoFile BY <1>12, <1>14
    <2>2. CopyOn(d).content \in 1 .. k BY <2>1, ActiveIs
    <2>3. proof[CopyOn(d).content] \in Nat BY <1>11, <2>2
    <2>4. ~(now - q.time >= Expire) BY <1>14, <1>15
    <2> QED BY <1>8, <1>12, <1>14, <2>1, <2>3, <2>4 DEF Parameters
  <1>18. Inv' BY <1>2, <1>4, <1>7, <1>9, <1>10, <1>16 DEF Inv
  <1> QED BY <1>1, <1>5, <1>12, <1>14, <1>17, <1>18

\* The process stops and starts again.
LEMMA ProcessCrashInv ==
    ASSUME Parameters, ~Member, Inv, ProcessCrash
    PROVE  /\ Inv' /\ mem'.copy = mem.copy /\ RestoredInTime /\ att'[1].pc = "idle"
           /\ UNCHANGED <<visible, durable, pending, acked>>
  <1>1. crashes < MaxCrashes /\ Restarted(visible, {cat.listed}) /\ UNCHANGED <<visible, durable, pending>>
    BY DEF ProcessCrash
  <1>2. /\ IsDisk(visible, Settled, minted.serial, proof) /\ IsDisk(durable, Settled, minted.serial, proof)
        /\ GoodOps(pending, Settled, minted.serial, proof) /\ visible = After(durable, pending)
    BY DEF Inv, Files
  <1>3. mem.copy = CopyOn(visible) BY DEF Inv, Memory
  <1> QED BY <1>1, <1>2, <1>3, RestartStep

\* The machine stops, and starts again with what it has kept.
LEMMA PowerLossInv ==
    ASSUME Parameters, ~Member, Inv, PowerLoss
    PROVE  /\ Inv' /\ RestoredInTime /\ att'[1].pc = "idle" /\ UNCHANGED acked
           /\ \E d \in PossibleDisks :
                 visible' = d /\ mem'.copy = CopyOn(d) /\ DisksOf(durable', pending') = {d}
  <1>1. crashes < MaxCrashes BY DEF PowerLoss
  <1>2. PICK d \in PossibleDisks :
           Restarted(d, cat.saved) /\ visible' = d /\ durable' = d /\ pending' = << >>
    BY DEF PowerLoss
  <1> DEFINE k == Settled
             s == minted.serial
  <1>3. /\ IsDisk(visible, k, s, proof) /\ IsDisk(durable, k, s, proof) /\ GoodOps(pending, k, s, proof)
    BY DEF Inv, Files
  <1>4. IsDisk(d, k, s, proof) /\ GoodOps(<< >>, k, s, proof)
    <2> HIDE DEF k, s
    <2> QED BY <1>3, PossibleGood, OpsNone
  <1>5. d = [n \in Names |-> d[n]] BY <1>4 DEF IsDisk
  <1>6. After(d, << >>) = d /\ DisksOf(d, << >>) = {d} BY <1>5, AfterNone, DisksSynced
  <1>7. Inv' /\ mem'.copy = CopyOn(d) /\ RestoredInTime /\ att'[1].pc = "idle" /\ UNCHANGED acked
    BY <1>1, <1>2, <1>4, <1>6, RestartStep
  <1> QED BY <1>2, <1>6, <1>7

\* What a step of a configured zone is: the catalog has none.
LEMMA Steps ==
    ASSUME ~Member, Inv, [Next]_vars
    PROVE  \/ Tick \/ ProcessCrash \/ PowerLoss \/ UNCHANGED vars
           \/ Begin(1) \/ StageFull(1) \/ StageIncremental(1) \/ Abandon(1)
           \/ Publish(1) \/ Finish(1) \/ FinishFails(1) \/ RenewChecksum(1) \/ RenewFails(1)
           \/ RenewFreshness(1) \/ RenewFreshnessFails(1) \/ Activate(1)
  <1>1. cat.pc = "idle" BY DEF Inv, Plain
  <1>2. ~CatalogAborts /\ ~CatalogPublish /\ ~ApplyRemoval /\ ~ApplyRename /\ ~ApplyListed
    BY <1>1 DEF CatalogAborts, CatalogPublish, ApplyRemoval, ApplyRename, ApplyListed
  <1>3. Attempts = {1} BY NamesAre
  <1> QED BY <1>2, <1>3 DEF Next

\* Nothing happens.
LEMMA StutterInv ==
    ASSUME Parameters, ~Member, Inv, UNCHANGED vars
    PROVE  Inv'
  <1>1. UNCHANGED <<now, visible, durable, pending, mem, plan, att, cat, minted, proof, acked, past, crashes>>
    BY DEF vars
  <1>2. Settled' = Settled BY <1>1 DEF Settled
  <1>3. Plain' BY <1>1 DEF Inv, Plain
  <1>4. History' BY <1>1, <1>2 DEF Inv, History
  <1>5. Files' BY <1>1, <1>2 DEF Inv, Files
  <1>6. Memory' BY <1>1 DEF Inv, Memory
  <1>7. Attempt(att[1])' BY <1>1 DEF Inv, Attempt, StagedOK
  <1>8. att' = [x \in {1} |-> att'[1]] BY <1>1 DEF Inv
  <1> QED BY <1>3, <1>4, <1>5, <1>6, <1>7, <1>8 DEF Inv

\* Every step of a configured zone keeps the invariant.
LEMMA NextInv ==
    ASSUME Parameters, ~Member, Inv, [Next]_vars
    PROVE  Inv'
  BY Steps, TickInv, ProcessCrashInv, PowerLossInv, StutterInv, BeginInv, StageFullInv,
     StageIncrementalInv, AbandonInv, PublishInv, FinishInv, FinishFailsInv, RenewChecksumInv,
     RenewFailsInv, RenewFreshnessInv, RenewFreshnessFailsInv, ActivateInv

\* The invariant.
LEMMA Invariance ==
    ASSUME Parameters, ~Member
    PROVE  Spec => []Inv
  <1>1. Init => Inv BY InitInv
  <1>2. Inv /\ [Next]_vars => Inv' BY NextInv
  <1> QED BY <1>1, <1>2, PTL DEF Spec

\* What the invariant says of every directory that a crash may leave.
LEMMA InvDisks ==
    ASSUME Parameters, ~Member, Inv, NEW d \in PossibleDisks
    PROVE  /\ IsDisk(d, Settled, minted.serial, proof) /\ Restore(d, 0).ok
           /\ Restore(d, 0).copy = CopyOn(d)
           /\ \/ d[BaseName] = NoFile /\ CopyOn(d) = NoCopy /\ Restore(d, 0).time = 0
              \/ /\ d[BaseName] # NoFile /\ CopyOn(d).content \in 1 .. Settled
                 /\ CopyOn(d).content \in Contents
                 /\ TimeOn(d) \in Nat /\ Restore(d, 0).time = TimeOn(d)
                 /\ TimeOn(d) <= proof[CopyOn(d).content]
                 /\ TimeOn(d) >= FreshTime(d, 0, CopyOn(d).serial, Active(d))
  <1> DEFINE k == Settled
             s == minted.serial
  <1>1. /\ IsDisk(visible, k, s, proof) /\ IsDisk(durable, k, s, proof) /\ GoodOps(pending, k, s, proof)
    BY DEF Inv, Files
  <1>2. k \in Nat /\ \A c \in 1 .. k : c \in Contents /\ proof[c] \in Nat BY SettledIs, ProofIs
  <1> HIDE DEF k, s
  <1>3. IsDisk(d, k, s, proof) BY <1>1, PossibleGood
  <1>4. /\ Restore(d, 0).copy = CopyOn(d) /\ Restore(d, 0).ok
        /\ d[BaseName] # NoFile =>
                 /\ TimeOn(d) \in Nat /\ TimeOn(d) <= proof[CopyOn(d).content]
                 /\ TimeOn(d) >= FreshTime(d, 0, CopyOn(d).serial, Active(d))
                 /\ Restore(d, 0).time = TimeOn(d)
        /\ d[BaseName] = NoFile => CopyOn(d) = NoCopy /\ Restore(d, 0).time = 0
    BY <1>2, <1>3, RestoredCopy
  <1>5. d[BaseName] # NoFile => CopyOn(d).content \in 1 .. k BY <1>3, ActiveIs
  <1> QED BY <1>2, <1>3, <1>4, <1>5 DEF k, s

-----------------------------------------------------------------------------
(* Theorems.                                                                *)

\* The variables keep their types, and the journal its bound, whatever the
\* disk does.
THEOREM TypeCorrect ==
    ASSUME Parameters, ~Member
    PROVE  Spec => []TypeOK
  <1>1. Inv => TypeOK
    <2> SUFFICES ASSUME Inv PROVE TypeOK OBVIOUS
    <2>1. /\ MaxContents \in Nat /\ minted.serial \in Nat /\ minted.serial <= minted.content + 1
          /\ minted.content \in 0 .. MaxContents /\ Settled <= minted.content /\ Settled \in Nat
      BY SettledIs DEF Inv, Plain
    <2>2. ASSUME NEW c, NEW k \in Nat, k <= minted.content, c = NoCopy \/ IsCopy(c, k, minted.serial)
          PROVE  c \in Copy
      BY <2>1, <2>2 DEF IsCopy, NoCopy, Copy
    <2>3. mem.copy \in Copy BY <2>1, <2>2, ServedIs
    <2>4. att[1].copy \in Copy /\ att[1].token = 0
      <3>1. minted.content \in Nat /\ minted.content <= minted.content BY <2>1
      <3> QED BY <2>2, <3>1, AttIs
    <2>5. IsDisk(visible, Settled, minted.serial, proof) /\ IsDisk(durable, Settled, minted.serial, proof)
          /\ GoodOps(pending, Settled, minted.serial, proof)
      BY DEF Inv, Files
    <2>6. DOMAIN visible = Names /\ DOMAIN durable = Names BY <2>5 DEF IsDisk
    <2>7. \A i \in DOMAIN pending : pending[i].name \in Names
      BY <2>5, SeqIs DEF GoodOps
    <2>8. visible[JournalName] # NoFile => Len(visible[JournalName].entries) \in 1 .. MaxEntries
      <3> SUFFICES ASSUME visible[JournalName] # NoFile
                   PROVE  Len(visible[JournalName].entries) \in 1 .. MaxEntries
        OBVIOUS
      <3>1. IsJournal(visible[JournalName], Settled, minted.serial, proof) BY <2>5, DiskFiles
      <3> DEFINE e == visible[JournalName].entries
      <3>2. e \in Seq(Entry) /\ 1 <= Len(e) /\ Len(e) <= MaxEntries BY <3>1 DEF IsJournal
      <3> HIDE DEF e
      <3>3. Len(e) \in Nat BY <3>2
      <3>4. Len(e) \in 1 .. MaxEntries BY <3>2, <3>3 DEF Parameters
      <3> QED BY <3>4 DEF e
    <2>9. \A t \in Tokens : visible[<<"journal", t>>] # NoFile =>
             Len(visible[<<"journal", t>>].entries) \in 1 .. MaxEntries
      BY <2>8, NamesAre DEF JournalName
    <2>10. minted.token \in 0 .. MaxTokens /\ past.life \cup past.ended \subseteq Tokens
      BY DEF Inv, Plain, Parameters
    <2>11. now \in 1 .. Max2(1, MaxTime) /\ crashes \in 0 .. MaxCrashes /\ mem.expired \in BOOLEAN
      BY DEF Inv, Plain, Memory
    <2> QED BY <2>1, <2>3, <2>4, <2>6, <2>7, <2>9, <2>10, <2>11, NamesAre DEF TypeOK
  <1> QED BY <1>1, Invariance, PTL

\* restore accepts whatever a crash leaves of what this program has written,
\* in any order of the directory operations and with any failed unlink, and
\* never applies a journal to another checkpoint than its own.
THEOREM RestoreIsAlwaysWhole ==
    ASSUME Parameters, ~Member
    PROVE  Spec => []RestoreIsWhole
  <1>1. Inv => RestoreIsWhole
    <2> SUFFICES ASSUME Inv, NEW d \in PossibleDisks
                 PROVE  Restore(d, 0).ok /\ Restore(d, 0).copy.content # Mixed
      BY NamesAre DEF RestoreIsWhole
    <2>1. Restore(d, 0).ok /\ Restore(d, 0).copy = CopyOn(d) /\ Settled \in Nat BY InvDisks, SettledIs
    <2>2. CopyOn(d) = NoCopy \/ CopyOn(d).content \in 1 .. Settled BY InvDisks
    <2>3. CopyOn(d).content # Mixed BY <2>1, <2>2 DEF NoCopy, Mixed
    <2> QED BY <2>1, <2>3
  <1> QED BY <1>1, Invariance, PTL

\* The age that a restart computes for a copy is never younger than the last
\* statement of a primary about that very content.
THEOREM FreshnessIsAlwaysEarned ==
    ASSUME Parameters, ~Member
    PROVE  Spec => []FreshnessIsEarned
  <1>1. Inv => FreshnessIsEarned
    <2> SUFFICES ASSUME Inv, NEW d \in PossibleDisks, Restore(d, 0).copy.content \in Contents
                 PROVE  Restore(d, 0).time <= proof[Restore(d, 0).copy.content]
      BY NamesAre DEF FreshnessIsEarned
    <2>1. Restore(d, 0).copy = CopyOn(d) BY InvDisks
    <2>2. CopyOn(d) # NoCopy
      <3>1. NoCopy.content = 0 /\ 0 \notin Contents BY DEF NoCopy, Contents
      <3> QED BY <2>1, <3>1
    <2> QED BY <2>1, <2>2, InvDisks
  <1> QED BY <1>1, Invariance, PTL

\* A copy that nobody has vouched for within SOA EXPIRE does not come back
\* ACTIVE from a restart.  (A member comes back without a copy at all.)
THEOREM RestoredAlwaysInTime ==
    ASSUME Parameters
    PROVE  Spec => [][RestoredInTime]_vars
  <1>1. CASE ~Member
    <2>1. Inv /\ [Next]_vars => [RestoredInTime]_vars
      <3> SUFFICES ASSUME Inv, [Next]_vars, ~UNCHANGED vars PROVE RestoredInTime OBVIOUS
      <3>1. CASE ProcessCrash BY <1>1, <3>1, ProcessCrashInv
      <3>2. CASE PowerLoss BY <1>1, <3>2, PowerLossInv
      <3>3. CASE crashes' = crashes BY <3>3 DEF RestoredInTime
      <3>4. \/ ProcessCrash \/ PowerLoss \/ crashes' = crashes
        BY <1>1, Steps DEF Tick, Begin, StageFull, StageIncremental, Abandon, Publish, Finish, FinishFails,
           RenewChecksum, RenewFails, RenewFreshness, RenewFreshnessFails, Activate
      <3> QED BY <3>1, <3>2, <3>3, <3>4
    <2> QED BY <1>1, <2>1, Invariance, PTL DEF Spec
  <1>2. CASE Member
    <2>1. [Next]_vars => [RestoredInTime]_vars
      <3> SUFFICES ASSUME Next PROVE RestoredInTime OBVIOUS
      <3>1. CASE ProcessCrash \/ PowerLoss
        <4>1. PICK d, ls : Restarted(d, ls) BY <3>1 DEF ProcessCrash, PowerLoss
        <4>2. mem' = [copy |-> NoCopy, expired |-> FALSE] BY <1>2, <4>1 DEF Restarted
        <4> QED BY <4>2 DEF RestoredInTime
      <3>2. CASE ~ProcessCrash /\ ~PowerLoss
        <4>1. crashes' = crashes
          BY <3>2 DEF Next, Tick, Begin, StageFull, StageIncremental, Abandon, Publish, Finish, FinishFails,
             RenewChecksum, RenewFails, RenewFreshness, RenewFreshnessFails, Activate,
             CatalogPrepare, CatalogAborts, CatalogPublish, ApplyRemoval, ApplyRename, ApplyListed
        <4> QED BY <4>1 DEF RestoredInTime
      <3> QED BY <3>1, <3>2
    <2> QED BY <2>1, PTL DEF Spec
  <1>3. Member \/ ~Member OBVIOUS
  <1> QED BY <1>1, <1>2, <1>3

-----------------------------------------------------------------------------
(* Directories that keep the order of the operations.                       *)

(* What restore makes of the directories that a crash may leave.            *)
Restorable ==
    \A d \in DisksOf(durable, pending) :
        /\ Restore(d, 0).copy = CopyOn(d)
        /\ \/ d[BaseName] = NoFile /\ CopyOn(d) = NoCopy
           \/ /\ d[BaseName] # NoFile /\ CopyOn(d).content \in Contents
              /\ Restore(d, 0).time \in Nat
              /\ Restore(d, 0).time >= FreshTime(d, 0, CopyOn(d).serial, Active(d))

\* The invariant says so.
LEMMA InvRestorable ==
    ASSUME Parameters, ~Member, ~Reorder, Inv
    PROVE  Restorable
  <1> SUFFICES ASSUME NEW d \in PossibleDisks
      PROVE /\ Restore(d, 0).copy = CopyOn(d)
            /\ \/ d[BaseName] = NoFile /\ CopyOn(d) = NoCopy
               \/ /\ d[BaseName] # NoFile /\ CopyOn(d).content \in Contents
                  /\ Restore(d, 0).time \in Nat
                  /\ Restore(d, 0).time >= FreshTime(d, 0, CopyOn(d).serial, Active(d))
    BY PossibleAre DEF Restorable
  <1> QED BY InvDisks

\* The directory as the process sees it is one of those.
LEMMA VisibleIsOne ==
    ASSUME Inv
    PROVE  visible \in DisksOf(durable, pending)
  <1>1. IsSeq(pending) /\ visible = After(durable, pending) BY DEF Inv, Files, GoodOps
  <1> QED BY <1>1, DisksVisible

\* Acknowledged confirmations are kept by a step that adds no directory.
LEMMA AckKept ==
    ASSUME AckInv, UNCHANGED acked, DisksOf(durable', pending') \subseteq DisksOf(durable, pending),
           att'[1].pc # "renewed" \/ att' = att
    PROVE  AckInv'
  <1> SUFFICES ASSUME NEW d \in DisksOf(durable', pending')
               PROVE  /\ d[BaseName] # NoFile => Restore(d, 0).time >= acked'[CopyOn(d).content]
                      /\ d[BaseName] # NoFile /\ att'[1].pc = "renewed" /\ CopyOn(d).content = att'[1].base.content =>
                             Restore(d, 0).time >= att'[1].time
    BY DEF AckInv, Kept, Renewed
  <1>1. d \in DisksOf(durable, pending) OBVIOUS
  <1>2. Kept(d) /\ Renewed(d) BY <1>1 DEF AckInv
  <1> QED BY <1>2 DEF Kept, Renewed

\* Initially nothing is acknowledged.
LEMMA AckInit ==
    ASSUME Parameters, ~Member, Init
    PROVE  AckInv
  <1>1. durable = [n \in Names |-> NoFile] /\ pending = << >> BY DEF Init
  <1>2. DisksOf(durable, pending) = {durable} BY <1>1, DisksSynced
  <1>3. durable[BaseName] = NoFile BY <1>1, NamesAre
  <1> QED BY <1>2, <1>3 DEF AckInv, Kept, Renewed

\* A renewed record is as young as every confirmation of its content.
LEMMA AckRenewed ==
    ASSUME Parameters, ~Member, Inv, Restorable', visible' \in DisksOf(durable', pending'),
           visible'[BaseName] # NoFile, CopyOn(visible') = CopyOn(visible),
           FreshTime(visible', 0, CopyOn(visible').serial, Active(visible')) = att[1].time,
           CopyOn(visible) = att[1].base, att[1].time = proof[att[1].base.content]
    PROVE  /\ Restore(visible', 0).time >= att[1].time
           /\ Restore(visible', 0).time >= acked[CopyOn(visible').content]
  <1> DEFINE v == visible'
             c == CopyOn(v).content
  <1>1. /\ v[BaseName] # NoFile /\ c \in Contents /\ Restore(v, 0).time \in Nat
        /\ Restore(v, 0).time >= FreshTime(v, 0, CopyOn(v).serial, Active(v))
    BY DEF Restorable
  <1>2. att[1].time = proof[c] /\ FreshTime(v, 0, CopyOn(v).serial, Active(v)) = att[1].time OBVIOUS
  <1> HIDE DEF v, c
  <1>3. acked[c] <= proof[c] /\ proof[c] \in Nat /\ acked[c] \in Nat BY <1>1 DEF Inv, History
  <1>4. Restore(v, 0).time >= att[1].time /\ Restore(v, 0).time >= acked[c] BY <1>1, <1>2, <1>3
  <1> QED BY <1>4 DEF v, c

\* Every step keeps what has been acknowledged.
LEMMA AckNext ==
    ASSUME Parameters, ~Member, ~Reorder, Inv, Inv', Restorable, Restorable', AckInv, [Next]_vars
    PROVE  AckInv'
  <1>1. visible \in DisksOf(durable, pending) BY VisibleIsOne
  <1>2. CASE Tick \/ UNCHANGED vars BY <1>2, AckKept DEF Tick, vars
  <1>3. CASE Begin(1)
    <2>1. att'[1].pc = "begun"
      <3>1. att' = [att EXCEPT ![1] = [Idle EXCEPT !.pc = "begun", !.gen = plan.gen,
                               !.token = plan.token, !.base = mem.copy]]
        BY <1>3 DEF Begin
      <3> QED BY <3>1, AttIs DEF Idle
    <2> QED BY <1>3, <2>1, AckKept DEF Begin
  <1>4. CASE StageFull(1) \/ StageIncremental(1)
    <2>1. PICK t, f : Staged(1, t, f) BY <1>4 DEF StageFull, StageIncremental
    <2>2. att'[1].pc = "staged" BY <2>1, AttIs DEF Staged, Fields
    <2> QED BY <1>4, <2>2, AckKept DEF StageFull, StageIncremental
  <1>5. CASE Abandon(1) \/ FinishFails(1) \/ RenewFails(1)
    <2>1. att'[1].pc = "idle" BY <1>5, IdleAtt DEF Abandon, FinishFails, RenewFails
    <2> QED BY <1>5, <2>1, AckKept DEF Abandon, FinishFails, RenewFails
  <1>6. CASE RenewChecksum(1)
    <2>1. att' = [att EXCEPT ![1].pc = "summed", ![1].time = now,
                          ![1].file = ActiveSum(att[1].token)]
      BY <1>6 DEF RenewChecksum
    <2>2. att'[1].pc = "summed" BY <2>1, AttIs DEF Fields
    <2> QED BY <1>6, <2>2, AckKept DEF RenewChecksum
  <1>7. CASE Finish(1)
    <2>1. DisksOf(durable', pending') = {visible} BY <1>7, FinishInv
    <2>2. att'[1].pc = "idle" /\ UNCHANGED acked BY <1>7, IdleAtt DEF Finish
    <2> QED BY <1>1, <2>1, <2>2, AckKept
  <1>8. CASE ProcessCrash BY <1>8, ProcessCrashInv, AckKept
  <1>9. CASE PowerLoss
    <2>1. /\ att'[1].pc = "idle" /\ UNCHANGED acked
          /\ \E d \in PossibleDisks : DisksOf(durable', pending') = {d}
      BY <1>9, PowerLossInv
    <2>2. DisksOf(durable', pending') \subseteq DisksOf(durable, pending) BY <2>1, PossibleAre
    <2> QED BY <2>1, <2>2, AckKept
  <1>10. CASE Publish(1)
    <2>1. /\ att[1].copy.content = minted.content /\ att[1].pc = "staged" /\ UNCHANGED acked
          /\ \A d \in DisksOf(durable', pending') :
                 \/ d \in DisksOf(durable, pending)
                 \/ d[BaseName] # NoFile /\ CopyOn(d) = att[1].copy
      BY <1>10, PublishInv
    <2>2. att'[1].pc = "published"
      <3>1. att' = [att EXCEPT ![1].pc = "published"] BY <1>10 DEF Publish
      <3> QED BY <3>1, AttIs DEF Fields
    <2> SUFFICES ASSUME NEW d \in DisksOf(durable', pending'), d[BaseName] # NoFile
                 PROVE  Restore(d, 0).time >= acked[CopyOn(d).content]
      BY <2>1, <2>2 DEF AckInv, Kept, Renewed
    <2>3. CASE d \in DisksOf(durable, pending) BY <2>3 DEF AckInv, Kept
    <2>4. CASE CopyOn(d) = att[1].copy
      <3> DEFINE c == minted.content
      <3>1. CopyOn(d).content = c BY <2>1, <2>4
      <3>2. c \in Contents /\ Restore(d, 0).time \in Nat BY <3>1 DEF Restorable
      <3>3. Settled = c - 1 /\ c \in Nat BY <2>1, SettledIs
      <3>4. acked[c] \in Nat /\ (acked[c] > 0 => c <= Settled) BY <3>2 DEF Inv, History
      <3> HIDE DEF c
      <3>5. acked[c] = 0 BY <3>3, <3>4
      <3> QED BY <3>1, <3>2, <3>5
    <2> QED BY <2>1, <2>3, <2>4
  <1>11. CASE RenewFreshness(1)
    <2>1. /\ DisksOf(durable', pending') = {visible'}
          /\ CopyOn(visible') = CopyOn(visible) /\ visible'[BaseName] # NoFile
          /\ FreshTime(visible', 0, CopyOn(visible').serial, Active(visible')) = att[1].time
          /\ CopyOn(visible) = att[1].base /\ att[1].time = proof[att[1].base.content]
          /\ att'[1].time = att[1].time
      BY <1>11, RenewFreshnessInv
    <2>2. /\ Restore(visible', 0).time >= att[1].time
          /\ Restore(visible', 0).time >= acked[CopyOn(visible').content]
      BY <2>1, AckRenewed
    <2>3. UNCHANGED acked BY <1>11 DEF RenewFreshness
    <2> QED BY <2>1, <2>2, <2>3 DEF AckInv, Kept, Renewed
  <1>12. CASE RenewFreshnessFails(1)
    <2>1. att'[1].pc = "idle" /\ UNCHANGED acked BY <1>12, IdleAtt DEF RenewFreshnessFails
    <2>2. CASE UNCHANGED <<visible, durable, pending>> BY <2>1, <2>2, AckKept
    <2>3. CASE /\ DisksOf(durable', pending') = DisksOf(durable, pending) \cup {visible'}
               /\ CopyOn(visible') = CopyOn(visible) /\ visible'[BaseName] # NoFile
               /\ FreshTime(visible', 0, CopyOn(visible').serial, Active(visible')) = att[1].time
               /\ CopyOn(visible) = att[1].base /\ att[1].time = proof[att[1].base.content]
      <3>1. visible' \in DisksOf(durable', pending') BY <2>3
      <3>2. Restore(visible', 0).time >= acked[CopyOn(visible').content] BY <2>3, <3>1, AckRenewed
      <3> SUFFICES ASSUME NEW d \in DisksOf(durable', pending'), d[BaseName] # NoFile
                   PROVE  Restore(d, 0).time >= acked[CopyOn(d).content]
        BY <2>1 DEF AckInv, Kept, Renewed
      <3>3. CASE d = visible' BY <3>2, <3>3
      <3>4. CASE d \in DisksOf(durable, pending) BY <3>4 DEF AckInv, Kept
      <3> QED BY <2>3, <3>3, <3>4
    <2> QED BY <1>12, <2>2, <2>3, RenewFreshnessFailsInv
  <1>13. CASE Activate(1)
    <2>1. /\ att[1].pc = "renewed" /\ UNCHANGED <<durable, pending>>
          /\ \/ UNCHANGED acked
             \/ /\ mem.copy = att[1].base
                /\ acked' = [acked EXCEPT ![mem.copy.content] = att[1].time]
      BY <1>13 DEF Activate
    <2>2. att'[1].pc = "idle" BY <1>13, IdleAtt DEF Activate
    <2>3. CASE UNCHANGED acked BY <2>1, <2>2, <2>3, AckKept
    <2>4. CASE /\ mem.copy = att[1].base
               /\ acked' = [acked EXCEPT ![mem.copy.content] = att[1].time]
      <3> SUFFICES ASSUME NEW d \in DisksOf(durable, pending), d[BaseName] # NoFile
                   PROVE  Restore(d, 0).time >= acked'[CopyOn(d).content]
        BY <2>1, <2>2 DEF AckInv, Kept, Renewed
      <3> DEFINE c == CopyOn(d).content
      <3>1. c \in Contents BY DEF Restorable
      <3>2. Kept(d) /\ Renewed(d) BY DEF AckInv
      <3>3. acked \in [Contents -> Nat] BY DEF Inv, History
      <3>4. acked' = [acked EXCEPT ![att[1].base.content] = att[1].time] BY <2>4
      <3>5. CASE c = att[1].base.content
        <4>1. acked'[c] = att[1].time BY <3>1, <3>3, <3>4, <3>5
        <4> QED BY <4>1, <3>2, <3>5, <2>1 DEF Renewed
      <3>6. CASE c # att[1].base.content
        <4>1. acked'[c] = acked[c] BY <3>1, <3>3, <3>4, <3>6
        <4> QED BY <4>1, <3>2 DEF Kept
      <3> QED BY <3>5, <3>6
    <2> QED BY <2>1, <2>3, <2>4
  <1> QED BY <1>2, <1>3, <1>4, <1>5, <1>6, <1>7, <1>8, <1>9, <1>10, <1>11, <1>12, <1>13, Steps

\* No crash takes an acknowledged confirmation of the served copy back.
THEOREM AckIsAlwaysDurable ==
    ASSUME Parameters, ~Member, ~Reorder
    PROVE  Spec => []AckIsDurable
  <1>1. Inv => Restorable BY InvRestorable
  <1>2. Init => AckInv BY AckInit
  <1>3. Inv /\ Inv' /\ Restorable /\ Restorable' /\ AckInv /\ [Next]_vars => AckInv' BY AckNext
  <1>4. Inv /\ Restorable /\ AckInv => AckIsDurable
    <2> SUFFICES ASSUME Inv, Restorable, AckInv, mem.copy # NoCopy, NEW d \in PossibleDisks,
                        Restore(d, 0).copy = mem.copy
                 PROVE  Restore(d, 0).time >= acked[mem.copy.content]
      BY AttIs DEF AckIsDurable
    <2>1. d \in DisksOf(durable, pending) BY PossibleAre
    <2>2. Restore(d, 0).copy = CopyOn(d) /\ d[BaseName] # NoFile BY <2>1 DEF Restorable
    <2> QED BY <2>1, <2>2 DEF AckInv, Kept
  <1> QED BY <1>1, <1>2, <1>3, <1>4, Invariance, PTL DEF Spec

-----------------------------------------------------------------------------
(* The promise of LastGoodCopy.                                             *)

LastGood == INSTANCE LastGoodCopy WITH
    Copies <- Copy, serving <- mem.copy, saved <- Saved

(* The copies on the directories that a crash may leave.                    *)
CopiesOn(D) == { CopyOn(d) : d \in D }
SavedIs == Saved = CopiesOn(DisksOf(durable, pending))

\* Those are the saved ones.
LEMMA InvSaved ==
    ASSUME Parameters, ~Member, ~Reorder, Inv
    PROVE  SavedIs
  <1>1. Restorable BY InvRestorable
  <1>2. \A d \in DisksOf(durable, pending) : Restore(d, 0).copy = CopyOn(d) BY <1>1 DEF Restorable
  <1>3. Saved = { Restore(d, 0).copy : d \in DisksOf(durable, pending) } BY PossibleAre DEF Saved
  <1> QED BY <1>2, <1>3 DEF SavedIs, CopiesOn

\* A step that keeps the directories and the served copy is not seen.
LEMMA SavedKept ==
    ASSUME SavedIs, SavedIs', mem'.copy = mem.copy, UNCHANGED <<durable, pending>>
    PROVE  UNCHANGED LastGood!vars
  <1>1. Saved' = Saved BY DEF SavedIs
  <1> QED BY <1>1 DEF LastGood!vars

\* A step that leaves the served copy alone on disk settles it.
LEMMA SavedSettles ==
    ASSUME Inv, SavedIs', mem'.copy = mem.copy, NEW d, DisksOf(durable', pending') = {d},
           CopyOn(d) = CopyOn(visible)
    PROVE  LastGood!Settle
  <1>1. Saved' = {CopyOn(d)} BY DEF SavedIs, CopiesOn
  <1>2. mem.copy = CopyOn(visible) BY DEF Inv, Memory
  <1> QED BY <1>1, <1>2 DEF LastGood!Settle

\* Every step of the files is a step of the promise.
LEMMA RefinementStep ==
    ASSUME Parameters, ~Member, ~Reorder, Inv, Inv', SavedIs, SavedIs', [Next]_vars
    PROVE  [LastGood!Next]_(LastGood!vars)
  <1>1. visible \in DisksOf(durable, pending) BY VisibleIsOne
  <1>2. CASE \/ Tick \/ UNCHANGED vars \/ Begin(1) \/ StageFull(1) \/ StageIncremental(1) \/ Abandon(1)
             \/ FinishFails(1) \/ RenewFails(1) \/ RenewChecksum(1)
    <2>1. mem' = mem /\ UNCHANGED <<durable, pending>>
      BY <1>2 DEF Tick, vars, Begin, StageFull, StageIncremental, Abandon, FinishFails, RenewFails, RenewChecksum
    <2> QED BY <2>1, SavedKept
  <1>3. CASE Finish(1)
    <2>1. DisksOf(durable', pending') = {visible} /\ mem' = mem BY <1>3, FinishInv DEF Finish
    <2>2. LastGood!Settle BY <2>1, SavedSettles
    <2> QED BY <2>2 DEF LastGood!Next
  <1>4. CASE RenewFreshness(1)
    <2>1. DisksOf(durable', pending') = {visible'} /\ CopyOn(visible') = CopyOn(visible) /\ mem' = mem
      BY <1>4, RenewFreshnessInv DEF RenewFreshness
    <2>2. LastGood!Settle BY <2>1, SavedSettles
    <2> QED BY <2>2 DEF LastGood!Next
  <1>5. CASE RenewFreshnessFails(1)
    <2>1. mem' = mem BY <1>5 DEF RenewFreshnessFails
    <2>2. CASE UNCHANGED <<visible, durable, pending>> BY <2>1, <2>2, SavedKept
    <2>3. CASE /\ DisksOf(durable', pending') = DisksOf(durable, pending) \cup {visible'}
               /\ CopyOn(visible') = CopyOn(visible)
      <3>1. CopiesOn(DisksOf(durable', pending')) = CopiesOn(DisksOf(durable, pending))
        BY <1>1, <2>3 DEF CopiesOn
      <3>2. Saved' = Saved BY <3>1 DEF SavedIs
      <3> QED BY <2>1, <3>2 DEF LastGood!vars
    <2> QED BY <1>5, <2>2, <2>3, RenewFreshnessFailsInv
  <1>6. CASE Activate(1)
    <2>1. DOMAIN mem = {"copy", "expired"} BY DEF Inv, Memory
    <2>2. mem' = mem \/ mem' = [mem EXCEPT !.expired = FALSE] BY <1>6 DEF Activate
    <2>3. mem'.copy = mem.copy BY <2>1, <2>2
    <2>4. UNCHANGED <<durable, pending>> BY <1>6 DEF Activate
    <2> QED BY <2>3, <2>4, SavedKept
  <1>7. CASE ProcessCrash BY <1>7, ProcessCrashInv, SavedKept
  <1>8. CASE PowerLoss
    <2>1. PICK d \in PossibleDisks : mem'.copy = CopyOn(d) /\ DisksOf(durable', pending') = {d}
      BY <1>8, PowerLossInv
    <2>2. Saved' = {CopyOn(d)} BY <2>1 DEF SavedIs, CopiesOn
    <2>3. CopyOn(d) \in Saved BY <2>1, PossibleAre DEF SavedIs, CopiesOn
    <2>4. LastGood!Restart BY <2>1, <2>2, <2>3 DEF LastGood!Restart
    <2> QED BY <2>4 DEF LastGood!Next
  <1>9. CASE Publish(1)
    <2> DEFINE c == att[1].copy
    <2>1. /\ mem'.copy = c /\ IsCopy(c, minted.content, minted.serial)
          /\ DisksOf(durable, pending) \subseteq DisksOf(durable', pending')
          /\ \E d \in DisksOf(durable', pending') : d[BaseName] # NoFile /\ CopyOn(d) = c
          /\ \A d \in DisksOf(durable', pending') :
                 \/ d \in DisksOf(durable, pending)
                 \/ d[BaseName] # NoFile /\ CopyOn(d) = c
      BY <1>9, PublishInv
    <2>2. CopiesOn(DisksOf(durable', pending')) = CopiesOn(DisksOf(durable, pending)) \cup {c}
      BY <2>1 DEF CopiesOn
    <2>3. Saved' = Saved \cup {c} BY <2>2 DEF SavedIs
    <2>4. c \in Copy
      <3>1. /\ minted.content \in 0 .. MaxContents /\ minted.serial \in Nat
            /\ minted.serial <= minted.content + 1 /\ MaxContents \in Nat
        BY DEF Inv, Plain, Parameters
      <3> QED BY <2>1, <3>1 DEF IsCopy, Copy
    <2>5. LastGood!Publish BY <2>1, <2>3, <2>4 DEF LastGood!Publish
    <2> QED BY <2>5 DEF LastGood!Next
  <1> QED BY <1>2, <1>3, <1>4, <1>5, <1>6, <1>7, <1>8, <1>9, Steps

\* Checkpoint, journal and freshness record, with their renames, unlinks and
\* syncs, implement LastGoodCopy: a restart brings back what is served, or
\* was served before the last sync, never an older copy and never a mixture.
THEOREM FilesImplementLastGood ==
    ASSUME Parameters, ~Member, ~Reorder
    PROVE  Spec => LastGood!Spec
  <1>1. Inv => SavedIs BY InvSaved
  <1>2. Init => LastGood!Init
    <2> SUFFICES ASSUME Init PROVE mem.copy = NoCopy /\ Saved = {NoCopy} BY DEF LastGood!Init
    <2>1. Inv BY InitInv
    <2>2. SavedIs BY <2>1, InvSaved
    <2>3. durable = [n \in Names |-> NoFile] /\ pending = << >> /\ mem.copy = NoCopy BY DEF Init
    <2>4. DisksOf(durable, pending) = {durable} BY <2>3, DisksSynced
    <2>5. CopyOn(durable) = NoCopy BY <2>3, NamesAre DEF CopyOn
    <2> QED BY <2>2, <2>3, <2>4, <2>5 DEF SavedIs, CopiesOn
  <1>3. Inv /\ Inv' /\ SavedIs /\ SavedIs' /\ [Next]_vars => [LastGood!Next]_(LastGood!vars)
    BY RefinementStep
  <1> QED BY <1>1, <1>2, <1>3, Invariance, PTL DEF Spec, LastGood!Spec

-----------------------------------------------------------------------------
(* Catalog members: what a namespace holds and who may name it.             *)

(* The contents in a checkpoint or at the end of a journal are those that   *)
(* were fetched for the namespace the file is in.                           *)
Owned(n, f, m, own) ==
    /\ n[1] = "base" /\ f # NoFile =>
          f.copy.content \in 1 .. m /\ own[f.copy.content] = n[2]
    /\ n[1] = "journal" /\ f # NoFile =>
          /\ IsSeq(f.entries) /\ Len(f.entries) >= 1
          /\ LastOf(f.entries).to \in 1 .. m /\ own[LastOf(f.entries).to] = n[2]

OwnedDisk(d, m, own) ==
    /\ d = [n \in Names |-> d[n]]
    /\ \A n \in Names : Owned(n, d[n], m, own)

OwnedOps(o, m, own) ==
    /\ IsSeq(o)
    /\ \A i \in 1 .. Len(o) : Owned(o[i].name, o[i].file, m, own) /\ o[i].name[1] # "token"

TokenName(i) == <<"token", i>>

(* An attempt writes to the namespace it has captured, and what it has      *)
(* staged was fetched for it.                                               *)
StagedFor(r) == <<IF r.full THEN "base" ELSE "journal", r.token>>
Bound(r, m, own) ==
    /\ DOMAIN r = Fields
    /\ r.pc # "idle" => r.token \in Tokens
    /\ r.pc = "staged" => Owned(StagedFor(r), r.file, m, own)

Namespaces ==
    /\ OwnedDisk(visible, minted.content, past.owner)
    /\ OwnedDisk(durable, minted.content, past.owner)
    /\ OwnedOps(pending, minted.content, past.owner)
    /\ \A i \in Identities : durable[TokenName(i)] = visible[TokenName(i)]

Attempting ==
    /\ att = [a \in Attempts |-> att[a]]
    /\ \A a \in Attempts : Bound(att[a], minted.content, past.owner)

Shapes ==
    /\ DOMAIN minted = {"content", "token", "gen", "serial"}
    /\ minted.content \in Nat /\ minted.content <= MaxContents
    /\ minted.token \in Nat /\ minted.token <= MaxTokens
    /\ DOMAIN past = {"owner", "life", "ended"} /\ DOMAIN past.owner = Contents
    /\ DOMAIN cat = {"pc", "listed", "saved", "wanted", "renamed"}
    /\ cat.listed \in Identities \cup {Unlisted} /\ cat.wanted \in Identities \cup {Unlisted}
    /\ cat.saved \subseteq Identities \cup {Unlisted}
    /\ cat.pc \in {"idle", "prepared", "apply", "readd"}
    /\ cat.pc = "readd" => cat.listed # Unlisted /\ ~plan.listed

(* The tokens that the identities lead to: each its own, none of a life     *)
(* that has ended, and of the present life only that of the plan, which the *)
(* transition under way keeps.                                              *)
HasToken(i) == TokenOf(i) # NoFile
Current(i) ==
    /\ i = plan.identity /\ TokenOf(i).token = plan.token
    /\ cat.pc = "prepared" => i = cat.wanted
    /\ cat.pc = "apply" => i = cat.listed

Bindings ==
    /\ \A i \in Identities : HasToken(i) =>
          /\ TokenOf(i).token \in 1 .. minted.token
          /\ TokenOf(i).token \notin past.ended
          /\ \A j \in Identities : HasToken(j) /\ TokenOf(j).token = TokenOf(i).token => j = i
          /\ plan.listed /\ TokenOf(i).token \in past.life => Current(i)
    /\ past.life \subseteq 1 .. minted.token /\ past.ended \subseteq 1 .. minted.token
    /\ plan.listed =>
          /\ plan.token \in 1 .. minted.token /\ plan.token \in past.life /\ plan.identity \in Identities
          /\ cat.pc \in {"idle", "prepared"} => plan.identity = cat.listed
    /\ cat.pc = "prepared" /\ cat.renamed => cat.wanted # cat.listed

MInv == Namespaces /\ Attempting /\ Shapes /\ Bindings

\* A file stays in its namespace when contents are added.
LEMMA OwnedGrows ==
    ASSUME NEW n, NEW f, NEW m \in Nat, NEW own, NEW m2 \in Nat, NEW own2, m <= m2,
           \A c \in 1 .. m : own2[c] = own[c], Owned(n, f, m, own)
    PROVE  Owned(n, f, m2, own2)
  BY DEF Owned

\* So do all files of a directory and of a list of operations.
LEMMA OwnedAllGrow ==
    ASSUME NEW d, NEW o, NEW m \in Nat, NEW own, NEW m2 \in Nat, NEW own2, m <= m2,
           \A c \in 1 .. m : own2[c] = own[c]
    PROVE  /\ OwnedDisk(d, m, own) => OwnedDisk(d, m2, own2)
           /\ OwnedOps(o, m, own) => OwnedOps(o, m2, own2)
  <1>1. \A n, f : Owned(n, f, m, own) => Owned(n, f, m2, own2) BY OwnedGrows
  <1>2. OwnedDisk(d, m, own) => OwnedDisk(d, m2, own2) BY <1>1 DEF OwnedDisk
  <1>3. OwnedOps(o, m, own) => OwnedOps(o, m2, own2) BY <1>1 DEF OwnedOps
  <1> QED BY <1>2, <1>3

\* The name of an identity's token is none of a file of the cache.
LEMMA TokenNames ==
    ASSUME NEW i \in Identities
    PROVE  TokenName(i) \in Names /\ TokenName(i)[1] = "token"
  BY DEF TokenName, Names

\* The files of a namespace are in the directory.
LEMMA FileNames ==
    ASSUME NEW t \in Tokens
    PROVE  /\ <<"base", t>> \in Names /\ <<"journal", t>> \in Names /\ <<"fresh", t>> \in Names
  BY DEF Names

\* Operations that stay in their namespaces, on a directory that does, touch
\* no token.
LEMMA OwnedAfter ==
    ASSUME NEW d, NEW o, NEW m, NEW own, OwnedDisk(d, m, own), OwnedOps(o, m, own)
    PROVE  /\ OwnedDisk(After(d, o), m, own)
           /\ \A i \in Identities : After(d, o)[TokenName(i)] = d[TokenName(i)]
  <1>1. IsSeq(o) BY DEF OwnedOps
  <1>2. \A n \in Names : \/ After(d, o)[n] = d[n]
                         \/ \E i \in 1 .. Len(o) : o[i].name = n /\ After(d, o)[n] = o[i].file
    BY <1>1, AfterAt
  <1>3. \A n \in Names : Owned(n, After(d, o)[n], m, own) BY <1>2 DEF OwnedDisk, OwnedOps
  <1>4. ASSUME NEW i \in Identities PROVE After(d, o)[TokenName(i)] = d[TokenName(i)]
    <2>1. TokenName(i) \in Names /\ TokenName(i)[1] = "token" BY TokenNames
    <2> QED BY <1>2, <2>1 DEF OwnedOps
  <1> QED BY <1>3, <1>4, AfterIs DEF OwnedDisk

\* More operations of the kind.
LEMMA OwnedConcat ==
    ASSUME NEW o, NEW q, NEW m, NEW own, OwnedOps(o, m, own), OwnedOps(q, m, own)
    PROVE  OwnedOps(o \o q, m, own)
  <1> DEFINE u == o \o q
  <1>1. IsSeq(o) /\ IsSeq(q) BY DEF OwnedOps
  <1>2. /\ IsSeq(u) /\ Len(u) = Len(o) + Len(q)
        /\ \A i \in 1 .. Len(o) : u[i] = o[i]
        /\ \A i \in 1 .. Len(u) : i > Len(o) => u[i] = q[i - Len(o)]
    BY <1>1, SeqConcat
  <1>3. Len(o) \in Nat /\ Len(q) \in Nat BY <1>1, SeqIs
  <1> HIDE DEF u
  <1>4. ASSUME NEW i \in 1 .. Len(u)
        PROVE  Owned(u[i].name, u[i].file, m, own) /\ u[i].name[1] # "token"
    <2>1. CASE i <= Len(o)
      <3>1. i \in 1 .. Len(o) /\ u[i] = o[i] BY <2>1, <1>2, <1>3
      <3> QED BY <3>1 DEF OwnedOps
    <2>2. CASE i > Len(o)
      <3> DEFINE j == i - Len(o)
      <3>1. j \in 1 .. Len(q) /\ u[i] = q[j] BY <2>2, <1>2, <1>3
      <3> HIDE DEF j
      <3> QED BY <3>1 DEF OwnedOps
    <2> QED BY <2>1, <2>2, <1>2, <1>3
  <1>5. OwnedOps(u, m, own) BY <1>2, <1>4 DEF OwnedOps
  <1> QED BY <1>5 DEF u

\* No operation at all.
LEMMA OwnedNone ==
    ASSUME NEW m, NEW own
    PROVE  OwnedOps(<< >>, m, own)
  BY DEF OwnedOps, IsSeq

\* A single one.
LEMMA OwnedOne ==
    ASSUME NEW m, NEW own, NEW kind, NEW t, NEW f, kind # "token", Owned(<<kind, t>>, f, m, own)
    PROVE  OwnedOps(<<Op(kind, t, f)>>, m, own)
  <1> DEFINE o == <<Op(kind, t, f)>>
             n == <<kind, t>>
  <1>1. o \in Seq({Op(kind, t, f)}) /\ Len(o) = 1 /\ o[1].name = n /\ o[1].file = f
    BY DEF Op
  <1>2. n[1] # "token" OBVIOUS
  <1>3. IsSeq(o) BY <1>1 DEF IsSeq
  <1>4. Owned(n, f, m, own) OBVIOUS
  <1> HIDE DEF o, n
  <1>5. \A i \in 1 .. Len(o) : i = 1 BY <1>1
  <1>6. OwnedOps(o, m, own) BY <1>1, <1>2, <1>3, <1>4, <1>5 DEF OwnedOps
  <1> QED BY <1>6 DEF o

\* Removed files are in nobody's way.
LEMMA OwnedNoFile ==
    ASSUME NEW n, NEW m, NEW own
    PROVE  Owned(n, NoFile, m, own)
  BY DEF Owned

\* What a crash leaves of such a directory is one, with the same tokens.
LEMMA OwnedPossible ==
    ASSUME NEW m, NEW own, OwnedDisk(visible, m, own), OwnedDisk(durable, m, own),
           OwnedOps(pending, m, own), NEW d \in PossibleDisks,
           \A i \in Identities : durable[TokenName(i)] = visible[TokenName(i)]
    PROVE  OwnedDisk(d, m, own) /\ \A i \in Identities : d[TokenName(i)] = visible[TokenName(i)]
  <1>1. CASE Reorder
    <2>1. PICK kept : d = [n \in Names |-> IF n \in kept THEN visible[n] ELSE durable[n]]
      BY <1>1 DEF PossibleDisks
    <2>2. \A n \in Names : d[n] = visible[n] \/ d[n] = durable[n] BY <2>1
    <2>3. d = [n \in Names |-> d[n]] BY <2>1
    <2>4. \A i \in Identities : d[TokenName(i)] = visible[TokenName(i)] BY <2>2, TokenNames
    <2> QED BY <2>2, <2>3, <2>4 DEF OwnedDisk
  <1>2. CASE ~Reorder
    <2>1. PICK j \in 0 .. Len(pending) : d = After(durable, SubSeq(pending, 1, j))
      BY <1>2 DEF PossibleDisks, PrefixOf
    <2> DEFINE q == SubSeq(pending, 1, j)
    <2>2. IsSeq(pending) BY DEF OwnedOps
    <2>3. IsSeq(q) /\ Len(q) = j /\ \A i \in 1 .. j : q[i] = pending[i] BY <2>2, SeqPrefix
    <2>4. Len(pending) \in Nat BY <2>2, SeqIs
    <2> HIDE DEF q
    <2>5. \A i \in 1 .. Len(q) : i \in 1 .. Len(pending) /\ q[i] = pending[i] BY <2>3, <2>4
    <2>6. OwnedOps(q, m, own) BY <2>3, <2>5 DEF OwnedOps
    <2>7. d = After(durable, q) BY <2>1 DEF q
    <2> QED BY <2>6, <2>7, OwnedAfter
  <1> QED BY <1>1, <1>2

\* What restore returns from a namespace was fetched for it.
LEMMA RestoreOwned ==
    ASSUME NEW m, NEW own, NEW d, OwnedDisk(d, m, own), NEW t \in Tokens,
           Restore(d, t).copy.content \in Contents
    PROVE  own[Restore(d, t).copy.content] = t
  <1> DEFINE nb == <<"base", t>>
             nj == <<"journal", t>>
             b == d[nb]
             j == d[nj]
             entries == IF JournalBound(d, t) THEN j.entries ELSE << >>
             broken ==
               /\ JournalBound(d, t)
               /\ \/ b.copy.serial # j.serial
                  \/ \E i \in DOMAIN entries :
                       entries[i].old # IF i = 1 THEN j.serial ELSE entries[i - 1].new
             copy == Applied(b.copy, entries)
             written == IF entries = << >> THEN b.time ELSE entries[Len(entries)].time
             sum == IF JournalBound(d, t) THEN j ELSE b
             found == [ok |-> TRUE, copy |-> copy,
                       time |-> Max2(written, FreshTime(d, t, copy.serial, sum))]
             r == Restore(d, t)
  <1>1. r = CASE b = NoFile -> NothingRestored
              [] b # NoFile /\ broken -> RestoreRejected
              [] OTHER -> found
    BY DEF Restore
  <1>2. NothingRestored.copy.content = 0 /\ RestoreRejected.copy.content = 0
    BY DEF NothingRestored, RestoreRejected, NoCopy
  <1>3. 0 \notin Contents /\ Mixed \notin Contents BY DEF Contents, Mixed
  <1>4. found.copy = copy OBVIOUS
  <1>5. nb[1] = "base" /\ nb[2] = t /\ nj[1] = "journal" /\ nj[2] = t OBVIOUS
  <1>6. nb \in Names /\ nj \in Names BY FileNames
  <1>7. Owned(nb, b, m, own) /\ Owned(nj, j, m, own) BY <1>6 DEF OwnedDisk
  <1>8. JournalBound(d, t) => j # NoFile BY DEF JournalBound
  <1> HIDE DEF nb, nj
  <1>9. b # NoFile => own[b.copy.content] = t BY <1>5, <1>7 DEF Owned
  <1>10. JournalBound(d, t) => own[LastOf(j.entries).to] = t BY <1>5, <1>7, <1>8 DEF Owned
  <1> HIDE DEF b, j, broken, found, r
  <1>11. r.copy.content \in Contents => b # NoFile /\ r = found BY <1>1, <1>2, <1>3
  <1>12. r.copy.content \in Contents BY DEF r
  <1>13. r.copy = copy /\ b # NoFile BY <1>4, <1>11, <1>12
  <1>14. CASE entries = << >>
    <2>1. copy = b.copy BY <1>14 DEF Applied
    <2> QED BY <2>1, <1>9, <1>13 DEF r
  <1>15. CASE entries # << >>
    <2>1. JournalBound(d, t) /\ entries = j.entries BY <1>15
    <2> DEFINE e == j.entries
    <2>2. copy = Applied(b.copy, e) /\ e # << >> BY <1>15, <2>1
    <2> HIDE DEF e
    <2>3. copy.content = LastOf(e).to \/ copy.content = Mixed
      BY <2>2 DEF Applied, LastOf
    <2>4. copy.content = LastOf(e).to BY <2>3, <1>3, <1>12, <1>13
    <2> QED BY <2>1, <2>4, <1>10, <1>13 DEF r, e
  <1> QED BY <1>14, <1>15

-----------------------------------------------------------------------------
(* The steps of a member that touch neither the catalog nor the tokens.     *)

SameTokens == \A i \in Identities : visible'[TokenName(i)] = visible[TokenName(i)]

\* With the same tokens, plan, catalog and lives the bindings are the same.
LEMMA BindingsKept ==
    ASSUME Bindings, SameTokens, plan' = plan, cat' = cat, minted'.token = minted.token,
           past'.life = past.life, past'.ended = past.ended
    PROVE  Bindings'
  <1>1. \A i \in Identities : TokenOf(i)' = TokenOf(i) BY DEF SameTokens, TokenOf, TokenName
  <1>2. \A i \in Identities : HasToken(i)' = HasToken(i) BY <1>1 DEF HasToken
  <1>3. \A i \in Identities : Current(i)' = Current(i) BY <1>1 DEF Current
  <1> HIDE DEF TokenOf, HasToken, Current
  <1> QED BY <1>1, <1>2, <1>3 DEF Bindings

\* A step that only replaces an attempt's record.
LEMMA AttemptReplaced ==
    ASSUME Attempting, NEW a \in Attempts, NEW r, att' = [att EXCEPT ![a] = r],
           minted'.content = minted.content, past'.owner = past.owner,
           Bound(r, minted.content, past.owner)
    PROVE  Attempting'
  <1>1. att' = [b \in Attempts |-> IF b = a THEN r ELSE att[b]] BY DEF Attempting
  <1>2. \A b \in Attempts : att'[b] = IF b = a THEN r ELSE att[b] BY <1>1
  <1>3. att' = [b \in Attempts |-> att'[b]] BY <1>1
  <1>4. \A b \in Attempts : Bound(att'[b], minted.content, past.owner) BY <1>2 DEF Attempting
  <1> DEFINE m == minted'.content
             own == past'.owner
  <1>5. m = minted.content /\ own = past.owner OBVIOUS
  <1> HIDE DEF m, own
  <1>6. \A b \in Attempts : Bound(att'[b], m, own) BY <1>4, <1>5
  <1> QED BY <1>3, <1>6 DEF Attempting, m, own, Bound

\* The record of no attempt.
LEMMA IdleBound ==
    ASSUME NEW m, NEW own
    PROVE  Bound(Idle, m, own)
  BY DEF Bound, Idle, Fields

\* A record that keeps its namespace and has nothing staged.
LEMMA OtherPcBound ==
    ASSUME NEW r, NEW m, NEW own, DOMAIN r = Fields, r.token \in Tokens, r.pc # "staged"
    PROVE  Bound(r, m, own)
  BY DEF Bound

\* An attempt under way has a namespace.
LEMMA AttemptHas ==
    ASSUME Attempting, NEW a \in Attempts
    PROVE  /\ DOMAIN att[a] = Fields
           /\ att[a].pc # "idle" => att[a].token \in Tokens
           /\ att[a].pc = "staged" =>
                 Owned(StagedFor(att[a]), att[a].file, minted.content, past.owner)
  BY DEF Attempting, Bound

\* A step of an attempt that leaves directory, contents and catalog alone.
LEMMA QuietStep ==
    ASSUME MInv, UNCHANGED <<visible, durable, pending, plan, cat, minted, past>>, Attempting'
    PROVE  MInv'
  <1>1. Namespaces' BY DEF MInv, Namespaces, OwnedDisk, OwnedOps, Owned
  <1>2. SameTokens BY DEF SameTokens
  <1>3. Bindings' BY <1>2, BindingsKept DEF MInv
  <1>4. Shapes' BY DEF MInv, Shapes
  <1> QED BY <1>1, <1>3, <1>4 DEF MInv

\* Directory operations that stay in their namespaces, synced or not.
LEMMA NamespacesKept ==
    ASSUME Namespaces, NEW o, OwnedOps(o, minted.content, past.owner),
           minted'.content = minted.content, past'.owner = past.owner,
           Write(o) \/ WriteAndSync(o)
    PROVE  Namespaces' /\ SameTokens
  <1> DEFINE m == minted.content
             own == past.owner
             v == After(visible, o)
  <1>1. OwnedDisk(visible, m, own) /\ OwnedDisk(durable, m, own) /\ OwnedOps(pending, m, own)
    BY DEF Namespaces
  <1>2. OwnedDisk(v, m, own) /\ \A i \in Identities : v[TokenName(i)] = visible[TokenName(i)]
    BY <1>1, OwnedAfter
  <1>3. OwnedOps(pending \o o, m, own) /\ OwnedOps(<< >>, m, own) BY <1>1, OwnedConcat, OwnedNone
  <1>4. visible' = v BY DEF Write, WriteAndSync
  <1>5. \/ durable' = durable /\ pending' = pending \o o
        \/ durable' = v /\ pending' = << >>
    BY DEF Write, WriteAndSync
  <1>6. OwnedDisk(visible', m, own) /\ OwnedDisk(durable', m, own) /\ OwnedOps(pending', m, own)
    <2> HIDE DEF v, m, own
    <2> QED BY <1>1, <1>2, <1>3, <1>4, <1>5
  <1>7. \A i \in Identities : durable'[TokenName(i)] = visible'[TokenName(i)]
    <2> HIDE DEF v
    <2> QED BY <1>2, <1>4, <1>5 DEF Namespaces
  <1>8. SameTokens BY <1>2, <1>4 DEF SameTokens
  <1>9. /\ OwnedDisk(visible', minted'.content, past'.owner)
        /\ OwnedDisk(durable', minted'.content, past'.owner)
        /\ OwnedOps(pending', minted'.content, past'.owner)
    BY <1>6
  <1>10. Namespaces' BY <1>7, <1>9 DEF Namespaces, OwnedDisk, OwnedOps, Owned, TokenName
  <1> QED BY <1>8, <1>10

\* The initial state: nothing on disk, nothing listed.
LEMMA InitMInv ==
    ASSUME Parameters, Member, Init
    PROVE  MInv
  <1> USE DEF Init
  <1>1. Identities = {1, 2} /\ Unlisted = 0 BY DEF Identities, Unlisted
  <1>2. \A n \in Names : Owned(n, NoFile, minted.content, past.owner) BY OwnedNoFile
  <1>3. visible = [n \in Names |-> visible[n]] /\ \A n \in Names : visible[n] = NoFile OBVIOUS
  <1>4. OwnedDisk(visible, minted.content, past.owner) BY <1>2, <1>3 DEF OwnedDisk
  <1>5. OwnedOps(pending, minted.content, past.owner) BY OwnedNone
  <1>6. Namespaces BY <1>4, <1>5 DEF Namespaces
  <1>7. Attempting
    <2>1. Bound(Idle, minted.content, past.owner) BY IdleBound
    <2> QED BY <2>1 DEF Attempting
  <1>8. Shapes BY <1>1 DEF Shapes, Parameters
  <1>9. Bindings
    <2>1. \A i \in Identities : TokenOf(i) = NoFile BY TokenNames, <1>3 DEF TokenOf, TokenName
    <2>2. \A i \in Identities : ~HasToken(i) BY <2>1 DEF HasToken
    <2>3. ~plan.listed BY DEF NoPlan
    <2>4. past.life = {} /\ past.ended = {} /\ cat.pc = "idle" OBVIOUS
    <2> QED BY <2>2, <2>3, <2>4 DEF Bindings
  <1> QED BY <1>6, <1>7, <1>8, <1>9 DEF MInv

\* Nothing that the invariant is about changes.
LEMMA StutterMInv ==
    ASSUME MInv, UNCHANGED <<visible, durable, pending, plan, att, cat, minted, past>>
    PROVE  MInv'
  <1>1. Attempting' BY DEF MInv, Attempting, Bound, Owned, StagedFor
  <1> QED BY <1>1, QuietStep

\* An attempt ends.
LEMMA EndMInv ==
    ASSUME MInv, NEW a \in Attempts, att' = [att EXCEPT ![a] = Idle],
           UNCHANGED <<visible, durable, pending, plan, cat, minted, past>>
    PROVE  MInv'
  <1>1. Bound(Idle, minted.content, past.owner) BY IdleBound
  <1>2. Attempting' BY <1>1, AttemptReplaced DEF MInv
  <1> QED BY <1>2, QuietStep

\* An attempt begins with the plan's namespace.
LEMMA BeginMInv ==
    ASSUME Parameters, Member, MInv, NEW a \in Attempts, Begin(a)
    PROVE  MInv'
  <1> DEFINE r == [Idle EXCEPT !.pc = "begun", !.gen = plan.gen,
                               !.token = plan.token, !.base = mem.copy]
  <1>1. DOMAIN r = Fields /\ r.pc = "begun" /\ r.token = plan.token BY DEF Idle, Fields
  <1>2. plan.token \in Tokens
    BY DEF Begin, MInv, Bindings, Shapes, Tokens, Parameters
  <1>3. att' = [att EXCEPT ![a] = r] BY DEF Begin
  <1> HIDE DEF r
  <1>4. Bound(r, minted.content, past.owner) BY <1>1, <1>2, OtherPcBound
  <1>5. UNCHANGED <<visible, durable, pending, plan, cat, minted, past>> BY DEF Begin
  <1>6. Attempting' BY <1>3, <1>4, <1>5, AttemptReplaced DEF MInv
  <1> QED BY <1>5, <1>6, QuietStep

\* The digest is taken.
LEMMA RenewChecksumMInv ==
    ASSUME Parameters, Member, MInv, NEW a \in Attempts, RenewChecksum(a)
    PROVE  MInv'
  <1> DEFINE r == [att[a] EXCEPT !.pc = "summed", !.time = now, !.file = ActiveSum(att[a].token)]
  <1>1. Attempting BY DEF MInv
  <1>2. DOMAIN att[a] = Fields /\ att[a].token \in Tokens
    BY <1>1, AttemptHas DEF RenewChecksum, ConfirmStarts
  <1>3. DOMAIN r = Fields /\ r.pc = "summed" /\ r.token = att[a].token BY <1>2 DEF Fields
  <1>4. att' = [att EXCEPT ![a] = r] BY <1>1 DEF RenewChecksum, Attempting
  <1> HIDE DEF r
  <1>5. Bound(r, minted.content, past.owner) BY <1>2, <1>3, OtherPcBound
  <1>6. UNCHANGED <<visible, durable, pending, plan, cat, minted, past>> BY DEF RenewChecksum
  <1>7. Attempting' BY <1>1, <1>4, <1>5, <1>6, AttemptReplaced
  <1> QED BY <1>6, <1>7, QuietStep

\* Directory operations of an attempt, within its namespace.
LEMMA DiskMInv ==
    ASSUME MInv, NEW a \in Attempts, NEW r, att' = [att EXCEPT ![a] = r],
           Bound(r, minted.content, past.owner), UNCHANGED <<plan, cat, minted, past>>,
           NEW o, OwnedOps(o, minted.content, past.owner), Write(o) \/ WriteAndSync(o)
    PROVE  MInv'
  <1>1. Namespaces' /\ SameTokens BY NamespacesKept DEF MInv
  <1>2. Attempting' BY AttemptReplaced DEF MInv
  <1>3. Bindings' BY <1>1, BindingsKept DEF MInv
  <1>4. Shapes' BY DEF MInv, Shapes
  <1> QED BY <1>1, <1>2, <1>3, <1>4 DEF MInv

\* The directory sync.
LEMMA FinishMInv ==
    ASSUME MInv, NEW a \in Attempts, Finish(a)
    PROVE  MInv'
  <1>1. Bound(Idle, minted.content, past.owner) BY IdleBound
  <1>2. OwnedOps(<< >>, minted.content, past.owner) BY OwnedNone
  <1>3. WriteAndSync(<< >>) /\ att' = [att EXCEPT ![a] = Idle] /\ UNCHANGED <<plan, cat, minted, past>>
    BY DEF Finish
  <1> QED BY <1>1, <1>2, <1>3, DiskMInv

\* A freshness record says nothing about contents.
LEMMA FreshOwned ==
    ASSUME NEW a, NEW m, NEW own
    PROVE  OwnedOps(<<Op("fresh", att[a].token, FreshRecord(a))>>, m, own)
  <1> DEFINE t == att[a].token
             f == FreshRecord(a)
             n == <<"fresh", t>>
  <1>1. n[1] = "fresh" OBVIOUS
  <1> HIDE DEF f, t
  <1>2. Owned(n, f, m, own)
    <2> HIDE DEF n
    <2> QED BY <1>1 DEF Owned
  <1>3. OwnedOps(<<Op("fresh", t, f)>>, m, own) BY <1>2, OwnedOne
  <1> QED BY <1>3 DEF f, t

\* The freshness record is written and synced.
LEMMA RenewFreshnessMInv ==
    ASSUME MInv, NEW a \in Attempts, RenewFreshness(a)
    PROVE  MInv'
  <1> DEFINE r == [att[a] EXCEPT !.pc = "renewed"]
             o == <<Op("fresh", att[a].token, FreshRecord(a))>>
  <1>1. Attempting BY DEF MInv
  <1>2. DOMAIN att[a] = Fields /\ att[a].token \in Tokens
    BY <1>1, AttemptHas DEF RenewFreshness
  <1>3. DOMAIN r = Fields /\ r.pc = "renewed" /\ r.token = att[a].token BY <1>2 DEF Fields
  <1>4. att' = [att EXCEPT ![a] = r] BY <1>1 DEF RenewFreshness, Attempting
  <1> HIDE DEF r
  <1>5. Bound(r, minted.content, past.owner) BY <1>2, <1>3, OtherPcBound
  <1>6. UNCHANGED <<plan, cat, minted, past>> /\ WriteAndSync(o) BY DEF RenewFreshness
  <1>7. OwnedOps(o, minted.content, past.owner) BY FreshOwned
  <1> HIDE DEF o
  <1> QED BY <1>4, <1>5, <1>6, <1>7, DiskMInv

\* It is not, or not synced.
LEMMA RenewFreshnessFailsMInv ==
    ASSUME MInv, NEW a \in Attempts, RenewFreshnessFails(a)
    PROVE  MInv'
  <1> DEFINE o == <<Op("fresh", att[a].token, FreshRecord(a))>>
  <1>1. /\ att' = [att EXCEPT ![a] = Idle] /\ UNCHANGED <<plan, cat, minted, past>>
        /\ Write(o) \/ UNCHANGED <<visible, durable, pending>>
    BY DEF RenewFreshnessFails
  <1>2. OwnedOps(o, minted.content, past.owner) BY FreshOwned
  <1>3. Bound(Idle, minted.content, past.owner) BY IdleBound
  <1> HIDE DEF o
  <1>4. CASE Write(o) BY <1>1, <1>2, <1>3, <1>4, DiskMInv
  <1>5. CASE UNCHANGED <<visible, durable, pending>> BY <1>1, <1>5, EndMInv
  <1> QED BY <1>1, <1>4, <1>5

\* promote stays in the attempt's namespace, whichever unlinks fail.
LEMMA PromoteOwned ==
    ASSUME Attempting, NEW a \in Attempts, att[a].pc = "staged", NEW uj, NEW uf
    PROVE  OwnedOps(PromoteOps(a, uj, uf), minted.content, past.owner)
  <1> DEFINE m == minted.content
             own == past.owner
             t == att[a].token
             f == att[a].file
             kind == IF att[a].full THEN "base" ELSE "journal"
             o == <<Op(kind, t, f)>>
             xj == <<Op("journal", t, NoFile)>>
             xf == <<Op("fresh", t, NoFile)>>
             x == IF att[a].full /\ uj THEN xj ELSE << >>
             y == IF uf THEN xf ELSE << >>
  <1>1. PromoteOps(a, uj, uf) = (o \o x) \o y BY DEF PromoteOps
  <1>2. Owned(StagedFor(att[a]), f, m, own) BY AttemptHas
  <1>3. Owned(<<kind, t>>, f, m, own) BY <1>2 DEF StagedFor
  <1>4. kind # "token" OBVIOUS
  <1>5. Owned(<<"journal", t>>, NoFile, m, own) /\ Owned(<<"fresh", t>>, NoFile, m, own) BY OwnedNoFile
  <1> HIDE DEF m, own, t, f, kind
  <1>6. OwnedOps(o, m, own) BY <1>3, <1>4, OwnedOne
  <1>7. OwnedOps(xj, m, own) BY <1>5, OwnedOne
  <1>8. OwnedOps(xf, m, own) BY <1>5, OwnedOne
  <1>9. OwnedOps(<< >>, m, own) BY OwnedNone
  <1> HIDE DEF o, xj, xf
  <1>10. OwnedOps(x, m, own) /\ OwnedOps(y, m, own) BY <1>7, <1>8, <1>9
  <1> HIDE DEF x, y
  <1>11. OwnedOps(o \o x, m, own) BY <1>6, <1>10, OwnedConcat
  <1>12. OwnedOps((o \o x) \o y, m, own) BY <1>10, <1>11, OwnedConcat
  <1> QED BY <1>1, <1>12 DEF m, own

\* The staged file is promoted; the attempt is not the one it was.
LEMMA PublishMInv ==
    ASSUME MInv, NEW a \in Attempts, Publish(a)
    PROVE  MInv' /\ att' # att
  <1> DEFINE r == [att[a] EXCEPT !.pc = "published"]
  <1>1. Attempting BY DEF MInv
  <1>2. DOMAIN att[a] = Fields /\ att[a].token \in Tokens /\ att[a].pc = "staged"
    BY <1>1, AttemptHas DEF Publish
  <1>3. DOMAIN r = Fields /\ r.pc = "published" /\ r.token = att[a].token BY <1>2 DEF Fields
  <1>4. att' = [att EXCEPT ![a] = r] BY <1>1 DEF Publish, Attempting
  <1> HIDE DEF r
  <1>5. Bound(r, minted.content, past.owner) BY <1>2, <1>3, OtherPcBound
  <1>6. UNCHANGED <<plan, cat, minted, past>> BY DEF Publish
  <1>7. PICK uj \in Unlinked, uf \in Unlinked : Write(PromoteOps(a, uj, uf)) BY DEF Publish
  <1> DEFINE o == PromoteOps(a, uj, uf)
  <1>8. OwnedOps(o, minted.content, past.owner) BY <1>1, <1>2, PromoteOwned
  <1>9. Write(o) BY <1>7
  <1> HIDE DEF o
  <1>10. MInv' BY <1>4, <1>5, <1>6, <1>8, <1>9, DiskMInv
  <1>11. att'[a] = r BY <1>1, <1>4 DEF Attempting
  <1> QED BY <1>2, <1>3, <1>10, <1>11

\* The end of a journal to which an entry is appended.
LEMMA AppendedLast ==
    ASSUME NEW s, IsSeq(s), NEW e
    PROVE  IsSeq(Append(s, e)) /\ Len(Append(s, e)) >= 1 /\ LastOf(Append(s, e)) = e
  <1>1. PICK S : s \in Seq(S) BY DEF IsSeq
  <1>2. s \in Seq(S \cup {e}) BY <1>1
  <1>3. Append(s, e) \in Seq(S \cup {e}) /\ Len(Append(s, e)) = Len(s) + 1
        /\ Append(s, e)[Len(s) + 1] = e
    BY <1>2
  <1>4. Len(s) \in Nat BY <1>1
  <1> QED BY <1>3, <1>4 DEF LastOf, IsSeq

\* A journal that is staged ends with the content that was fetched.
LEMMA JournalWithOwned ==
    ASSUME NEW m, NEW own, OwnedDisk(visible, m, own), NEW t \in Tokens, NEW base, NEW copy,
           NEW m2, NEW own2, copy.content \in 1 .. m2, own2[copy.content] = t
    PROVE  Owned(<<"journal", t>>, JournalWith(t, base, copy), m2, own2)
  <1> DEFINE n == <<"journal", t>>
             j == visible[n]
             e == IF j = NoFile THEN << >> ELSE j.entries
             x == [old |-> base.serial, new |-> copy.serial,
                   from |-> base.content, to |-> copy.content, time |-> now]
             f == JournalWith(t, base, copy)
  <1>1. n \in Names /\ n[1] = "journal" /\ n[2] = t BY FileNames
  <1>2. f.entries = Append(e, x) BY DEF JournalWith
  <1>3. x.to = copy.content OBVIOUS
  <1>4. Owned(n, j, m, own) BY <1>1 DEF OwnedDisk
  <1> HIDE DEF n, x, f
  <1>5. IsSeq(e)
    <2>1. CASE j = NoFile
      <3>1. e = << >> BY <2>1
      <3>2. IsSeq(<< >>) BY DEF IsSeq
      <3> HIDE DEF e
      <3> QED BY <3>1, <3>2
    <2>2. CASE j # NoFile
      <3>1. e = j.entries BY <2>2
      <3> QED BY <3>1, <2>2, <1>1, <1>4 DEF Owned
    <2> QED BY <2>1, <2>2
  <1> HIDE DEF e
  <1>6. IsSeq(f.entries) /\ Len(f.entries) >= 1 /\ LastOf(f.entries) = x
    BY <1>2, <1>5, AppendedLast
  <1>7. LastOf(f.entries).to = copy.content BY <1>3, <1>6
  <1>8. Owned(n, f, m2, own2) BY <1>1, <1>6, <1>7 DEF Owned
  <1> QED BY <1>8 DEF n, f

\* So does a checkpoint.
LEMMA CheckpointOwned ==
    ASSUME NEW t, NEW copy, NEW m2, NEW own2, copy.content \in 1 .. m2, own2[copy.content] = t
    PROVE  Owned(<<"base", t>>, Checkpoint(copy), m2, own2)
  <1> DEFINE n == <<"base", t>>
             f == Checkpoint(copy)
  <1>1. n[1] = "base" /\ n[2] = t /\ f.copy = copy BY DEF Checkpoint
  <1> HIDE DEF n, f
  <1>2. Owned(n, f, m2, own2) BY <1>1 DEF Owned
  <1> QED BY <1>2 DEF n, f

\* A transfer is staged: the new content belongs to the attempt's namespace.
LEMMA StageMInv ==
    ASSUME Parameters, Member, MInv, NEW a \in Attempts, att[a].pc = "begun",
           minted.content < MaxContents, NEW serial, NEW full, Staged(a, serial, full),
           UNCHANGED <<visible, durable, pending, plan, cat>>
    PROVE  MInv'
  <1> DEFINE m == minted.content
             own == past.owner
             m2 == minted.content + 1
             t == att[a].token
             own2 == [past.owner EXCEPT ![m2] = t]
             copy == [serial |-> serial, content |-> m2]
             file == IF full THEN Checkpoint(copy) ELSE JournalWith(t, att[a].base, copy)
             r == [att[a] EXCEPT !.pc = "staged", !.copy = copy, !.full = full, !.file = file]
  <1>1. Attempting /\ Shapes /\ Namespaces BY DEF MInv
  <1>2. DOMAIN att[a] = Fields /\ t \in Tokens BY <1>1, AttemptHas
  <1>3. m \in Nat /\ m2 \in Nat /\ m2 \in Contents /\ DOMAIN own = Contents
    BY <1>1 DEF Shapes, Contents, Parameters
  <1>4. own2[m2] = t /\ DOMAIN own2 = Contents /\ \A c \in 1 .. m : own2[c] = own[c]
    BY <1>3
  <1>5. /\ minted'.content = m2 /\ minted'.token = minted.token
        /\ DOMAIN minted' = {"content", "token", "gen", "serial"}
    BY <1>1 DEF Staged, Shapes
  <1>6. /\ past'.owner = own2 /\ past'.life = past.life /\ past'.ended = past.ended
        /\ DOMAIN past' = {"owner", "life", "ended"}
    BY <1>1 DEF Staged, Shapes
  <1>7. /\ DOMAIN r = Fields /\ r.pc = "staged" /\ r.token = t /\ r.full = full /\ r.file = file
    BY <1>2 DEF Fields
  <1>8. att' = [att EXCEPT ![a] = r] BY <1>1 DEF Staged, Attempting
  <1>9. copy.content = m2 OBVIOUS
  <1>10. StagedFor(r) = <<IF full THEN "base" ELSE "journal", t>> BY <1>7 DEF StagedFor
  <1>11. OwnedDisk(visible, m, own) /\ OwnedDisk(durable, m, own) /\ OwnedOps(pending, m, own)
    BY <1>1 DEF Namespaces
  <1> HIDE DEF r, copy, own2, t
  <1>12. m2 \in 1 .. m2 /\ m <= m2 BY <1>3
  <1>13. copy.content \in 1 .. m2 /\ own2[copy.content] = t BY <1>4, <1>9, <1>12
  <1>14. Owned(StagedFor(r), file, m2, own2)
    <2>1. CASE full
      <3>1. StagedFor(r) = <<"base", t>> /\ file = Checkpoint(copy) BY <2>1, <1>10
      <3>2. Owned(<<"base", t>>, Checkpoint(copy), m2, own2)
        <4> HIDE DEF m2
        <4> QED BY <1>13, CheckpointOwned
      <3> QED BY <3>1, <3>2
    <2>2. CASE ~full
      <3> DEFINE base == att[a].base
      <3>1. StagedFor(r) = <<"journal", t>> /\ file = JournalWith(t, base, copy) BY <2>2, <1>10
      <3>2. Owned(<<"journal", t>>, JournalWith(t, base, copy), m2, own2)
        <4> HIDE DEF m2, m, own, base
        <4> QED BY <1>2, <1>11, <1>13, JournalWithOwned
      <3> QED BY <3>1, <3>2
    <2> QED BY <2>1, <2>2
  <1> HIDE DEF file
  <1>15. Bound(r, m2, own2) BY <1>2, <1>7, <1>14 DEF Bound
  <1>16. \A n, f : Owned(n, f, m, own) => Owned(n, f, m2, own2)
    <2> HIDE DEF m2, m, own
    <2> QED BY <1>3, <1>4, <1>12, OwnedGrows
  <1>17. \A d, o : (OwnedDisk(d, m, own) => OwnedDisk(d, m2, own2))
                   /\ (OwnedOps(o, m, own) => OwnedOps(o, m2, own2))
    <2> HIDE DEF m2, m, own
    <2> QED BY <1>3, <1>4, <1>12, OwnedAllGrow
  <1>18. \A b \in Attempts : att'[b] = IF b = a THEN r ELSE att[b] BY <1>1, <1>8 DEF Attempting
  <1>19. att' = [b \in Attempts |-> att'[b]] BY <1>1, <1>8 DEF Attempting
  <1>20. \A b \in Attempts : Bound(att[b], m2, own2)
    <2> HIDE DEF m2, own2
    <2>1. \A b \in Attempts : Bound(att[b], m, own) BY <1>1 DEF Attempting
    <2> HIDE DEF m, own
    <2> QED BY <2>1, <1>16 DEF Bound
  <1>21. \A b \in Attempts : Bound(att'[b], m2, own2) BY <1>15, <1>18, <1>20
  <1> DEFINE mm == minted'.content
             oo == past'.owner
  <1>22. mm = m2 /\ oo = own2 BY <1>5, <1>6
  <1> HIDE DEF mm, oo
  <1>23. Attempting'
    <2>1. \A b \in Attempts : Bound(att'[b], mm, oo) BY <1>21, <1>22
    <2> QED BY <1>19, <2>1 DEF Attempting, Bound, mm, oo
  <1>24. Namespaces'
    <2>1. OwnedDisk(visible, mm, oo) /\ OwnedDisk(durable, mm, oo) /\ OwnedOps(pending, mm, oo)
      BY <1>11, <1>17, <1>22
    <2> QED BY <2>1, <1>1 DEF Namespaces, OwnedDisk, OwnedOps, Owned, TokenName, mm, oo
  <1>25. Bindings' 
    <2>1. SameTokens BY DEF SameTokens
    <2> QED BY <2>1, <1>5, <1>6, BindingsKept DEF MInv
  <1>26. Shapes'
    <2>1. minted'.content \in Nat /\ minted'.content <= MaxContents BY <1>3, <1>5 DEF Parameters
    <2> QED BY <1>1, <1>4, <1>5, <1>6, <2>1 DEF Shapes
  <1> QED BY <1>23, <1>24, <1>25, <1>26 DEF MInv

-----------------------------------------------------------------------------
(* The catalog's steps.                                                     *)

\* A function on 1 .. n is a sequence.
LEMMA FunctionIsSeq ==
    ASSUME NEW n \in Nat, NEW s, s = [k \in 1 .. n |-> s[k]]
    PROVE  IsSeq(s) /\ Len(s) = n
  <1> DEFINE S == {s[k] : k \in 1 .. n}
  <1>1. s \in [1 .. n -> S] OBVIOUS
  <1>2. s \in Seq(S) BY <1>1
  <1>3. Len(s) = n BY <1>1, <1>2
  <1> QED BY <1>2, <1>3 DEF IsSeq

(* The place of an identity among those that get a token.                   *)
Rank(ids, i) == Cardinality({k \in ids : k <= i})

\* Each identity has a place of its own and each place an identity.
LEMMA Ranks ==
    ASSUME NEW ids, ids \subseteq {1, 2}
    PROVE  /\ Cardinality(ids) \in Nat
           /\ ids # {} => Cardinality(ids) > 0
           /\ \A i \in ids : Rank(ids, i) \in 1 .. Cardinality(ids)
           /\ \A i, j \in ids : Rank(ids, i) = Rank(ids, j) => i = j
           /\ \A k \in 1 .. Cardinality(ids) : \E i \in ids : Rank(ids, i) = k
           /\ \A i : ids = {i} => Cardinality(ids) = 1
  <1>1. Cardinality({}) = 0 BY FS_EmptySet
  <1>2. \A x : Cardinality({x}) = 1 BY FS_Singleton
  <1>3. Cardinality({1, 2}) = 2
    <2>1. IsFiniteSet({1}) BY FS_Singleton
    <2>2. {1, 2} = {1} \cup {2} /\ 2 \notin {1} OBVIOUS
    <2>3. Cardinality({1} \cup {2}) = Cardinality({1}) + 1 BY <2>1, <2>2, FS_AddElement
    <2> QED BY <2>2, <2>3, <1>2
  <1>4. ids = {} \/ ids = {1} \/ ids = {2} \/ ids = {1, 2} OBVIOUS
  <1>5. CASE ids = {} BY <1>1, <1>2, <1>5
  <1>6. CASE ids = {1}
    <2>1. {k \in ids : k <= 1} = {1} BY <1>6
    <2>2. Rank(ids, 1) = 1 BY <2>1, <1>2 DEF Rank
    <2>3. Cardinality(ids) = 1 BY <1>2, <1>6
    <2> QED BY <2>2, <2>3, <1>6
  <1>7. CASE ids = {2}
    <2>1. {k \in ids : k <= 2} = {2} BY <1>7
    <2>2. Rank(ids, 2) = 1 BY <2>1, <1>2 DEF Rank
    <2>3. Cardinality(ids) = 1 BY <1>2, <1>7
    <2> QED BY <2>2, <2>3, <1>7
  <1>8. CASE ids = {1, 2}
    <2>1. {k \in ids : k <= 1} = {1} /\ {k \in ids : k <= 2} = {1, 2} BY <1>8
    <2>2. Rank(ids, 1) = 1 /\ Rank(ids, 2) = 2 BY <2>1, <1>2, <1>3 DEF Rank
    <2>3. Cardinality(ids) = 2 BY <1>3, <1>8
    <2> QED BY <2>2, <2>3, <1>8
  <1> QED BY <1>4, <1>5, <1>6, <1>7, <1>8

\* Tokens that are written are new, one for each identity, and are synced; no
\* other file changes.
LEMMA TokensWritten ==
    ASSUME Parameters, Member, Namespaces, Shapes, NEW ids, ids \subseteq {1, 2}, NEW extra,
           WriteTokens(ids, extra), past'.owner = past.owner
    PROVE  /\ Namespaces'
           /\ \A i \in Identities : i \notin ids => TokenOf(i)' = TokenOf(i)
           /\ \A i \in ids : /\ TokenOf(i)' # NoFile
                             /\ TokenOf(i)'.token = minted.token + Rank(ids, i)
           /\ minted'.token = minted.token + Cardinality(ids) /\ minted'.token <= MaxTokens
           /\ minted'.content = minted.content
           /\ DOMAIN minted' = {"content", "token", "gen", "serial"}
  <1> DEFINE N == Cardinality(ids)
             at(k) == CHOOSE i \in ids : Cardinality({m \in ids : m <= i}) = k
             file(i) == [kind |-> "token", token |-> Rotated(ids)[i]]
             o == [k \in 1 .. N |-> LET i == CHOOSE i \in ids : Cardinality({m \in ids : m <= i}) = k
                                    IN  Op("token", i, [kind |-> "token", token |-> Rotated(ids)[i]])]
             m0 == minted.content
             own == past.owner
  <1>1. /\ N \in Nat /\ (ids # {} => N > 0)
        /\ \A i \in ids : Rank(ids, i) \in 1 .. N
        /\ \A i, j \in ids : Rank(ids, i) = Rank(ids, j) => i = j
        /\ \A k \in 1 .. N : \E i \in ids : Rank(ids, i) = k
    BY Ranks
  <1>2. /\ minted'.token = minted.token + N /\ minted'.token <= MaxTokens
        /\ minted'.content = m0 /\ DOMAIN minted' = {"content", "token", "gen", "serial"}
    BY DEF WriteTokens, Shapes
  <1>3. CASE ids = {}
    <2>1. UNCHANGED <<visible, durable, pending>> BY <1>3 DEF WriteTokens
    <2>2. Namespaces' BY <2>1, <1>2 DEF Namespaces, OwnedDisk, OwnedOps, Owned, TokenName
    <2>3. \A i \in Identities : TokenOf(i)' = TokenOf(i) BY <2>1 DEF TokenOf
    <2> QED BY <2>2, <2>3, <1>2, <1>3
  <1>4. CASE ids # {}
    <2>1. WriteAndSync(o) BY <1>4 DEF WriteTokens
    <2>2. visible' = After(visible, o) /\ durable' = visible' /\ pending' = << >>
      BY <2>1 DEF WriteAndSync
    <2>3. \A k \in 1 .. N : at(k) \in ids /\ Rank(ids, at(k)) = k BY <1>1 DEF Rank
    <2>4. \A k \in 1 .. N : o[k] = Op("token", at(k), file(at(k))) OBVIOUS
    <2>5. o = [k \in 1 .. N |-> o[k]] OBVIOUS
    <2> HIDE DEF o, at, N
    <2>6. IsSeq(o) /\ Len(o) = N BY <1>1, <2>5, FunctionIsSeq
    <2>7. \A k \in 1 .. N : o[k].name = TokenName(at(k)) /\ o[k].file = file(at(k))
      <3> SUFFICES ASSUME NEW k \in 1 .. N
                   PROVE  o[k].name = TokenName(at(k)) /\ o[k].file = file(at(k))
        OBVIOUS
      <3> DEFINE x == at(k)
                 f == file(x)
                 op == Op("token", x, f)
      <3>1. o[k] = op BY <2>4
      <3> HIDE DEF x, f
      <3>2. op.name = TokenName(x) /\ op.file = f BY DEF Op, TokenName
      <3> HIDE DEF op
      <3>3. o[k].name = TokenName(x) /\ o[k].file = f BY <3>1, <3>2
      <3> QED BY <3>3 DEF x, f
    <2>8. \A i \in ids : Rotated(ids)[i] = minted.token + Rank(ids, i) BY DEF Rotated, Rank
    <2>9. \A i \in ids : file(i) # NoFile /\ file(i).token = minted.token + Rank(ids, i)
      BY <2>8 DEF NoFile
    <2> HIDE DEF file
    <2>10. \A i, j : TokenName(i) = TokenName(j) => i = j BY DEF TokenName
    <2>11. Identities = {1, 2} BY DEF Identities
    <2>12. \A i \in Identities : TokenName(i) \in Names /\ TokenName(i)[1] = "token" BY TokenNames
    <2> DEFINE v == After(visible, o)
    <2>13. \A n \in Names : \/ (\A k \in 1 .. N : o[k].name # n) /\ v[n] = visible[n]
                            \/ \E k \in 1 .. N : o[k].name = n /\ v[n] = o[k].file
      BY <2>6, AfterAt
    <2>14. v = [n \in Names |-> v[n]] BY AfterIs
    <2> HIDE DEF v
    <2>15. ASSUME NEW i \in ids PROVE v[TokenName(i)] = file(i)
      <3>1. TokenName(i) \in Names BY <2>11, <2>12
      <3>2. PICK k \in 1 .. N : k = Rank(ids, i) BY <1>1
      <3>3. at(k) = i BY <3>2, <2>3, <1>1
      <3>4. o[k].name = TokenName(i) BY <3>3, <2>7
      <3>5. PICK j \in 1 .. N : o[j].name = TokenName(i) /\ v[TokenName(i)] = o[j].file
        BY <3>1, <3>4, <2>13
      <3>6. at(j) = i BY <3>5, <2>7, <2>10
      <3> QED BY <3>5, <3>6, <2>7
    <2>16. ASSUME NEW i \in Identities, i \notin ids PROVE v[TokenName(i)] = visible[TokenName(i)]
      <3>1. \A k \in 1 .. N : o[k].name # TokenName(i) BY <2>16, <2>3, <2>7, <2>10
      <3> QED BY <3>1, <2>12, <2>13
    <2>17. \A n \in Names : Owned(n, v[n], m0, own)
      <3> SUFFICES ASSUME NEW n \in Names PROVE Owned(n, v[n], m0, own) OBVIOUS
      <3>1. CASE v[n] = visible[n] BY <3>1 DEF Namespaces, OwnedDisk
      <3>2. CASE \E k \in 1 .. N : o[k].name = n
        <4>1. PICK k \in 1 .. N : o[k].name = n BY <3>2
        <4>2. n[1] = "token" BY <4>1, <2>3, <2>7, <2>11, <2>12
        <4> QED BY <4>2 DEF Owned
      <3> QED BY <3>1, <3>2, <2>13
    <2>18. OwnedDisk(v, m0, own) BY <2>14, <2>17 DEF OwnedDisk
    <2>19. OwnedOps(<< >>, m0, own) BY OwnedNone
    <2>20. visible' = v /\ durable' = v /\ pending' = << >> BY <2>2 DEF v
    <2>21. Namespaces'
      <3> DEFINE mm == minted'.content
                 oo == past'.owner
      <3>1. mm = m0 /\ oo = own BY <1>2
      <3> HIDE DEF mm, oo, m0, own
      <3>2. OwnedDisk(visible', mm, oo) /\ OwnedDisk(durable', mm, oo) /\ OwnedOps(pending', mm, oo)
        BY <3>1, <2>18, <2>19, <2>20
      <3>3. durable' = visible' BY <2>20
      <3> QED BY <3>2, <3>3 DEF Namespaces, OwnedDisk, OwnedOps, Owned, TokenName, mm, oo
    <2>22. \A i \in Identities : TokenOf(i) = visible[TokenName(i)] /\ TokenOf(i)' = v[TokenName(i)]
      BY <2>20 DEF TokenOf, TokenName
    <2>23. \A i \in Identities : i \notin ids => TokenOf(i)' = TokenOf(i) BY <2>16, <2>22
    <2>24. \A i \in ids : TokenOf(i)' # NoFile /\ TokenOf(i)'.token = minted.token + Rank(ids, i)
      BY <2>9, <2>11, <2>15, <2>22
    <2> QED BY <2>21, <2>23, <2>24, <1>2 DEF N
  <1> QED BY <1>3, <1>4

\* Removal unlinks files of one namespace, some or all of them.
LEMMA RemovedNamespaces ==
    ASSUME Namespaces, NEW t, RemoveFiles(t), minted'.content = minted.content, past'.owner = past.owner
    PROVE  Namespaces' /\ SameTokens
  <1>1. PICK k \in (IF Faults THEN 0..3 ELSE {3}) :
           LET ops == [i \in 1..k |-> Op(RemovedKinds(k)[i], t, NoFile)]
           IN  IF k = 3 THEN WriteAndSync(ops) ELSE Write(ops)
    BY DEF RemoveFiles
  <1> DEFINE kinds == <<"base", "fresh", "journal">>
             o == [i \in 1..k |-> Op(RemovedKinds(k)[i], t, NoFile)]
  <1>2. k \in 0 .. 3 OBVIOUS
  <1>3. kinds \in Seq({"base", "fresh", "journal"}) /\ Len(kinds) = 3 OBVIOUS
  <1>4. \A i \in 1 .. 3 : kinds[i] \in {"base", "fresh", "journal"} BY <1>3
  <1> HIDE DEF kinds
  <1>5. \A i \in 1 .. k : SubSeq(kinds, 1, k)[i] = kinds[i] /\ i \in 1 .. 3 BY <1>2, <1>3
  <1>6. \A i \in 1 .. k : RemovedKinds(k)[i] # "token" BY <1>4, <1>5 DEF RemovedKinds, kinds
  <1>7. \A i \in 1 .. k : o[i].name[1] # "token" /\ o[i].file = NoFile BY <1>6 DEF Op
  <1>8. o = [i \in 1 .. k |-> o[i]] OBVIOUS
  <1>9. Write(o) \/ WriteAndSync(o) BY <1>1
  <1> HIDE DEF o
  <1>10. IsSeq(o) /\ Len(o) = k BY <1>2, <1>8, FunctionIsSeq
  <1>11. \A i \in 1 .. k : Owned(o[i].name, o[i].file, minted.content, past.owner) BY <1>7, OwnedNoFile
  <1>12. OwnedOps(o, minted.content, past.owner) BY <1>7, <1>10, <1>11 DEF OwnedOps
  <1> QED BY <1>9, <1>12, NamespacesKept

\* The attempts under way go on as they were.
LEMMA AttemptingKept ==
    ASSUME Attempting, att' = att, minted'.content = minted.content, past'.owner = past.owner
    PROVE  Attempting'
  BY DEF Attempting, Bound, Owned, StagedFor

\* The same tokens, said of TokenOf.
LEMMA SameTokenOf ==
    ASSUME SameTokens
    PROVE  \A i \in Identities : TokenOf(i)' = TokenOf(i)
  BY DEF SameTokens, TokenOf, TokenName

\* What the bindings say of one identity with a token.
LEMMA BindingOf ==
    ASSUME Bindings, NEW i \in Identities, TokenOf(i) # NoFile
    PROVE  /\ TokenOf(i).token \in 1 .. minted.token
           /\ TokenOf(i).token \notin past.ended
           /\ \A j \in Identities : TokenOf(j) # NoFile /\ TokenOf(j).token = TokenOf(i).token => j = i
           /\ plan.listed /\ TokenOf(i).token \in past.life => Current(i)
  BY DEF Bindings, HasToken

\* The candidate is prepared: the plan's own token survives only if the
\* candidate keeps the plan's identity.
LEMMA CatalogPrepareMInv ==
    ASSUME Parameters, Member, MInv, NEW id \in Identities \cup {Unlisted}, NEW renamed \in BOOLEAN,
           CatalogPrepare(id, renamed)
    PROVE  MInv'
  <1> DEFINE ids == Missing(id) \cup Revoked(id)
  <1>1. Namespaces /\ Shapes /\ Bindings /\ Attempting BY DEF MInv
  <1>2. /\ cat.pc = "idle" /\ (renamed => id # cat.listed) /\ WriteTokens(ids, 0)
        /\ past' = past /\ plan' = plan /\ att' = att
    BY DEF CatalogPrepare
  <1>3. /\ cat'.pc = "prepared" /\ cat'.wanted = id /\ cat'.renamed = renamed
        /\ cat'.listed = cat.listed /\ cat'.saved = cat.saved
        /\ DOMAIN cat' = {"pc", "listed", "saved", "wanted", "renamed"}
    BY <1>1 DEF CatalogPrepare, Shapes
  <1>4. Identities = {1, 2} BY DEF Identities
  <1>5. plan.listed => plan.identity \in Identities /\ plan.token \in 1 .. minted.token
                       /\ plan.token \in past.life /\ plan.identity = cat.listed
    BY <1>1, <1>2 DEF Bindings
  <1>6. ids \subseteq {1, 2} BY <1>4, <1>5 DEF Missing, Revoked
  <1>7. ASSUME plan.listed, plan.identity \notin ids PROVE id = plan.identity
    <2>1. plan.token # 0 BY <1>5, <1>7, <1>1 DEF Shapes
    <2> QED BY <2>1, <1>7 DEF Revoked
  <1> HIDE DEF ids
  <1>8. /\ Cardinality(ids) \in Nat
        /\ \A i \in ids : Rank(ids, i) \in 1 .. Cardinality(ids)
        /\ \A i, j \in ids : Rank(ids, i) = Rank(ids, j) => i = j
    BY <1>6, Ranks
  <1>9. /\ Namespaces'
        /\ \A i \in Identities : i \notin ids => TokenOf(i)' = TokenOf(i)
        /\ \A i \in ids : /\ TokenOf(i)' # NoFile
                          /\ TokenOf(i)'.token = minted.token + Rank(ids, i)
        /\ minted'.token = minted.token + Cardinality(ids) /\ minted'.token <= MaxTokens
        /\ minted'.content = minted.content
        /\ DOMAIN minted' = {"content", "token", "gen", "serial"}
    BY <1>1, <1>2, <1>6, TokensWritten
  <1>10. minted.token \in Nat /\ minted'.token \in Nat /\ minted.token <= minted'.token
    BY <1>1, <1>8, <1>9 DEF Shapes
  <1>11. Attempting' BY <1>1, <1>2, <1>9, AttemptingKept
  <1>12. Shapes' BY <1>1, <1>2, <1>3, <1>9, <1>10 DEF Shapes
  <1>13. past.life \subseteq 1 .. minted.token /\ past.ended \subseteq 1 .. minted.token
    BY <1>1 DEF Bindings
  <1>14. \A i \in ids : TokenOf(i)'.token > minted.token /\ TokenOf(i)'.token \in 1 .. minted'.token
    BY <1>8, <1>9, <1>10
  <1>15. \A i, j \in ids : TokenOf(i)'.token = TokenOf(j)'.token => i = j
    BY <1>8, <1>9, <1>10, <1>6
  <1>16. ASSUME NEW i \in Identities, TokenOf(i)' # NoFile
         PROVE  /\ TokenOf(i)'.token \in 1 .. minted'.token
                /\ TokenOf(i)'.token \notin past.ended
                /\ plan.listed /\ TokenOf(i)'.token \in past.life =>
                      i = plan.identity /\ TokenOf(i)'.token = plan.token /\ i = id
    <2>1. CASE i \in ids BY <2>1, <1>10, <1>13, <1>14
    <2>2. CASE i \notin ids
      <3>1. TokenOf(i)' = TokenOf(i) BY <2>2, <1>9
      <3>2. /\ TokenOf(i).token \in 1 .. minted.token /\ TokenOf(i).token \notin past.ended
            /\ plan.listed /\ TokenOf(i).token \in past.life => Current(i)
        BY <3>1, <1>1, <1>16, BindingOf
      <3>3. Current(i) => i = plan.identity /\ TokenOf(i).token = plan.token BY DEF Current
      <3> HIDE DEF TokenOf
      <3>4. TokenOf(i)'.token \in 1 .. minted'.token BY <3>1, <3>2, <1>10
      <3> QED BY <3>1, <3>2, <3>3, <3>4, <2>2, <1>7
    <2> QED BY <2>1, <2>2
  <1>17. ASSUME NEW i \in Identities, NEW j \in Identities, TokenOf(i)' # NoFile, TokenOf(j)' # NoFile,
                TokenOf(i)'.token = TokenOf(j)'.token
         PROVE  j = i
    <2>1. \A x \in Identities : x \notin ids /\ TokenOf(x)' # NoFile => TokenOf(x)'.token <= minted.token
      <3> SUFFICES ASSUME NEW x \in Identities, x \notin ids, TokenOf(x)' # NoFile
                   PROVE  TokenOf(x)'.token <= minted.token
        OBVIOUS
      <3>1. TokenOf(x)' = TokenOf(x) BY <1>9
      <3>2. TokenOf(x).token \in 1 .. minted.token BY <3>1, <1>1, BindingOf
      <3> QED BY <3>1, <3>2, <1>10
    <2>2. CASE i \in ids /\ j \in ids BY <2>2, <1>15, <1>17
    <2>3. CASE i \in ids /\ j \notin ids BY <2>1, <2>3, <1>10, <1>14, <1>17
    <2>4. CASE i \notin ids /\ j \in ids BY <2>1, <2>4, <1>10, <1>14, <1>17
    <2>5. CASE i \notin ids /\ j \notin ids
      <3>1. TokenOf(i)' = TokenOf(i) /\ TokenOf(j)' = TokenOf(j) BY <2>5, <1>9
      <3> QED BY <3>1, <1>1, <1>17, BindingOf
    <2> QED BY <2>2, <2>3, <2>4, <2>5
  <1>18. Bindings'
    <2>1. \A i \in Identities : HasToken(i)' = (TokenOf(i)' # NoFile) BY DEF HasToken
    <2>2. \A i \in Identities : i = plan.identity /\ TokenOf(i)'.token = plan.token /\ i = id => Current(i)'
      BY <1>2, <1>3 DEF Current
    <2>3. past'.life \subseteq 1 .. minted'.token /\ past'.ended \subseteq 1 .. minted'.token
      BY <1>2, <1>10, <1>13
    <2>4. plan'.listed =>
             /\ plan'.token \in 1 .. minted'.token /\ plan'.token \in past'.life
             /\ plan'.identity \in Identities /\ plan'.identity = cat'.listed
      BY <1>2, <1>3, <1>5, <1>10
    <2>5. cat'.renamed => cat'.wanted # cat'.listed BY <1>2, <1>3
    <2> HIDE DEF TokenOf, HasToken, Current
    <2> QED BY <2>1, <2>2, <2>3, <2>4, <2>5, <1>2, <1>3, <1>16, <1>17 DEF Bindings
  <1> QED BY <1>9, <1>11, <1>12, <1>18 DEF MInv

\* An untouched directory.
LEMMA NamespacesSame ==
    ASSUME Namespaces, UNCHANGED <<visible, durable, pending>>,
           minted'.content = minted.content, past'.owner = past.owner
    PROVE  Namespaces' /\ SameTokens
  <1> DEFINE mm == minted'.content
             oo == past'.owner
  <1>1. mm = minted.content /\ oo = past.owner OBVIOUS
  <1> HIDE DEF mm, oo
  <1>2. OwnedDisk(visible, mm, oo) /\ OwnedDisk(durable, mm, oo) /\ OwnedOps(pending, mm, oo)
    BY <1>1 DEF Namespaces
  <1>3. Namespaces' BY <1>2 DEF Namespaces, OwnedDisk, OwnedOps, Owned, mm, oo
  <1> QED BY <1>3 DEF SameTokens

\* Tokens and lives are the same, and the plan and the catalog make no more
\* of them than before.
LEMMA BindingsFollow ==
    ASSUME Bindings, \A i \in Identities : TokenOf(i)' = TokenOf(i), minted'.token = minted.token,
           past'.life = past.life, past'.ended = past.ended,
           \/ ~plan'.listed
           \/ /\ plan' = plan
              /\ \A i \in Identities : Current(i) => Current(i)'
              /\ cat'.pc \in {"idle", "prepared"} => plan.identity = cat'.listed,
           cat'.pc # "prepared"
    PROVE  Bindings'
  <1>1. \A i \in Identities : HasToken(i)' = HasToken(i) BY DEF HasToken
  <1> HIDE DEF TokenOf, HasToken, Current
  <1>2. past'.life \subseteq 1 .. minted'.token /\ past'.ended \subseteq 1 .. minted'.token
    BY DEF Bindings
  <1>3. CASE ~plan'.listed BY <1>1, <1>2, <1>3 DEF Bindings
  <1>4. CASE /\ plan' = plan
             /\ \A i \in Identities : Current(i) => Current(i)'
             /\ cat'.pc \in {"idle", "prepared"} => plan.identity = cat'.listed
    BY <1>1, <1>2, <1>4 DEF Bindings
  <1> QED BY <1>3, <1>4

\* The preparation is given up.
LEMMA CatalogAbortsMInv ==
    ASSUME Parameters, Member, MInv, CatalogAborts
    PROVE  MInv'
  <1>1. Namespaces /\ Shapes /\ Bindings /\ Attempting BY DEF MInv
  <1>2. /\ UNCHANGED <<visible, durable, pending, plan, att, minted, past>> /\ cat.pc = "prepared"
    BY DEF CatalogAborts
  <1>3. /\ cat'.pc = "idle" /\ cat'.wanted = Unlisted /\ cat'.listed = cat.listed /\ cat'.saved = cat.saved
        /\ DOMAIN cat' = {"pc", "listed", "saved", "wanted", "renamed"}
    BY <1>1 DEF CatalogAborts, Shapes
  <1>4. Namespaces' BY <1>1, <1>2, NamespacesSame
  <1>5. Attempting' BY <1>1, <1>2, AttemptingKept
  <1>6. Shapes' BY <1>1, <1>2, <1>3 DEF Shapes
  <1>7. \A i \in Identities : TokenOf(i)' = TokenOf(i) BY <1>2 DEF TokenOf
  <1>8. \A i \in Identities : Current(i) => Current(i)' BY <1>2, <1>3, <1>7 DEF Current
  <1>9. plan.listed => plan.identity = cat'.listed BY <1>1, <1>2, <1>3 DEF Bindings
  <1>10. \/ ~plan'.listed
         \/ /\ plan' = plan
            /\ \A i \in Identities : Current(i) => Current(i)'
            /\ cat'.pc \in {"idle", "prepared"} => plan.identity = cat'.listed
    BY <1>2, <1>8, <1>9
  <1>11. cat'.pc # "prepared" BY <1>3
  <1>12. Bindings' BY <1>1, <1>2, <1>7, <1>10, <1>11, BindingsFollow
  <1> QED BY <1>4, <1>5, <1>6, <1>12 DEF MInv

\* The catalog is published: of a life that ends here no token is left.
LEMMA CatalogPublishMInv ==
    ASSUME Parameters, Member, MInv, CatalogPublish
    PROVE  MInv'
  <1>1. Namespaces /\ Shapes /\ Bindings /\ Attempting BY DEF MInv
  <1>2. /\ UNCHANGED <<visible, durable, pending, plan, att, minted>> /\ cat.pc = "prepared"
    BY DEF CatalogPublish
  <1>3. PICK s \in {{cat.wanted}, cat.saved \cup {cat.wanted}} :
           cat' = [cat EXCEPT !.pc = "apply", !.listed = cat.wanted, !.saved = s]
    BY DEF CatalogPublish
  <1>4. /\ cat'.pc = "apply" /\ cat'.wanted = cat.wanted /\ cat'.listed = cat.wanted /\ cat'.saved = s
        /\ DOMAIN cat' = {"pc", "listed", "saved", "wanted", "renamed"}
    BY <1>1, <1>3 DEF Shapes
  <1>5. s \subseteq Identities \cup {Unlisted} BY <1>1 DEF Shapes
  <1> DEFINE ends == plan.listed /\ (cat.wanted = Unlisted \/ cat.renamed)
  <1>6. /\ past'.owner = past.owner /\ past'.life = past.life
        /\ past'.ended = IF ends THEN past.ended \cup past.life ELSE past.ended
        /\ DOMAIN past' = {"owner", "life", "ended"}
    BY <1>1 DEF CatalogPublish, Shapes
  <1>7. Namespaces' BY <1>1, <1>2, <1>6, NamespacesSame
  <1>8. Attempting' BY <1>1, <1>2, <1>6, AttemptingKept
  <1>9. Shapes' BY <1>1, <1>2, <1>4, <1>5, <1>6 DEF Shapes
  <1>10. \A i \in Identities : TokenOf(i)' = TokenOf(i) BY <1>2 DEF TokenOf
  <1>11. \A i \in Identities : HasToken(i)' = HasToken(i) BY <1>10 DEF HasToken
  <1>12. \A i \in Identities : Current(i) => i = plan.identity /\ i = cat.wanted /\ Current(i)'
    BY <1>2, <1>4, <1>10 DEF Current
  <1>13. plan.listed => plan.identity = cat.listed BY <1>1, <1>2 DEF Bindings
  <1>14. cat.renamed => cat.wanted # cat.listed BY <1>1, <1>2 DEF Bindings
  <1>15. Unlisted \notin Identities BY DEF Unlisted, Identities
  <1>16. ASSUME NEW i \in Identities, HasToken(i) PROVE TokenOf(i).token \notin past'.ended
    <2>1. /\ TokenOf(i).token \notin past.ended
          /\ plan.listed /\ TokenOf(i).token \in past.life => Current(i)
      BY <1>1, <1>16 DEF Bindings
    <2>2. ASSUME ends PROVE TokenOf(i).token \notin past.life
      BY <2>1, <2>2, <1>12, <1>13, <1>14, <1>15
    <2> QED BY <2>1, <2>2, <1>6
  <1>17. Bindings'
    <2>1. past'.life \subseteq 1 .. minted'.token /\ past'.ended \subseteq 1 .. minted'.token
      BY <1>1, <1>2, <1>6 DEF Bindings
    <2> HIDE DEF TokenOf, HasToken, Current, ends
    <2>2. plan'.listed =>
            /\ plan'.token \in 1 .. minted'.token /\ plan'.token \in past'.life
            /\ plan'.identity \in Identities
      BY <1>1, <1>2, <1>6 DEF Bindings
    <2>3. ASSUME NEW i \in Identities, HasToken(i)
          PROVE  /\ TokenOf(i).token \in 1 .. minted.token
                 /\ \A j \in Identities : HasToken(j) /\ TokenOf(j).token = TokenOf(i).token => j = i
                 /\ plan.listed /\ TokenOf(i).token \in past.life => Current(i)'
      BY <2>3, <1>1, <1>12 DEF Bindings
    <2> QED BY <2>1, <2>2, <2>3, <1>2, <1>4, <1>6, <1>10, <1>11, <1>16 DEF Bindings
  <1> QED BY <1>7, <1>8, <1>9, <1>17 DEF MInv

\* The member's life ends: its plan goes, and its files as far as they can.
LEMMA LifeEnds ==
    ASSUME Parameters, Member, MInv, Namespaces', SameTokens, plan' = NoPlan,
           UNCHANGED <<att, minted, past>>, NEW pc \in {"idle", "readd"}, cat' = [cat EXCEPT !.pc = pc],
           pc = "readd" => cat.listed # Unlisted
    PROVE  MInv'
  <1>1. Namespaces /\ Shapes /\ Bindings /\ Attempting BY DEF MInv
  <1>2. /\ cat'.pc = pc /\ cat'.wanted = cat.wanted /\ cat'.listed = cat.listed /\ cat'.saved = cat.saved
        /\ DOMAIN cat' = {"pc", "listed", "saved", "wanted", "renamed"}
    BY <1>1 DEF Shapes
  <1>3. ~plan'.listed BY DEF NoPlan
  <1>4. Attempting' BY <1>1, AttemptingKept
  <1>5. Shapes' BY <1>1, <1>2, <1>3 DEF Shapes
  <1>6. cat'.pc # "prepared" BY <1>2
  <1>7. \A i \in Identities : TokenOf(i)' = TokenOf(i) BY SameTokenOf
  <1>8. Bindings' BY <1>1, <1>3, <1>6, <1>7, BindingsFollow
  <1> QED BY <1>4, <1>5, <1>8 DEF MInv

\* A member that is no longer listed.
LEMMA ApplyRemovalMInv ==
    ASSUME Parameters, Member, MInv, ApplyRemoval
    PROVE  MInv'
  <1>1. /\ cat' = [cat EXCEPT !.pc = "idle"] /\ plan' = NoPlan /\ UNCHANGED <<att, minted, past>>
        /\ IF plan.listed THEN RemoveFiles(plan.token) ELSE UNCHANGED <<visible, durable, pending>>
    BY DEF ApplyRemoval
  <1>2. Namespaces' /\ SameTokens
    <2>1. CASE plan.listed
      <3> DEFINE t == plan.token
      <3>1. RemoveFiles(t) BY <1>1, <2>1
      <3> HIDE DEF t
      <3> QED BY <3>1, <1>1, RemovedNamespaces DEF MInv
    <2>2. CASE ~plan.listed
      <3>1. UNCHANGED <<visible, durable, pending>> BY <1>1, <2>2
      <3> QED BY <3>1, <1>1 DEF MInv, Namespaces, OwnedDisk, OwnedOps, Owned, SameTokens
    <2> QED BY <2>1, <2>2
  <1> QED BY <1>1, <1>2, LifeEnds

\* A member that the catalog lists under a new node.
LEMMA ApplyRenameMInv ==
    ASSUME Parameters, Member, MInv, ApplyRename
    PROVE  MInv'
  <1> DEFINE t == plan.token
  <1>1. /\ cat' = [cat EXCEPT !.pc = "readd"] /\ plan' = NoPlan /\ UNCHANGED <<att, minted, past>>
        /\ RemoveFiles(t) /\ cat.listed # Unlisted
    BY DEF ApplyRename
  <1> HIDE DEF t
  <1>2. Namespaces' /\ SameTokens BY <1>1, RemovedNamespaces DEF MInv
  <1> QED BY <1>1, <1>2, LifeEnds

\* The machine or the process stops.
LEMMA RestartedMInv ==
    ASSUME Parameters, Member, MInv, NEW d, NEW listings, listings \subseteq Identities \cup {Unlisted},
           Restarted(d, listings), Namespaces', SameTokens
    PROVE  MInv' /\ mem'.copy = NoCopy
  <1>1. Namespaces /\ Shapes /\ Bindings /\ Attempting BY DEF MInv
  <1>2. PICK id \in listings :
           cat' = [cat EXCEPT !.pc = "apply", !.listed = id, !.saved = {id},
                              !.wanted = Unlisted, !.renamed = FALSE]
    BY DEF Restarted
  <1>3. /\ cat'.pc = "apply" /\ cat'.wanted = Unlisted /\ cat'.listed = id /\ cat'.saved = {id}
        /\ DOMAIN cat' = {"pc", "listed", "saved", "wanted", "renamed"}
    BY <1>1, <1>2 DEF Shapes
  <1>4. /\ plan' = NoPlan /\ att' = [a \in Attempts |-> Idle] /\ UNCHANGED <<minted, past>>
        /\ mem' = [copy |-> NoCopy, expired |-> FALSE]
    BY DEF Restarted
  <1>5. ~plan'.listed BY <1>4 DEF NoPlan
  <1>6. Attempting'
    <2>1. Bound(Idle, minted.content, past.owner) BY IdleBound
    <2> DEFINE mm == minted'.content
               oo == past'.owner
    <2>2. mm = minted.content /\ oo = past.owner BY <1>4
    <2> HIDE DEF mm, oo
    <2>3. \A a \in Attempts : Bound(att'[a], mm, oo) BY <2>1, <2>2, <1>4
    <2>4. att' = [a \in Attempts |-> att'[a]] BY <1>4
    <2> QED BY <2>3, <2>4 DEF Attempting, Bound, mm, oo
  <1>7. Shapes'
    <2>1. id \in Identities \cup {Unlisted} BY <1>2
    <2> QED BY <2>1, <1>1, <1>3, <1>4, <1>5 DEF Shapes
  <1>8. \A i \in Identities : TokenOf(i)' = TokenOf(i) BY SameTokenOf
  <1>9. Bindings' BY <1>1, <1>3, <1>4, <1>5, <1>8, BindingsFollow
  <1> QED BY <1>4, <1>6, <1>7, <1>9 DEF MInv

\* The process stops.
LEMMA ProcessCrashMInv ==
    ASSUME Parameters, Member, MInv, ProcessCrash
    PROVE  MInv' /\ mem'.copy = NoCopy
  <1> DEFINE ls == {cat.listed}
             d == visible
  <1>1. Restarted(d, ls) /\ UNCHANGED <<visible, durable, pending, minted, past>>
    BY DEF ProcessCrash, Restarted
  <1>2. ls \subseteq Identities \cup {Unlisted} BY DEF MInv, Shapes
  <1>3. Namespaces' /\ SameTokens
    BY <1>1 DEF MInv, Namespaces, OwnedDisk, OwnedOps, Owned, SameTokens
  <1> HIDE DEF ls, d
  <1> QED BY <1>1, <1>2, <1>3, RestartedMInv

\* The machine stops.
LEMMA PowerLossMInv ==
    ASSUME Parameters, Member, MInv, PowerLoss
    PROVE  MInv' /\ mem'.copy = NoCopy
  <1> DEFINE m == minted.content
             own == past.owner
             ls == cat.saved
  <1>1. PICK d \in PossibleDisks : /\ Restarted(d, cat.saved)
                                   /\ visible' = d /\ durable' = d /\ pending' = << >>
    BY DEF PowerLoss
  <1>2. /\ OwnedDisk(visible, m, own) /\ OwnedDisk(durable, m, own) /\ OwnedOps(pending, m, own)
        /\ \A i \in Identities : durable[TokenName(i)] = visible[TokenName(i)]
    BY DEF MInv, Namespaces
  <1>3. minted' = minted /\ past' = past BY <1>1 DEF Restarted
  <1>4. Restarted(d, ls) BY <1>1
  <1>5. ls \subseteq Identities \cup {Unlisted} BY DEF MInv, Shapes
  <1>6. minted'.content = m /\ past'.owner = own BY <1>3
  <1> HIDE DEF m, own, ls
  <1>7. OwnedDisk(d, m, own) /\ \A i \in Identities : d[TokenName(i)] = visible[TokenName(i)]
    BY <1>2, OwnedPossible
  <1>8. OwnedOps(<< >>, m, own) BY OwnedNone
  <1>9. SameTokens BY <1>1, <1>7 DEF SameTokens
  <1>10. Namespaces'
    <2> DEFINE mm == minted'.content
               oo == past'.owner
    <2>1. mm = m /\ oo = own BY <1>6
    <2> HIDE DEF mm, oo
    <2>2. OwnedDisk(visible', mm, oo) /\ OwnedDisk(durable', mm, oo) /\ OwnedOps(pending', mm, oo)
      BY <2>1, <1>1, <1>7, <1>8
    <2>3. durable' = visible' BY <1>1
    <2> QED BY <2>2, <2>3 DEF Namespaces, OwnedDisk, OwnedOps, Owned, mm, oo
  <1> QED BY <1>4, <1>5, <1>9, <1>10, RestartedMInv

\* A listed member gets its binding; what it is restored from is a namespace
\* of no life that has ended.
LEMMA ApplyListedMInv ==
    ASSUME Parameters, Member, MInv, ApplyListed
    PROVE  MInv' /\ NotRevived
  <1>0. PICK id \in Identities : id = cat.listed
    BY DEF ApplyListed, MInv, Shapes
  <1> USE <1>0
  <1> DEFINE drawn == Missing(id)
             token == IF drawn = {} THEN TokenOf(id).token ELSE minted.token + 1
             same == plan.listed /\ plan.token = token
             extra == IF same THEN 0 ELSE 1
             restored == IF drawn = {} THEN Restore(visible, token) ELSE NothingRestored
  <1>1. Namespaces /\ Shapes /\ Bindings /\ Attempting BY DEF MInv
  <1>2. /\ WriteTokens(drawn, extra)
        /\ plan' = IF same THEN plan
                   ELSE [listed |-> TRUE, identity |-> id, token |-> token, gen |-> minted.gen + 1]
        /\ mem' = IF mem.copy = NoCopy /\ cat.pc = "apply" THEN Served(restored) ELSE mem
        /\ past' = [past EXCEPT !.life = IF plan.listed THEN @ \cup {token} ELSE {token}]
        /\ cat' = [cat EXCEPT !.pc = "idle", !.renamed = FALSE]
        /\ att' = att
    BY DEF ApplyListed
  <1>3. /\ cat.listed # Unlisted /\ cat.pc \in {"apply", "readd"}
        /\ plan.listed => cat.pc = "apply"
    BY <1>1 DEF ApplyListed, Shapes
  <1>4. Identities = {1, 2} /\ id \in Identities BY <1>1, <1>3 DEF Identities, Shapes
  <1>5. /\ cat'.pc = "idle" /\ cat'.wanted = cat.wanted /\ cat'.listed = id /\ cat'.saved = cat.saved
        /\ DOMAIN cat' = {"pc", "listed", "saved", "wanted", "renamed"}
    BY <1>1, <1>2 DEF Shapes
  <1>6. /\ past'.owner = past.owner /\ past'.ended = past.ended
        /\ past'.life = (IF plan.listed THEN past.life \cup {token} ELSE {token})
        /\ DOMAIN past' = {"owner", "life", "ended"}
    <2> HIDE DEF token
    <2> QED BY <1>1, <1>2 DEF Shapes
  <1>7. /\ drawn = {} => TokenOf(id) # NoFile
        /\ drawn # {} => drawn = {id} /\ TokenOf(id) = NoFile
        /\ drawn \subseteq {1, 2}
    BY <1>3, <1>4 DEF Missing
  <1> HIDE DEF drawn, extra
  <1>8. /\ Cardinality(drawn) \in Nat
        /\ \A i \in drawn : Rank(drawn, i) \in 1 .. Cardinality(drawn)
        /\ drawn = {id} => Cardinality(drawn) = 1
    BY <1>7, Ranks
  <1>9. Cardinality({}) = 0 BY FS_EmptySet
  <1>10. /\ Namespaces'
         /\ \A i \in Identities : i \notin drawn => TokenOf(i)' = TokenOf(i)
         /\ \A i \in drawn : TokenOf(i)' # NoFile /\ TokenOf(i)'.token = minted.token + Rank(drawn, i)
         /\ minted'.token = minted.token + Cardinality(drawn) /\ minted'.token <= MaxTokens
         /\ minted'.content = minted.content
         /\ DOMAIN minted' = {"content", "token", "gen", "serial"}
    BY <1>1, <1>2, <1>6, <1>7, TokensWritten
  <1>11. minted.token \in Nat /\ minted'.token \in Nat /\ minted.token <= minted'.token
    BY <1>1, <1>8, <1>10 DEF Shapes
  <1>12. past.life \subseteq 1 .. minted.token /\ past.ended \subseteq 1 .. minted.token
    BY <1>1 DEF Bindings
  <1>13. plan.listed => plan.token \in 1 .. minted.token /\ plan.token \in past.life
                        /\ plan.identity \in Identities
    BY <1>1 DEF Bindings
  <1>14. CASE drawn = {}
    <2>1. token = TokenOf(id).token /\ TokenOf(id) # NoFile BY <1>7, <1>14
    <2>2. token \in 1 .. minted.token /\ token \notin past.ended
          /\ (plan.listed /\ token \in past.life => Current(id))
      BY <2>1, <1>1, <1>4, BindingOf
    <2>3. minted'.token = minted.token BY <1>9, <1>10, <1>11, <1>14
    <2>4. \A i \in Identities : TokenOf(i)' = TokenOf(i) BY <1>10, <1>14
    <2> QED
      <3> HIDE DEF token
      <3>1. token \in Tokens /\ restored = Restore(visible, token)
        BY <2>2, <1>1, <1>14 DEF Shapes, Tokens, Parameters
      <3> HIDE DEF restored
      <3>2. NotRevived
        <4> SUFFICES ASSUME mem'.copy # mem.copy, mem'.copy.content \in Contents
                     PROVE  past.owner[mem'.copy.content] \notin past.ended
          BY DEF NotRevived
        <4>1. mem' = Served(restored) BY <1>2
        <4>2. mem'.copy = Restore(visible, token).copy BY <4>1, <3>1 DEF Served
        <4>3. OwnedDisk(visible, minted.content, past.owner) BY <1>1 DEF Namespaces
        <4> DEFINE m == minted.content
                   own == past.owner
        <4> HIDE DEF m, own
        <4>4. OwnedDisk(visible, m, own) /\ Restore(visible, token).copy.content \in Contents
          BY <4>2, <4>3 DEF m, own
        <4>5. own[Restore(visible, token).copy.content] = token BY <3>1, <4>4, RestoreOwned
        <4> QED BY <2>2, <4>2, <4>5 DEF own
      <3>3. /\ \A i \in Identities : HasToken(i)' = HasToken(i) BY <2>4 DEF HasToken
      <3>4. token \in 1 .. minted'.token BY <2>2, <2>3
      <3>5. CASE same
        <4>1. plan' = plan /\ plan.token = token /\ plan.listed BY <1>2, <3>5
        <4>2. past'.life = past.life BY <4>1, <1>6, <1>13
        <4>3. Current(id) BY <4>1, <2>2, <1>13
        <4>4. plan.identity = cat'.listed BY <4>3, <1>5 DEF Current
        <4>5. \A i \in Identities : Current(i) => Current(i)' BY <4>1, <2>4, <1>5 DEF Current
        <4>6. cat'.pc # "prepared" BY <1>5
        <4>7. Bindings' BY <4>1, <4>2, <4>4, <4>5, <4>6, <2>3, <2>4, <1>1, <1>6, BindingsFollow
        <4>8. Attempting' BY <1>1, <1>2, <1>6, <1>10, AttemptingKept
        <4>9. Shapes' BY <1>1, <1>5, <1>6, <1>10, <1>11 DEF Shapes
        <4> QED BY <4>7, <4>8, <4>9, <3>2, <1>10 DEF MInv
      <3>6. CASE ~same
        <4>1. plan'.listed /\ plan'.identity = id /\ plan'.token = token BY <1>2, <3>6
        <4>2. ASSUME NEW i \in Identities, HasToken(i), TokenOf(i).token \in past'.life
              PROVE  i = id /\ TokenOf(i).token = token
          <5>1. CASE TokenOf(i).token = token
            <6>1. \A j \in Identities : TokenOf(j) # NoFile /\ TokenOf(j).token = TokenOf(id).token => j = id
              BY <2>1, <1>1, <1>4, BindingOf
            <6> QED BY <6>1, <5>1, <4>2, <2>1 DEF HasToken
          <5>2. CASE TokenOf(i).token # token
            <6>1. plan.listed /\ TokenOf(i).token \in past.life BY <5>2, <4>2, <1>6
            <6>2. Current(i) BY <6>1, <4>2, <1>1 DEF Bindings
            <6>3. i = id BY <6>1, <6>2, <1>3 DEF Current
            <6> QED BY <6>3, <5>2, <2>1
          <5> QED BY <5>1, <5>2
        <4>3. \A i \in Identities : i = id /\ TokenOf(i).token = token => Current(i)'
          BY <4>1, <2>4, <1>5 DEF Current
        <4>4. past'.life \subseteq 1 .. minted'.token /\ past'.ended \subseteq 1 .. minted'.token
          BY <1>6, <1>12, <2>3, <3>4
        <4>5. token \in past'.life BY <1>6
        <4>6. Bindings'
          <5>1. ASSUME NEW i \in Identities, HasToken(i)
                PROVE  /\ TokenOf(i).token \in 1 .. minted.token /\ TokenOf(i).token \notin past.ended
                       /\ \A j \in Identities : HasToken(j) /\ TokenOf(j).token = TokenOf(i).token => j = i
                       /\ TokenOf(i).token \in past'.life => Current(i)'
            <6> HIDE DEF TokenOf, HasToken, Current
            <6>1. TokenOf(i).token \in past'.life => Current(i)' BY <4>2, <4>3, <5>1
            <6>2. /\ TokenOf(i).token \in 1 .. minted.token /\ TokenOf(i).token \notin past.ended
                  /\ \A j \in Identities : HasToken(j) /\ TokenOf(j).token = TokenOf(i).token => j = i
              BY <5>1, <1>1 DEF Bindings
            <6> QED BY <6>1, <6>2
          <5> HIDE DEF TokenOf, HasToken, Current
          <5> QED BY <5>1, <4>1, <4>4, <4>5, <3>3, <3>4, <2>3, <2>4, <1>4, <1>5, <1>6 DEF Bindings
        <4>7. Attempting' BY <1>1, <1>2, <1>6, <1>10, AttemptingKept
        <4>8. Shapes' BY <1>1, <1>5, <1>6, <1>10, <1>11 DEF Shapes
        <4> QED BY <4>6, <4>7, <4>8, <3>2, <1>10 DEF MInv
      <3> QED BY <3>5, <3>6
  <1>15. CASE drawn # {}
    <2>1. drawn = {id} /\ token = minted.token + 1 /\ Cardinality(drawn) = 1 BY <1>7, <1>8, <1>15
    <2>2. TokenOf(id)' # NoFile /\ TokenOf(id)'.token = token /\ minted'.token = token
      BY <2>1, <1>8, <1>10, <1>11
    <2>3. \A i \in Identities : i # id => TokenOf(i)' = TokenOf(i) BY <2>1, <1>10
    <2>4. restored = NothingRestored BY <1>15
    <2>5. ~same BY <2>1, <1>11, <1>13
    <2> HIDE DEF token
    <2>6. token \notin past.ended /\ token \notin past.life /\ token \in 1 .. minted'.token
      BY <2>1, <2>2, <1>11, <1>12
    <2>7. token > minted.token BY <2>1, <1>11
    <2> HIDE DEF restored
    <2>8. NotRevived
      <3>1. Served(restored).copy = NoCopy BY <2>4 DEF Served, NothingRestored
      <3>2. NoCopy.content = 0 /\ 0 \notin Contents BY DEF NoCopy, Contents
      <3>3. mem' = Served(restored) \/ mem' = mem BY <1>2
      <3> QED BY <3>1, <3>2, <3>3 DEF NotRevived
    <2>9. plan'.listed /\ plan'.identity = id /\ plan'.token = token BY <1>2, <2>5
    <2> HIDE DEF same
    <2>10. \A i \in Identities : i # id /\ TokenOf(i)' # NoFile =>
              /\ TokenOf(i)' = TokenOf(i) /\ TokenOf(i).token \in 1 .. minted.token
              /\ TokenOf(i).token \notin past.ended
              /\ \A j \in Identities : TokenOf(j) # NoFile /\ TokenOf(j).token = TokenOf(i).token => j = i
              /\ plan.listed => TokenOf(i).token \notin past.life
      <3> SUFFICES ASSUME NEW i \in Identities, i # id, TokenOf(i)' # NoFile
                   PROVE  /\ TokenOf(i)' = TokenOf(i) /\ TokenOf(i).token \in 1 .. minted.token
                          /\ TokenOf(i).token \notin past.ended
                          /\ \A j \in Identities :
                                TokenOf(j) # NoFile /\ TokenOf(j).token = TokenOf(i).token => j = i
                          /\ plan.listed => TokenOf(i).token \notin past.life
        OBVIOUS
      <3>1. TokenOf(i)' = TokenOf(i) /\ TokenOf(i) # NoFile BY <2>3
      <3>2. /\ TokenOf(i).token \in 1 .. minted.token
            /\ TokenOf(i).token \notin past.ended
            /\ \A j \in Identities : TokenOf(j) # NoFile /\ TokenOf(j).token = TokenOf(i).token => j = i
            /\ plan.listed /\ TokenOf(i).token \in past.life => Current(i)
        BY <3>1, <1>1, BindingOf
      <3>3. plan.listed => ~Current(i) BY <1>3 DEF Current
      <3> QED BY <3>1, <3>2, <3>3
    <2>11. past'.life \subseteq 1 .. minted'.token /\ past'.ended \subseteq 1 .. minted'.token
           /\ token \in past'.life
      BY <1>6, <1>11, <1>12, <2>6
    <2>12. ASSUME NEW i \in Identities, TokenOf(i)' # NoFile
           PROVE  /\ TokenOf(i)'.token \in 1 .. minted'.token /\ TokenOf(i)'.token \notin past'.ended
                  /\ TokenOf(i)'.token \in past'.life => Current(i)'
      <3>1. CASE i = id
        <4>1. Current(i)' BY <3>1, <2>2, <2>9, <1>5 DEF Current
        <4> HIDE DEF TokenOf
        <4> QED BY <4>1, <3>1, <2>2, <2>6, <1>6
      <3>2. CASE i # id
        <4>1. /\ TokenOf(i)' = TokenOf(i) /\ TokenOf(i).token \in 1 .. minted.token
              /\ TokenOf(i).token \notin past.ended
              /\ plan.listed => TokenOf(i).token \notin past.life
          BY <3>2, <2>12, <2>10
        <4> DEFINE x == TokenOf(i).token
        <4>2. x \in 1 .. minted.token /\ x # token /\ x \in 1 .. minted'.token
          BY <4>1, <2>7, <1>11
        <4>3. TokenOf(i)'.token = x BY <4>1
        <4> HIDE DEF x, TokenOf
        <4>4. x \notin past'.life BY <4>1, <4>2, <1>6 DEF x
        <4> QED BY <4>1, <4>2, <4>3, <4>4, <1>6 DEF x
      <3> QED BY <3>1, <3>2
    <2>13. ASSUME NEW i \in Identities, NEW j \in Identities, TokenOf(i)' # NoFile, TokenOf(j)' # NoFile,
                  TokenOf(j)'.token = TokenOf(i)'.token
           PROVE  j = i
      <3>1. \A x \in Identities : x # id /\ TokenOf(x)' # NoFile => TokenOf(x)'.token # token
        BY <2>7, <2>10, <1>11
      <3>2. CASE i = id \/ j = id BY <3>1, <3>2, <2>2, <2>13
      <3>3. CASE i # id /\ j # id
        <4>1. TokenOf(i)' = TokenOf(i) /\ TokenOf(j)' = TokenOf(j) BY <3>3, <2>3
        <4> QED BY <4>1, <3>3, <2>10, <2>13
      <3> QED BY <3>2, <3>3
    <2>14. Bindings'
      <3>1. \A i \in Identities : HasToken(i)' = (TokenOf(i)' # NoFile) BY DEF HasToken
      <3> HIDE DEF TokenOf, HasToken, Current
      <3> QED BY <3>1, <2>6, <2>9, <2>11, <2>12, <2>13, <1>4, <1>5 DEF Bindings
    <2>15. Attempting' BY <1>1, <1>2, <1>6, <1>10, AttemptingKept
    <2>16. Shapes' BY <1>1, <1>5, <1>6, <1>10, <1>11 DEF Shapes
    <2> QED BY <2>8, <2>14, <2>15, <2>16, <1>10 DEF MInv
  <1> QED BY <1>14, <1>15

\* A step that does not touch the served copy, or empties it, revives nothing.
LEMMA RevivesNothing ==
    ASSUME mem' = mem \/ mem'.copy = mem.copy \/ mem'.copy = NoCopy
    PROVE  NotRevived
  BY DEF NotRevived, NoCopy, Contents

\* Every step of a catalog member.
LEMMA MemberStep ==
    ASSUME Parameters, Member, MInv, [Next]_vars
    PROVE  MInv' /\ NotRevived
  <1>1. CASE UNCHANGED vars
    <2>1. UNCHANGED <<visible, durable, pending, plan, att, cat, minted, past>> /\ mem' = mem
      BY <1>1 DEF vars
    <2> QED BY <2>1, StutterMInv, RevivesNothing
  <1>2. CASE Tick
    <2>1. UNCHANGED <<visible, durable, pending, plan, att, cat, minted, past>> /\ mem' = mem
      BY <1>2 DEF Tick
    <2> QED BY <2>1, StutterMInv, RevivesNothing
  <1>3. CASE ProcessCrash BY <1>3, ProcessCrashMInv, RevivesNothing
  <1>4. CASE PowerLoss BY <1>4, PowerLossMInv, RevivesNothing
  <1>5. ASSUME NEW a \in Attempts,
               \/ Begin(a) \/ StageFull(a) \/ StageIncremental(a) \/ Abandon(a)
               \/ Publish(a) \/ Finish(a) \/ FinishFails(a)
               \/ RenewChecksum(a) \/ RenewFails(a)
               \/ RenewFreshness(a) \/ RenewFreshnessFails(a) \/ Activate(a)
        PROVE  MInv' /\ NotRevived
    <2>1. CASE Begin(a)
      <3>1. mem' = mem BY <2>1 DEF Begin
      <3> QED BY <3>1, <2>1, BeginMInv, RevivesNothing
    <2>2. CASE StageFull(a)
      <3>1. PICK s \in NewSerials(att[a].base) : Staged(a, s, TRUE) BY <2>2 DEF StageFull
      <3>2. /\ att[a].pc = "begun" /\ minted.content < MaxContents /\ mem' = mem
            /\ UNCHANGED <<visible, durable, pending, plan, cat>>
        BY <2>2 DEF StageFull
      <3> DEFINE full == TRUE
      <3>3. Staged(a, s, full) BY <3>1
      <3> HIDE DEF full
      <3> QED BY <3>2, <3>3, StageMInv, RevivesNothing
    <2>3. CASE StageIncremental(a)
      <3> DEFINE s == minted.serial + 1
                 full == ~JournalExtends(att[a].token, att[a].base)
      <3>1. /\ att[a].pc = "begun" /\ minted.content < MaxContents /\ mem' = mem /\ Staged(a, s, full)
            /\ UNCHANGED <<visible, durable, pending, plan, cat>>
        BY <2>3 DEF StageIncremental
      <3> HIDE DEF s, full
      <3> QED BY <3>1, StageMInv, RevivesNothing
    <2>4. CASE Publish(a)
      <3>1. MInv' /\ att' # att BY <2>4, PublishMInv
      <3> QED BY <3>1 DEF NotRevived
    <2>5. CASE Finish(a)
      <3>1. mem' = mem BY <2>5 DEF Finish
      <3> QED BY <3>1, <2>5, FinishMInv, RevivesNothing
    <2>6. CASE RenewChecksum(a)
      <3>1. mem' = mem BY <2>6 DEF RenewChecksum
      <3> QED BY <3>1, <2>6, RenewChecksumMInv, RevivesNothing
    <2>7. CASE RenewFreshness(a)
      <3>1. mem' = mem BY <2>7 DEF RenewFreshness
      <3> QED BY <3>1, <2>7, RenewFreshnessMInv, RevivesNothing
    <2>8. CASE RenewFreshnessFails(a)
      <3>1. mem' = mem BY <2>8 DEF RenewFreshnessFails
      <3> QED BY <3>1, <2>8, RenewFreshnessFailsMInv, RevivesNothing
    <2>9. CASE Abandon(a) \/ FinishFails(a) \/ RenewFails(a)
      <3>1. /\ att' = [att EXCEPT ![a] = Idle] /\ mem' = mem
            /\ UNCHANGED <<visible, durable, pending, plan, cat, minted, past>>
        BY <2>9 DEF Abandon, FinishFails, RenewFails
      <3> QED BY <3>1, EndMInv, RevivesNothing
    <2>10. CASE Activate(a)
      <3>1. /\ att' = [att EXCEPT ![a] = Idle] /\ att[a].pc = "renewed"
            /\ UNCHANGED <<visible, durable, pending, plan, cat, minted, past>>
        BY <2>10 DEF Activate
      <3>2. att'[a].pc = "idle" BY <3>1 DEF MInv, Attempting, Idle
      <3>3. NotRevived BY <3>1, <3>2 DEF NotRevived
      <3> QED BY <3>1, <3>3, EndMInv
    <2> QED BY <1>5, <2>1, <2>2, <2>3, <2>4, <2>5, <2>6, <2>7, <2>8, <2>9, <2>10
  <1>6. ASSUME NEW id \in Identities \cup {Unlisted}, NEW renamed \in BOOLEAN, CatalogPrepare(id, renamed)
        PROVE  MInv' /\ NotRevived
    <2>1. mem' = mem BY <1>6 DEF CatalogPrepare
    <2> QED BY <2>1, <1>6, CatalogPrepareMInv, RevivesNothing
  <1>7. CASE CatalogAborts
    <2>1. mem' = mem BY <1>7 DEF CatalogAborts
    <2> QED BY <2>1, <1>7, CatalogAbortsMInv, RevivesNothing
  <1>8. CASE CatalogPublish
    <2>1. mem' = mem BY <1>8 DEF CatalogPublish
    <2> QED BY <2>1, <1>8, CatalogPublishMInv, RevivesNothing
  <1>9. CASE ApplyRemoval
    <2>1. mem'.copy = NoCopy BY <1>9 DEF ApplyRemoval
    <2> QED BY <2>1, <1>9, ApplyRemovalMInv, RevivesNothing
  <1>10. CASE ApplyRename
    <2>1. mem'.copy = NoCopy BY <1>10 DEF ApplyRename
    <2> QED BY <2>1, <1>10, ApplyRenameMInv, RevivesNothing
  <1>11. CASE ApplyListed BY <1>11, ApplyListedMInv
  <1> QED BY <1>1, <1>2, <1>3, <1>4, <1>5, <1>6, <1>7, <1>8, <1>9, <1>10, <1>11 DEF Next

\* Data fetched for a member that the catalog has since removed or renamed is
\* not restored again, whatever is removed in vain, whatever a crash brings
\* back, and in whatever order directory operations reach the disk.
THEOREM NeverRevived ==
    ASSUME Parameters
    PROVE  Spec => [][NotRevived]_vars
  <1>1. CASE Member
    <2>1. Init => MInv BY <1>1, InitMInv
    <2>2. MInv /\ [Next]_vars => MInv' /\ [NotRevived]_vars BY <1>1, MemberStep
    <2> QED BY <2>1, <2>2, PTL DEF Spec
  <1>2. CASE ~Member
    <2>1. Spec => []Inv BY <1>2, Invariance
    <2>2. Inv => NotRevived BY DEF Inv, Plain, NotRevived
    <2> QED BY <2>1, <2>2, PTL DEF Spec
  <1>3. Member \/ ~Member OBVIOUS
  <1> QED BY <1>1, <1>2, <1>3
=============================================================================
