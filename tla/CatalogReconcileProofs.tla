--------------------------- MODULE CatalogReconcileProofs ---------------------------
(***************************************************************************)
(* What the reconciliation of catalogs keeps, for any number of catalogs,  *)
(* members, versions and restarts (crates/borondns-server/src/lib.rs,      *)
(* struct CatalogManager).                                                 *)
(*                                                                         *)
(* Inv ties the phase of every catalog, its notes, the owners, the plans,  *)
(* the directory as the reconciliation under way will leave it (View), the *)
(* cooldowns and the requests together, whatever fails.  Strict adds that  *)
(* ownership is exact where every cache binding can be had, AllDone that   *)
(* an ACTIVE catalog has been applied where none expires, and FirstRun     *)
(* that the caches are those of the live plans until the first restart.    *)
(*                                                                         *)
(* The theorems have Parameters as a hypothesis, which TLC evaluates for   *)
(* the instances of MCZones.                                               *)
(***************************************************************************)
EXTENDS CatalogReconcile, FiniteSetTheorems, WellFoundedInduction, TLAPS

-----------------------------------------------------------------------------
(* The invariant.                                                          *)

Early == {"idle", "prepare", "publish", "filter", "lock"}
Inside == {"members", "cooldowns", "unlock"}    \* with reconcile_lock
Phases == Early \cup Inside \cup {"send"}

Fields == {"list", "candidates", "previous", "todo", "accepted", "removed",
           "loading", "changed", "refresh"}
PlanFields == {"catalog", "node", "policy", "gen", "live"}

Shapes ==
    /\ DOMAIN held = Names /\ DOMAIN pc = Names /\ DOMAIN task = Names
    /\ DOMAIN desired = Names /\ DOMAIN applied = Names
    /\ DOMAIN owner = Members /\ DOMAIN plan = Members /\ DOMAIN notify = Members
    /\ DOMAIN dir = Members /\ DOMAIN attempt = Members /\ DOMAIN keeper = Members
    /\ gens \in Nat /\ serving \in BOOLEAN /\ boot \in Seq(Names)
    /\ \A c \in Names : DOMAIN held[c] = {"list", "state"} /\ DOMAIN task[c] = Fields

(* One reconciliation at a time.                                           *)
Locking ==
    /\ lock \in Names \cup {NoOwner}
    /\ \A c \in Names : pc[c] \in Phases /\ (pc[c] \in Inside <=> lock = c)

(* What an attempt holds of the catalog it has fetched or published.       *)
TaskOf(c) ==
    /\ held[c].list \in [Members -> Entries]
    /\ held[c].state \in {"none", "active", "expired"}
    /\ pc[c] \in {"prepare", "publish"} => task[c].list \in [Members -> Entries]
    /\ pc[c] = "filter" => task[c].list = held[c].list
    /\ pc[c] \in {"lock"} \cup Inside =>
          task[c].list = Parsed(held[c].list) /\ task[c].candidates = Accepted(task[c].list)
    /\ pc[c] \in Early =>
          /\ task[c].removed = {} /\ task[c].loading = {}
          /\ task[c].changed = {} /\ task[c].refresh = {}

(* What is to be provisioned, and what has been.                           *)
AimOf(c) ==
    /\ applied[c] \subseteq Members \ Static /\ Cardinality(applied[c]) <= Cap
    /\ DOMAIN desired[c] = Members
    /\ pc[c] \in {"idle", "prepare", "publish", "send"} =>
          applied[c] \subseteq Accepted(Parsed(held[c].list))
    /\ pc[c] \in Inside =>
          /\ task[c].accepted \subseteq task[c].candidates
          /\ \A m \in Members :
                /\ \/ desired[c][m] = Unlisted
                   \/ m \in task[c].candidates /\ desired[c][m] = task[c].list[m]
                /\ m \in task[c].accepted => desired[c][m] = task[c].list[m]
    /\ pc[c] = "members" => task[c].todo \subseteq Members \ Static
    /\ pc[c] \in {"cooldowns", "unlock"} => task[c].todo = {}

(* Nobody but its owner touches a member.                                  *)
OwnsOf(c) ==
    /\ pc[c] \notin Inside => \A m \in applied[c] : owner[m] = c
    /\ pc[c] \in Inside =>
          /\ \A m \in task[c].todo : owner[m] \in {NoOwner, c}
          /\ \A m \in task[c].accepted \ task[c].todo : owner[m] = c
    /\ pc[c] = "members" =>
          \A m \in task[c].todo :
              m \notin task[c].removed /\ m \notin task[c].loading /\ m \notin task[c].changed

(* The directory as the reconciliation under way will leave it.            *)
InMembers == lock # NoOwner /\ pc[lock] = "members"
View(m) == IF InMembers THEN Updated(task[lock], m) ELSE dir[m]

MemberOK(m) ==
    /\ owner[m] \in Names \cup {NoOwner}
    /\ dir[m] \in {"absent", "loading", "active", "revived"}
    /\ DOMAIN plan[m] = PlanFields
    /\ plan[m] # NoPlan => plan[m].gen \in 1 .. gens /\ plan[m].catalog \in Names /\ plan[m].catalog = owner[m]
    /\ notify[m] = plan[m].policy
    /\ m \in Static => owner[m] = NoOwner /\ plan[m] = NoPlan /\ dir[m] = "absent"
    /\ View(m) # "absent" <=> plan[m] # NoPlan

(* A plan that changes during a reconciliation is noted.                   *)
Rightful(e) == plan[e[1]] # NoPlan /\ e[2] = plan[e[1]].gen
Noted(m) == m \in task[lock].removed \cup task[lock].changed
Cooling ==
    /\ \A e \in cooldown :
          /\ e[1] \in Members
          /\ \/ Rightful(e)
             \/ lock # NoOwner /\ pc[lock] \in {"members", "cooldowns"} /\ Noted(e[1])
    /\ \A c \in Names : pc[c] \in Inside =>
          \A m \in task[c].changed : m \in Members /\ (plan[m] # NoPlan \/ m \in task[c].removed)

Requested(m) ==
    \/ <<m, plan[m].gen>> \in asked
    \/ \E c \in Names : pc[c] \in Inside \cup {"send"} /\ <<m, plan[m].gen>> \in task[c].refresh
Asking == serving => \A m \in Members : View(m) = "loading" => Requested(m)

Inv ==
    /\ Shapes /\ Locking
    /\ \A c \in Names : TaskOf(c) /\ AimOf(c) /\ OwnsOf(c)
    /\ \A m \in Members : MemberOK(m)
    /\ Cooling /\ Asking

(* Where every cache binding can be had, ownership is exact.               *)
Exact(c) ==
    /\ pc[c] \notin Inside => \A m \in Members : owner[m] = c => m \in applied[c]
    /\ pc[c] \in Inside =>
          \A m \in Members : owner[m] = c => m \in task[c].todo \cup task[c].accepted

(* A plan follows the entry it was made for.                               *)
Follows(m, x) ==
    plan[m].node = x.node /\ (x.ext # "malformed" => plan[m].policy = PolicyOf(x))

Faithful(c) ==
    /\ pc[c] \notin Inside =>
          /\ applied[c] = Listed(desired[c])
          /\ \A m \in applied[c] : Follows(m, desired[c][m])
    /\ pc[c] \in Inside =>
          /\ task[c].accepted = Listed(desired[c])
          /\ \A m \in task[c].accepted \ task[c].todo : Follows(m, desired[c][m])
    /\ pc[c] = "members" =>
          \A m \in task[c].todo : plan[m] # NoPlan =>
              plan[m].node = task[c].previous[m].node /\ plan[m].node # 0

Strict ==
    /\ \A m \in Members : owner[m] # NoOwner => plan[m] # NoPlan
    /\ \A c \in Names : Exact(c) /\ Faithful(c)

(* Where no catalog expires, every ACTIVE one has been applied, or waits   *)
(* for its turn in the start-up.                                           *)
Others(c) == \E d \in Names : d # c
Done(c) ==
    \A m \in Members :
        IF m \in applied[c] THEN desired[c][m] = Parsed(held[c].list)[m]
        ELSE m \in Accepted(Parsed(held[c].list)) => Others(c)

Waiting(c) == ~serving /\ \E i \in DOMAIN boot : boot[i] = c

DoneOf(c) ==
    /\ held[c].state # "expired"
    /\ pc[c] \in {"idle", "prepare", "publish"} /\ held[c].state = "active" => Done(c) \/ Waiting(c)
    /\ pc[c] \in Inside =>
          \A m \in Accepted(task[c].list) \ task[c].accepted : Others(c)
    /\ pc[c] = "send" => Done(c)

AllDone == \A c \in Names : DoneOf(c)

(* Until the first restart, the caches are those of the plans, and a plan  *)
(* whose token is live is one that the catalog under way keeps.            *)
Ahead(c) == IF pc[c] \in {"publish", "filter"} THEN Parsed(task[c].list) ELSE task[c].list
Lives(m) == plan[m] # NoPlan /\ plan[m].live
KeepsOn(c, m, l) == m \in Accepted(l) /\ Candidate(c, m, l[m]) = Identity(m, plan[m])
Lasting(c) ==
    /\ pc[c] \in {"publish", "filter", "lock"} =>
          \A m \in Members : owner[m] = c /\ Lives(m) => KeepsOn(c, m, Ahead(c))
    /\ pc[c] = "members" =>
          \A m \in task[c].todo : Lives(m) => KeepsOn(c, m, task[c].list)
Cached == \A i \in saved : i.member \in Members /\ Lives(i.member) /\ i = Identity(i.member, plan[i.member])

FirstRun ==
    /\ restarts \in Nat
    /\ restarts = 0 => /\ boot = << >>
                       /\ Cached /\ \A c \in Names : Lasting(c)

(* The catalog whose instance was applied is the owner.                     *)
Owning == restarts \in Nat /\ (restarts = 0 => \A m \in Members : keeper[m] = owner[m])

-----------------------------------------------------------------------------
(* Pure parts.                                                             *)

\* A non-empty set of natural numbers has a least one.
LEMMA Least ==
    ASSUME NEW T, T \subseteq Nat, T # {}
    PROVE  \E n \in T : \A k \in T : n <= k
  <1>1. IsWellFoundedOn(OpToRel(<, Nat), Nat) BY NatLessThanWellFounded
  <1>2. PICK n \in T : \A k \in T : ~(<<k, n>> \in OpToRel(<, Nat)) BY <1>1, WFMin
  <1>3. \A k \in T : ~(k < n) BY <1>2 DEF OpToRel
  <1> QED BY <1>3

\* Members are taken in canonical order: the next one is one of them.
LEMMA MinIn ==
    ASSUME NEW T, T \subseteq Nat, T # {}
    PROVE  Min(T) \in T
  <1>1. \E n \in T : \A k \in T : n <= k BY Least
  <1> QED BY <1>1 DEF Min

\* The bound of a catalog: no more than Cap names are taken from it.
LEMMA FirstOfIsBounded ==
    ASSUME NEW S, S \subseteq Nat, IsFiniteSet(S), Cap \in Nat
    PROVE  Cardinality(FirstOf(S)) <= Cap
  <1> DEFINE Below(m) == {n \in S : n < m}
             T == FirstOf(S)
             f == [m \in T |-> Cardinality(Below(m))]
             R == 0 .. (Cap - 1)
  <1>1. T \subseteq S /\ \A m \in T : Cardinality(Below(m)) < Cap BY DEF FirstOf
  <1>2. \A m \in S : IsFiniteSet(Below(m)) /\ Cardinality(Below(m)) \in Nat
    <2> TAKE m \in S
    <2> Below(m) \in SUBSET S OBVIOUS
    <2>1. IsFiniteSet(Below(m)) BY FS_Subset
    <2> HIDE DEF Below
    <2> QED BY <2>1, FS_CardinalityType
  <1>3. \A m, n \in S : m < n => Cardinality(Below(m)) < Cardinality(Below(n))
    <2> SUFFICES ASSUME NEW m \in S, NEW n \in S, m < n
                 PROVE  Cardinality(Below(m)) < Cardinality(Below(n))
        OBVIOUS
    <2> DEFINE B == Below(m)
               C == Below(n)
    <2>1. m \notin B /\ B \cup {m} \in SUBSET C
      <3>1. m \in Nat /\ n \in Nat OBVIOUS
      <3>2. \A x \in B : x \in S /\ x < m /\ x \in Nat OBVIOUS
      <3>3. \A x \in B : x < n BY <3>1, <3>2
      <3>4. m \notin B BY <3>1, <3>2
      <3>5. m \in C /\ B \subseteq C BY <3>2, <3>3
      <3> HIDE DEF B, C
      <3> QED BY <3>4, <3>5
    <2>2. IsFiniteSet(B) /\ IsFiniteSet(C) /\ Cardinality(B) \in Nat /\ Cardinality(C) \in Nat BY <1>2
    <2> HIDE DEF B, C, Below
    <2>3. Cardinality(B \cup {m}) = Cardinality(B) + 1 BY <2>1, <2>2, FS_AddElement
    <2>4. Cardinality(B \cup {m}) <= Cardinality(C) BY <2>1, <2>2, FS_Subset
    <2>5. Cardinality(B) < Cardinality(C) BY <2>2, <2>3, <2>4
    <2> QED BY <2>5 DEF B, C
  <1> HIDE DEF T, Below
  <1>4. f \in [T -> R] BY <1>1, <1>2
  <1>5. \A m, n \in T : f[m] = f[n] => m = n
    <2> SUFFICES ASSUME NEW m \in T, NEW n \in T, f[m] = f[n], m # n PROVE FALSE OBVIOUS
    <2>1. m \in S /\ n \in S /\ m \in Nat /\ n \in Nat BY <1>1
    <2>2. m < n \/ n < m BY <2>1
    <2>3. Cardinality(Below(m)) \in Nat /\ Cardinality(Below(n)) \in Nat BY <1>2, <2>1
    <2>4. Cardinality(Below(m)) = Cardinality(Below(n)) OBVIOUS
    <2> QED BY <1>3, <2>1, <2>2, <2>3, <2>4
  <1> HIDE DEF f
  <1>6. f \in Injection(T, R) BY <1>4, <1>5 DEF Injection, IsInjective
  <1>7. IsFiniteSet(R) /\ Cardinality(R) = Cap
    <2>1. IsFiniteSet(R) /\ Cardinality(R) = IF 0 > Cap - 1 THEN 0 ELSE (Cap - 1) - 0 + 1 BY FS_Interval
    <2> HIDE DEF R
    <2> QED BY <2>1
  <1> HIDE DEF R
  <1>8. Cardinality(T) <= Cardinality(R) BY <1>6, <1>7, FS_Injection
  <1> QED BY <1>7, <1>8 DEF T

\* An entry and the absence of one.
LEMMA EntryFacts ==
    /\ Unlisted \in Entries /\ Unlisted.node = 0 /\ Unlisted.ext = "absent"
    /\ \A x \in Entries : x.node \in Nat /\ x.ext \in {"absent", "valid", "malformed", "rejected"}
  BY DEF Unlisted, Entries

\* The names that are taken from a catalog are members, none of them configured, and they are bounded.
LEMMA ParsedFacts ==
    ASSUME Parameters, NEW l \in [Members -> Entries]
    PROVE  /\ Parsed(l) \in [Members -> Entries]
           /\ Listed(Parsed(l)) \subseteq Members \ Static
           /\ Accepted(Parsed(l)) \subseteq Listed(Parsed(l))
           /\ Accepted(Parsed(l)) \subseteq Listed(l)
           /\ \A m \in Members : m \notin Listed(Parsed(l)) => Parsed(l)[m].node = 0
           /\ \A T \in SUBSET Accepted(Parsed(l)) : Cardinality(T) <= Cap /\ Cardinality(T) \in Nat
  <1> DEFINE F == FirstOf(Listed(l) \ Static)
  <1>1. Members \subseteq Nat /\ IsFiniteSet(Members) /\ Cap \in Nat BY DEF Parameters
  <1>2. Listed(l) \ Static \subseteq Members BY DEF Listed
  <1>3. IsFiniteSet(Listed(l) \ Static) BY <1>1, <1>2, FS_Subset
  <1>4. F \subseteq Listed(l) \ Static BY DEF FirstOf
  <1>5. Cardinality(F) <= Cap
    <2>1. Listed(l) \ Static \subseteq Nat BY <1>1, <1>2
    <2> QED BY <1>1, <1>3, <2>1, FirstOfIsBounded
  <1>6. IsFiniteSet(F) BY <1>3, <1>4, FS_Subset
  <1> HIDE DEF F
  <1>7. Parsed(l) = [m \in Members |-> IF m \in F THEN l[m] ELSE Unlisted] BY DEF Parsed, F
  <1>8. Parsed(l) \in [Members -> Entries] BY <1>7, EntryFacts
  <1>9. Listed(Parsed(l)) \subseteq F BY <1>7, EntryFacts DEF Listed
  <1>10. Accepted(Parsed(l)) \subseteq Listed(Parsed(l)) BY DEF Accepted
  <1>11. \A T \in SUBSET F : Cardinality(T) <= Cap /\ Cardinality(T) \in Nat
    <2> TAKE T \in SUBSET F
    <2>1. IsFiniteSet(T) /\ Cardinality(T) <= Cardinality(F) BY <1>6, FS_Subset
    <2>2. Cardinality(T) \in Nat BY <2>1, FS_CardinalityType
    <2>3. Cardinality(F) \in Nat BY <1>6, FS_CardinalityType
    <2> QED BY <1>1, <1>5, <2>1, <2>2, <2>3
  <1>12. \A m \in Members : m \notin Listed(Parsed(l)) => Parsed(l)[m].node = 0 BY DEF Listed
  <1>13. Accepted(Parsed(l)) \subseteq F BY <1>9, <1>10
  <1> QED BY <1>2, <1>4, <1>8, <1>9, <1>10, <1>11, <1>12, <1>13

\* The blank task and the absent plan.
LEMMA NoTaskFacts ==
    /\ NoTask.list = [m \in Members |-> Unlisted] /\ DOMAIN NoTask = Fields
    /\ NoTask.removed = {} /\ NoTask.loading = {} /\ NoTask.changed = {} /\ NoTask.refresh = {}
  BY DEF NoTask, Fields

LEMMA NoPlanFacts ==
    /\ DOMAIN NoPlan = PlanFields /\ NoPlan.catalog = NoOwner /\ NoPlan.policy = "none"
    /\ NoPlan.gen = 0 /\ NoPlan.node = 0
  BY DEF NoPlan, PlanFields

-----------------------------------------------------------------------------
(* What a step leaves alone.                                               *)

\* An attempt that a step does not concern stays as it is.
LEMMA TaskFrame ==
    ASSUME NEW d, TaskOf(d), held'[d] = held[d], pc'[d] = pc[d], task'[d] = task[d]
    PROVE  TaskOf(d)'
  BY DEF TaskOf

LEMMA AimFrame ==
    ASSUME NEW d, AimOf(d), held'[d] = held[d], pc'[d] = pc[d], task'[d] = task[d],
           applied'[d] = applied[d], desired'[d] = desired[d]
    PROVE  AimOf(d)'
  BY DEF AimOf

LEMMA OwnsFrame ==
    ASSUME NEW d, OwnsOf(d), pc'[d] = pc[d], task'[d] = task[d], applied'[d] = applied[d],
           owner' = owner
    PROVE  OwnsOf(d)'
  BY DEF OwnsOf

\* A catalog without the lock is not disturbed by what happens to members that it does not own.
LEMMA OwnsOutside ==
    ASSUME NEW d, OwnsOf(d), pc'[d] = pc[d], task'[d] = task[d], applied'[d] = applied[d],
           pc[d] \notin Inside, \A n \in applied[d] : owner'[n] = owner[n]
    PROVE  OwnsOf(d)'
  <1>1. pc[d] # "members" BY DEF Inside
  <1> QED BY <1>1 DEF OwnsOf

\* Plans that differ in their liveness at most.
Alike(m) ==
    /\ DOMAIN plan'[m] = PlanFields
    /\ plan'[m] = NoPlan <=> plan[m] = NoPlan
    /\ plan'[m].gen = plan[m].gen /\ plan'[m].catalog = plan[m].catalog
    /\ plan'[m].policy = plan[m].policy /\ plan'[m].node = plan[m].node

(* A step of a catalog that holds no lock before or after it.              *)
Calm == {"idle", "prepare", "publish", "send"}

Quiet(c) ==
    /\ pc[c] \notin Inside /\ pc'[c] \in Phases \ Inside
    /\ DOMAIN held' = Names /\ DOMAIN pc' = Names /\ DOMAIN task' = Names
    /\ DOMAIN held'[c] = {"list", "state"} /\ DOMAIN task'[c] = Fields
    /\ \A d \in Names : d # c => pc'[d] = pc[d] /\ task'[d] = task[d] /\ held'[d] = held[d]
    /\ UNCHANGED <<lock, owner, desired, applied, notify, dir, cooldown, attempt, gens,
                   serving, keeper, restarts>>
    /\ boot' \in Seq(Names)
    /\ DOMAIN plan' = Members /\ \A m \in Members : Alike(m)
    /\ pc'[c] \in Calm => pc[c] \in Calm /\ held'[c].list = held[c].list

LEMMA QuietView ==
    ASSUME Locking, NEW c \in Names, NEW m, Quiet(c)
    PROVE  /\ View(m)' = View(m) /\ InMembers' = InMembers
           /\ lock' = lock /\ lock # c
           /\ lock # NoOwner => lock \in Names /\ pc'[lock] = pc[lock] /\ task'[lock] = task[lock]
  <1>1. lock' = lock /\ dir' = dir BY DEF Quiet
  <1>2. lock # c BY DEF Quiet, Locking
  <1>3. lock # NoOwner => lock \in Names /\ pc'[lock] = pc[lock] /\ task'[lock] = task[lock]
    BY <1>2 DEF Quiet, Locking
  <1>4. InMembers' = InMembers BY <1>1, <1>3 DEF InMembers
  <1>5. View(m)' = View(m)
    <2>1. CASE InMembers
      <3>1. lock # NoOwner BY <2>1 DEF InMembers
      <3>2. Updated(task[lock], m)' = Updated(task[lock], m) BY <1>1, <1>3, <3>1 DEF Updated
      <3> QED BY <1>4, <2>1, <3>2 DEF View
    <2>2. CASE ~InMembers BY <1>1, <1>4, <2>2 DEF View
    <2> QED BY <2>1, <2>2
  <1> QED BY <1>1, <1>2, <1>3, <1>4, <1>5

\* Such a step keeps everything that is not about the attempt's own notes.
LEMMA QuietKeeps ==
    ASSUME Parameters, Inv, NEW c \in Names, Quiet(c), TaskOf(c)', Asking'
    PROVE  Inv'
  <1> USE DEF Quiet
  <1>0. Shapes /\ Locking /\ Cooling BY DEF Inv
  <1>1. Shapes' BY <1>0 DEF Shapes
  <1>2. Locking' BY <1>0 DEF Locking
  <1>3. \A d \in Names : TaskOf(d)' /\ AimOf(d)' /\ OwnsOf(d)'
    <2> TAKE d \in Names
    <2>1. TaskOf(d) /\ AimOf(d) /\ OwnsOf(d) BY DEF Inv
    <2>2. CASE d # c
      <3>1. held'[d] = held[d] /\ pc'[d] = pc[d] /\ task'[d] = task[d] BY <2>2
      <3>2. applied'[d] = applied[d] /\ desired'[d] = desired[d] /\ owner' = owner OBVIOUS
      <3> HIDE DEF Quiet
      <3> QED BY <2>1, <3>1, <3>2, TaskFrame, AimFrame, OwnsFrame
    <2>3. CASE d = c
      <3>1. AimOf(c)' BY <2>1, <2>3 DEF AimOf, Calm, Inside
      <3>2. OwnsOf(c)' BY <2>1, <2>3 DEF OwnsOf, Inside
      <3> QED BY <2>3, <3>1, <3>2
    <2> QED BY <2>2, <2>3
  <1>4. \A m \in Members : MemberOK(m)'
    <2> TAKE m \in Members
    <2>1. MemberOK(m) BY DEF Inv
    <2>2. View(m)' = View(m)
      <3> HIDE DEF Quiet
      <3> QED BY <1>0, QuietView
    <2>3. Alike(m) OBVIOUS
    <2> QED BY <2>1, <2>2, <2>3, NoPlanFacts DEF MemberOK, Alike
  <1>5. Cooling'
    <2>1. lock' = lock /\ (lock # NoOwner => lock \in Names /\ pc'[lock] = pc[lock] /\ task'[lock] = task[lock])
      <3> HIDE DEF Quiet
      <3> QED BY <1>0, QuietView
    <2>2. \A e \in cooldown' :
             e[1] \in Members /\ (\/ Rightful(e)'
                                  \/ (lock # NoOwner /\ pc[lock] \in {"members", "cooldowns"} /\ Noted(e[1]))')
      <3> TAKE e \in cooldown'
      <3>1. e[1] \in Members BY <1>0 DEF Cooling
      <3>2. CASE Rightful(e) BY <3>1, <3>2 DEF Rightful, Alike
      <3>3. CASE lock # NoOwner /\ pc[lock] \in {"members", "cooldowns"} /\ Noted(e[1])
        BY <2>1, <3>1, <3>3 DEF Noted
      <3> QED BY <1>0, <3>1, <3>2, <3>3 DEF Cooling
    <2>3. \A d \in Names : pc'[d] \in Inside =>
             \A m \in task'[d].changed : m \in Members /\ (plan'[m] # NoPlan \/ m \in task'[d].removed)
      <3> TAKE d \in Names
      <3> SUFFICES ASSUME pc'[d] \in Inside, NEW m \in task'[d].changed
                   PROVE  m \in Members /\ (plan'[m] # NoPlan \/ m \in task'[d].removed)
          OBVIOUS
      <3>1. d # c /\ pc[d] \in Inside /\ task'[d] = task[d] OBVIOUS
      <3>2. m \in Members /\ (plan[m] # NoPlan \/ m \in task[d].removed) BY <1>0, <3>1 DEF Cooling
      <3> QED BY <3>1, <3>2 DEF Alike
    <2> QED BY <2>2, <2>3 DEF Cooling
  <1> QED BY <1>1, <1>2, <1>3, <1>4, <1>5 DEF Inv

\* It also keeps the requests, when it sends none.
LEMMA QuietAsks ==
    ASSUME Inv, NEW c \in Names, Quiet(c), pc[c] \in Early, asked' = asked
    PROVE  Asking'
  <1>0. Locking /\ Asking BY DEF Inv
  <1> SUFFICES ASSUME serving', NEW m \in Members, View(m)' = "loading" PROVE Requested(m)' BY DEF Asking
  <1>1. View(m)' = View(m) BY <1>0, QuietView
  <1>2. serving' = serving BY DEF Quiet
  <1>3. Requested(m) BY <1>0, <1>1, <1>2 DEF Asking
  <1>4. plan'[m].gen = plan[m].gen BY DEF Quiet, Alike
  <1>5. CASE <<m, plan[m].gen>> \in asked BY <1>4, <1>5 DEF Requested
  <1>6. ASSUME NEW d \in Names, pc[d] \in Inside \cup {"send"}, <<m, plan[m].gen>> \in task[d].refresh
        PROVE  Requested(m)'
    <2>1. d # c BY <1>6 DEF Early, Inside
    <2>2. pc'[d] = pc[d] /\ task'[d] = task[d] BY <2>1 DEF Quiet
    <2> QED BY <1>4, <1>6, <2>2 DEF Requested
  <1> QED BY <1>3, <1>5, <1>6 DEF Requested

-----------------------------------------------------------------------------
(* The steps before the lock.                                              *)

\* Every plan is like itself.
LEMMA SamePlans ==
    ASSUME Inv, plan' = plan
    PROVE  DOMAIN plan' = Members /\ \A m \in Members : Alike(m)
  <1>1. \A m \in Members : DOMAIN plan[m] = PlanFields BY DEF Inv, MemberOK
  <1>2. DOMAIN plan = Members BY DEF Inv, Shapes
  <1> QED BY <1>1, <1>2 DEF Alike

LEMMA BlankWith ==
    ASSUME NEW l
    PROVE  LET t == [NoTask EXCEPT !.list = l]
           IN  /\ DOMAIN t = Fields /\ t.list = l
               /\ t.removed = {} /\ t.loading = {} /\ t.changed = {} /\ t.refresh = {}
  BY DEF NoTask, Fields

LEMMA TransferKeeps ==
    ASSUME Parameters, Inv, NEW c \in Names, NEW l \in Listings, Transfer(c, l)
    PROVE  Inv' /\ Quiet(c)
  <1>0. Shapes /\ TaskOf(c) BY DEF Inv
  <1> DEFINE t == [NoTask EXCEPT !.list = l]
  <1>1. /\ DOMAIN t = Fields /\ t.list = l
        /\ t.removed = {} /\ t.loading = {} /\ t.changed = {} /\ t.refresh = {}
    BY BlankWith
  <1>2. pc[c] = "idle" /\ pc' = [pc EXCEPT ![c] = "prepare"] /\ task' = [task EXCEPT ![c] = t]
    BY DEF Transfer
  <1> HIDE DEF t
  <1>3. pc'[c] = "prepare" /\ task'[c] = t BY <1>0, <1>2 DEF Shapes
  <1>4. /\ UNCHANGED <<held, lock, owner, desired, applied, plan, notify, dir, cooldown,
                       attempt, asked, gens, serving, keeper, restarts, boot>>
    BY DEF Transfer
  <1>5. Quiet(c)
    <2>1. DOMAIN plan' = Members /\ \A m \in Members : Alike(m) BY <1>4, SamePlans
    <2> QED BY <1>0, <1>1, <1>2, <1>3, <1>4, <2>1 DEF Quiet, Shapes, Inside, Phases, Early, Calm
  <1>6. TaskOf(c)'
    <2>1. l \in [Members -> Entries] BY DEF Parameters
    <2> QED BY <1>0, <1>1, <1>3, <1>4, <2>1 DEF TaskOf, Inside
  <1>7. Asking' BY <1>2, <1>4, <1>5, QuietAsks DEF Early
  <1> QED BY <1>5, <1>6, <1>7, QuietKeeps

\* A confirmation or an expiry of a catalog.
LEMMA StateKeeps ==
    ASSUME Parameters, Inv, NEW c \in Names, NEW s \in {"active", "expired"}, pc[c] = "idle",
           held' = [held EXCEPT ![c].state = s],
           UNCHANGED <<pc, task, lock, owner, desired, applied, plan, notify, dir, cooldown,
                       attempt, asked, gens, serving, keeper, restarts, boot>>
    PROVE  Inv' /\ Quiet(c)
  <1>0. Shapes /\ TaskOf(c) BY DEF Inv
  <1>1. DOMAIN held' = Names /\ \A d \in Names : d # c => held'[d] = held[d] BY <1>0 DEF Shapes
  <1>2. DOMAIN held'[c] = {"list", "state"} /\ held'[c].list = held[c].list /\ held'[c].state = s
    BY <1>0 DEF Shapes
  <1>5. Quiet(c)
    <2>1. DOMAIN plan' = Members /\ \A m \in Members : Alike(m) BY SamePlans
    <2> QED BY <1>0, <1>1, <1>2, <2>1 DEF Quiet, Shapes, Inside, Phases, Early, Calm
  <1>6. TaskOf(c)' BY <1>0, <1>2 DEF TaskOf, Inside, Early
  <1>7. Asking' BY <1>5, QuietAsks DEF Early
  <1> QED BY <1>5, <1>6, <1>7, QuietKeeps

LEMMA ConfirmKeeps ==
    ASSUME Parameters, Inv, NEW c \in Names, Confirm(c)
    PROVE  Inv' /\ Quiet(c)
  <1>1. pc[c] = "idle" /\ held' = [held EXCEPT ![c].state = "active"]
        /\ UNCHANGED <<pc, task, lock, owner, desired, applied, plan, notify, dir, cooldown,
                       attempt, asked, gens, serving, keeper, restarts, boot>>
    BY DEF Confirm
  <1> QED BY <1>1, StateKeeps

LEMMA ExpireKeeps ==
    ASSUME Parameters, Inv, NEW c \in Names, Expire(c)
    PROVE  Inv' /\ Quiet(c)
  <1>1. pc[c] = "idle" /\ held' = [held EXCEPT ![c].state = "expired"]
        /\ UNCHANGED <<pc, task, lock, owner, desired, applied, plan, notify, dir, cooldown,
                       attempt, asked, gens, serving, keeper, restarts, boot>>
    BY DEF Expire
  <1> QED BY <1>1, StateKeeps

\* A step back to rest.
LEMMA RestKeeps ==
    ASSUME Parameters, Inv, NEW c \in Names, pc[c] \in {"prepare", "publish"},
           pc' = [pc EXCEPT ![c] = "idle"], task' = [task EXCEPT ![c] = NoTask],
           UNCHANGED <<held, lock, owner, desired, applied, notify, dir, cooldown,
                       attempt, asked, gens, serving, keeper, restarts, boot>>,
           DOMAIN plan' = Members, \A m \in Members : Alike(m)
    PROVE  Inv' /\ Quiet(c)
  <1>0. Shapes /\ TaskOf(c) BY DEF Inv
  <1>3. pc'[c] = "idle" /\ task'[c] = NoTask BY <1>0 DEF Shapes
  <1>5. Quiet(c) BY <1>0, <1>3, NoTaskFacts DEF Quiet, Shapes, Inside, Phases, Early, Calm
  <1>6. TaskOf(c)' BY <1>0, <1>3, NoTaskFacts DEF TaskOf, Inside
  <1>7. Asking' BY <1>5, QuietAsks DEF Early
  <1> QED BY <1>5, <1>6, <1>7, QuietKeeps

LEMMA AbortKeeps ==
    ASSUME Parameters, Inv, NEW c \in Names, Abort(c)
    PROVE  Inv' /\ Quiet(c)
  <1>1. /\ pc[c] = "publish"
        /\ pc' = [pc EXCEPT ![c] = "idle"] /\ task' = [task EXCEPT ![c] = NoTask]
        /\ UNCHANGED <<held, lock, owner, desired, applied, plan, notify, dir, cooldown,
                       attempt, asked, gens, serving, keeper, restarts, boot>>
    BY DEF Abort
  <1>2. DOMAIN plan' = Members /\ \A m \in Members : Alike(m) BY <1>1, SamePlans
  <1> QED BY <1>1, <1>2, RestKeeps

\* A rotated token changes nothing else of a plan.
LEMMA RotatedPlans ==
    ASSUME Parameters, Inv, NEW done, \A m \in done : m \in Members => plan[m] # NoPlan,
           plan' = [m \in Members |-> IF m \in done THEN [plan[m] EXCEPT !.live = FALSE]
                                      ELSE plan[m]]
    PROVE  DOMAIN plan' = Members /\ \A m \in Members : Alike(m)
  <1>1. DOMAIN plan' = Members OBVIOUS
  <1>2. ASSUME NEW m \in Members PROVE Alike(m)
    <2>1. DOMAIN plan[m] = PlanFields BY DEF Inv, MemberOK
    <2>2. CASE m \in done
      <3>1. plan'[m] = [plan[m] EXCEPT !.live = FALSE] BY <2>2
      <3>2. /\ DOMAIN plan'[m] = PlanFields /\ plan'[m].gen = plan[m].gen
            /\ plan'[m].catalog = plan[m].catalog /\ plan'[m].policy = plan[m].policy
            /\ plan'[m].node = plan[m].node
        BY <2>1, <3>1 DEF PlanFields
      <3>3. plan[m] # NoPlan BY <2>2
      <3>4. plan[m].catalog \in Names BY <3>3 DEF Inv, MemberOK
      <3>5. plan'[m] # NoPlan BY <3>2, <3>4, NoPlanFacts DEF Parameters
      <3> QED BY <3>2, <3>3, <3>5 DEF Alike
    <2>3. CASE m \notin done BY <2>1, <2>3 DEF Alike
    <2> QED BY <2>2, <2>3
  <1> QED BY <1>1, <1>2

LEMMA PrepareKeeps ==
    ASSUME Parameters, Inv, NEW c \in Names, Prepare(c)
    PROVE  Inv' /\ Quiet(c)
  <1>0. Shapes /\ TaskOf(c) BY DEF Inv
  <1>1. PICK done \in SUBSET Revoked(c) :
          /\ plan' = [m \in Members |-> IF m \in done THEN [plan[m] EXCEPT !.live = FALSE] ELSE plan[m]]
          /\ pc' = [pc EXCEPT ![c] = IF done = Revoked(c) THEN "publish" ELSE "idle"]
          /\ task' = IF done = Revoked(c) THEN task ELSE [task EXCEPT ![c] = NoTask]
    BY DEF Prepare
  <1>2. pc[c] = "prepare"
        /\ UNCHANGED <<held, lock, owner, desired, applied, notify, dir, cooldown,
                       attempt, asked, gens, serving, keeper, restarts, boot>>
    BY DEF Prepare
  <1>3. \A m \in done : m \in Members => plan[m] # NoPlan BY DEF Revoked
  <1>4. DOMAIN plan' = Members /\ \A m \in Members : Alike(m) BY <1>1, <1>3, RotatedPlans
  <1>5. CASE done # Revoked(c) BY <1>1, <1>2, <1>4, <1>5, RestKeeps
  <1>6. CASE done = Revoked(c)
    <2>1. pc'[c] = "publish" /\ task' = task BY <1>0, <1>1, <1>6 DEF Shapes
    <2>2. Quiet(c) BY <1>0, <1>1, <1>2, <1>4, <1>6, <2>1 DEF Quiet, Shapes, Inside, Phases, Early, Calm
    <2>3. TaskOf(c)' BY <1>0, <1>2, <2>1 DEF TaskOf, Inside, Early
    <2>4. Asking' BY <1>2, <2>2, QuietAsks DEF Early
    <2> QED BY <2>2, <2>3, <2>4, QuietKeeps
  <1> QED BY <1>5, <1>6

LEMMA PublishKeeps ==
    ASSUME Parameters, Inv, NEW c \in Names, Publish(c)
    PROVE  Inv' /\ Quiet(c)
  <1>0. Shapes /\ TaskOf(c) BY DEF Inv
  <1>1. /\ pc[c] = "publish" /\ pc' = [pc EXCEPT ![c] = "filter"]
        /\ held' = [held EXCEPT ![c] = [list |-> task[c].list, state |-> "active"]]
        /\ UNCHANGED <<task, lock, owner, desired, applied, plan, notify, dir, cooldown,
                       attempt, asked, gens, serving, keeper, restarts, boot>>
    BY DEF Publish
  <1>2. pc'[c] = "filter" /\ held'[c] = [list |-> task[c].list, state |-> "active"] BY <1>0, <1>1 DEF Shapes
  <1>3. held'[c].list = task[c].list /\ held'[c].state = "active" /\ DOMAIN held'[c] = {"list", "state"}
    BY <1>2
  <1>4. DOMAIN plan' = Members /\ \A m \in Members : Alike(m) BY <1>1, SamePlans
  <1>5. Quiet(c) BY <1>0, <1>1, <1>2, <1>3, <1>4 DEF Quiet, Shapes, Inside, Phases, Early, Calm
  <1>6. TaskOf(c)' BY <1>0, <1>1, <1>2, <1>3 DEF TaskOf, Inside, Early
  <1>7. Asking' BY <1>1, <1>5, QuietAsks DEF Early
  <1> QED BY <1>5, <1>6, <1>7, QuietKeeps

LEMMA FilterKeeps ==
    ASSUME Parameters, Inv, NEW c \in Names, Filter(c)
    PROVE  Inv' /\ Quiet(c)
  <1>0. Shapes /\ TaskOf(c) BY DEF Inv
  <1>1. /\ pc[c] = "filter" /\ pc' = [pc EXCEPT ![c] = "lock"]
        /\ UNCHANGED <<held, lock, owner, desired, applied, plan, notify, dir, cooldown,
                       attempt, asked, gens, serving, keeper, restarts, boot>>
    BY DEF Filter, world
  <1>2. /\ DOMAIN task' = Names /\ DOMAIN task'[c] = Fields
        /\ \A d \in Names : d # c => task'[d] = task[d]
        /\ task'[c].list = Parsed(task[c].list)
        /\ task'[c].candidates = Accepted(Parsed(task[c].list))
        /\ task'[c].removed = task[c].removed /\ task'[c].loading = task[c].loading
        /\ task'[c].changed = task[c].changed /\ task'[c].refresh = task[c].refresh
    BY <1>0 DEF Filter, Shapes, Fields
  <1>3. pc'[c] = "lock" BY <1>0, <1>1 DEF Shapes
  <1>4. DOMAIN plan' = Members /\ \A m \in Members : Alike(m) BY <1>1, SamePlans
  <1>5. Quiet(c) BY <1>0, <1>1, <1>2, <1>3, <1>4 DEF Quiet, Shapes, Inside, Phases, Early, Calm
  <1>6. TaskOf(c)' BY <1>0, <1>1, <1>2, <1>3 DEF TaskOf, Inside, Early
  <1>7. Asking' BY <1>1, <1>5, QuietAsks DEF Early
  <1> QED BY <1>5, <1>6, <1>7, QuietKeeps

LEMMA SendKeeps ==
    ASSUME Parameters, Inv, NEW c \in Names, Send(c)
    PROVE  Inv' /\ Quiet(c)
  <1>0. Shapes /\ Locking /\ TaskOf(c) /\ Asking BY DEF Inv
  <1>1. /\ pc[c] = "send"
        /\ UNCHANGED <<held, lock, owner, desired, applied, plan, notify, dir, cooldown,
                       attempt, gens, serving, keeper, restarts, boot>>
    BY DEF Send, world
  <1>2. DOMAIN plan' = Members /\ \A m \in Members : Alike(m) BY <1>1, SamePlans
  <1>3. CASE /\ serving /\ pc' = pc
             /\ \E r \in task[c].refresh :
                   asked' = asked \cup {r} /\ task' = [task EXCEPT ![c].refresh = @ \ {r}]
    <2>1. PICK r \in task[c].refresh :
                   asked' = asked \cup {r} /\ task' = [task EXCEPT ![c].refresh = @ \ {r}]
      BY <1>3
    <2>2. /\ DOMAIN task' = Names /\ DOMAIN task'[c] = Fields
          /\ \A d \in Names : d # c => task'[d] = task[d]
          /\ task'[c].refresh = task[c].refresh \ {r}
      BY <1>0, <2>1 DEF Shapes, Fields
    <2>3. Quiet(c) BY <1>0, <1>1, <1>2, <1>3, <2>2 DEF Quiet, Shapes, Inside, Phases, Early, Calm
    <2>4. TaskOf(c)' BY <1>0, <1>1, <1>3 DEF TaskOf, Inside, Early
    <2>5. Asking'
      <3> SUFFICES ASSUME NEW m \in Members, View(m)' = "loading" PROVE Requested(m)' BY DEF Asking
      <3>1. View(m)' = View(m) BY <1>0, <2>3, QuietView
      <3>2. Requested(m) BY <1>0, <1>3, <3>1 DEF Asking
      <3> DEFINE q == <<m, plan[m].gen>>
      <3>3. q' = q BY <1>1
      <3>4. q \in asked \/ \E d \in Names : pc[d] \in Inside \cup {"send"} /\ q \in task[d].refresh
        BY <3>2 DEF Requested
      <3> SUFFICES q \in asked' \/ \E d \in Names : pc'[d] \in Inside \cup {"send"} /\ q \in task'[d].refresh
          BY <1>1 DEF Requested
      <3> HIDE DEF q
      <3> QED BY <1>3, <2>1, <2>2, <3>4
    <2> QED BY <2>3, <2>4, <2>5, QuietKeeps
  <1>4. CASE /\ task[c].refresh = {} \/ ~serving
             /\ task' = [task EXCEPT ![c] = NoTask] /\ pc' = [pc EXCEPT ![c] = "idle"] /\ asked' = asked
    <2>1. /\ pc'[c] = "idle" /\ task'[c] = NoTask
          /\ \A d \in Names : d # c => task'[d] = task[d] /\ pc'[d] = pc[d]
      BY <1>0, <1>4 DEF Shapes
    <2>3. Quiet(c) BY <1>0, <1>1, <1>2, <1>4, <2>1, NoTaskFacts DEF Quiet, Shapes, Inside, Phases, Early, Calm
    <2>4. TaskOf(c)' BY <1>0, <1>1, <2>1, NoTaskFacts DEF TaskOf, Inside
    <2>5. Asking'
      <3> SUFFICES ASSUME serving', NEW m \in Members, View(m)' = "loading" PROVE Requested(m)' BY DEF Asking
      <3>1. View(m)' = View(m) /\ serving BY <1>0, <1>1, <2>3, QuietView
      <3>2. Requested(m) BY <1>0, <3>1 DEF Asking
      <3> DEFINE q == <<m, plan[m].gen>>
      <3>4. q \in asked \/ \E d \in Names : pc[d] \in Inside \cup {"send"} /\ q \in task[d].refresh
        BY <3>2 DEF Requested
      <3> SUFFICES q \in asked' \/ \E d \in Names : pc'[d] \in Inside \cup {"send"} /\ q \in task'[d].refresh
          BY <1>1 DEF Requested
      <3> HIDE DEF q
      <3> QED BY <1>4, <2>1, <3>1, <3>4
    <2> QED BY <2>3, <2>4, <2>5, QuietKeeps
  <1> QED BY <1>3, <1>4 DEF Send

LEMMA BootNextKeeps ==
    ASSUME Parameters, Inv, BootNext
    PROVE  /\ Inv'
           /\ \E c \in Names : /\ c = Head(boot) /\ boot # << >> /\ boot' = Tail(boot)
                               /\ Quiet(c) /\ pc[c] = "idle" /\ held' = held
                               /\ IF Skips(c) THEN pc' = pc ELSE pc'[c] = "filter"
  <1>0. Shapes BY DEF Inv
  <1>a. Head(boot) \in Names /\ Tail(boot) \in Seq(Names)
    <2>1. boot \in Seq(Names) /\ boot # << >> BY <1>0 DEF BootNext, Shapes
    <2> QED BY <2>1
  <1>c. PICK c \in Names : c = Head(boot) BY <1>a
  <1> DEFINE t == [NoTask EXCEPT !.list = held[c].list]
  <1>1. c \in Names /\ Tail(boot) \in Seq(Names) BY <1>a
  <1>2. /\ pc[c] = "idle" /\ boot' = Tail(boot)
        /\ UNCHANGED <<held, lock, owner, desired, applied, plan, notify, dir, cooldown,
                       attempt, asked, gens, serving, keeper, restarts>>
    BY <1>c DEF BootNext, world
  <1>3. IF Skips(c) THEN UNCHANGED <<pc, task>>
        ELSE pc' = [pc EXCEPT ![c] = "filter"] /\ task' = [task EXCEPT ![c] = t]
    BY <1>c DEF BootNext
  <1>4. /\ DOMAIN t = Fields /\ t.list = held[c].list
        /\ t.removed = {} /\ t.loading = {} /\ t.changed = {} /\ t.refresh = {}
    BY BlankWith
  <1>5. TaskOf(c) BY <1>1 DEF Inv
  <1> HIDE DEF t
  <1>6. DOMAIN plan' = Members /\ \A m \in Members : Alike(m) BY <1>2, SamePlans
  <1>b. boot # << >> BY DEF BootNext
  <1>7. CASE Skips(c)
    <2>0. UNCHANGED <<pc, task>> BY <1>3, <1>7
    <2>1. Quiet(c) BY <1>0, <1>1, <1>2, <1>6, <2>0 DEF Quiet, Shapes, Inside, Phases, Early, Calm
    <2>2. TaskOf(c)' BY <1>2, <1>5, <2>0 DEF TaskOf
    <2>3. Asking' BY <1>1, <1>2, <2>1, QuietAsks DEF Early
    <2>4. Inv' BY <1>1, <2>1, <2>2, <2>3, QuietKeeps
    <2> QED BY <1>2, <1>7, <1>b, <1>c, <2>0, <2>1, <2>4
  <1>8. CASE ~Skips(c)
    <2>0. pc'[c] = "filter" /\ task'[c] = t BY <1>0, <1>1, <1>3, <1>8 DEF Shapes
    <2>1. Quiet(c) BY <1>0, <1>1, <1>2, <1>3, <1>4, <1>6, <1>8, <2>0 DEF Quiet, Shapes, Inside, Phases, Early, Calm
    <2>2. TaskOf(c)' BY <1>2, <1>4, <1>5, <2>0 DEF TaskOf, Inside
    <2>3. Asking' BY <1>1, <1>2, <2>1, QuietAsks DEF Early
    <2>4. Inv' BY <1>1, <2>1, <2>2, <2>3, QuietKeeps
    <2> QED BY <1>2, <1>8, <1>b, <1>c, <2>0, <2>1, <2>4
  <1> QED BY <1>7, <1>8

-----------------------------------------------------------------------------
(* The transfers of the members, the start-up and the beginning.           *)

\* A step that leaves catalogs, plans and the lock alone.
Aside ==
    UNCHANGED <<held, pc, task, lock, owner, desired, applied, plan, notify, gens, keeper, restarts, boot>>

LEMMA AsideKeeps ==
    ASSUME Inv, Aside, serving' \in BOOLEAN, DOMAIN attempt' = Members, DOMAIN dir' = Members,
           \A m \in Members : /\ dir'[m] \in {"absent", "loading", "active", "revived"}
                              /\ (dir'[m] = "absent") <=> (dir[m] = "absent"),
           \A e \in cooldown' : e \in cooldown \/ (e[1] \in Members /\ Rightful(e)),
           Asking'
    PROVE  Inv'
  <1> USE DEF Aside
  <1>0. Shapes /\ Locking /\ Cooling BY DEF Inv
  <1>1. Shapes' BY <1>0 DEF Shapes
  <1>2. Locking' BY <1>0 DEF Locking
  <1>3. \A d \in Names : TaskOf(d)' /\ AimOf(d)' /\ OwnsOf(d)'
    <2> TAKE d \in Names
    <2>1. TaskOf(d) /\ AimOf(d) /\ OwnsOf(d) BY DEF Inv
    <2> QED BY <2>1, TaskFrame, AimFrame, OwnsFrame
  <1>4. \A m \in Members : MemberOK(m)'
    <2> TAKE m \in Members
    <2>1. MemberOK(m) BY DEF Inv
    <2>2. (View(m)' = "absent") <=> (View(m) = "absent") BY DEF View, InMembers, Updated
    <2> QED BY <2>1, <2>2 DEF MemberOK
  <1>5. Cooling'
    <2>1. \A e \in cooldown' :
             e[1] \in Members /\ (\/ Rightful(e)'
                                  \/ (lock # NoOwner /\ pc[lock] \in {"members", "cooldowns"} /\ Noted(e[1]))')
      <3> TAKE e \in cooldown'
      <3>1. e[1] \in Members BY <1>0 DEF Cooling
      <3>2. CASE Rightful(e) BY <3>1, <3>2 DEF Rightful
      <3>3. CASE lock # NoOwner /\ pc[lock] \in {"members", "cooldowns"} /\ Noted(e[1])
        BY <3>1, <3>3 DEF Noted
      <3> QED BY <1>0, <3>1, <3>2, <3>3 DEF Cooling
    <2> QED BY <1>0, <2>1 DEF Cooling
  <1> QED BY <1>1, <1>2, <1>3, <1>4, <1>5 DEF Inv

\* Requests do not go away, and nothing begins to load.
LEMMA AsideAsks ==
    ASSUME Inv, Aside, serving' = serving, asked' = asked,
           \A m \in Members : dir'[m] = dir[m] \/ (dir'[m] = "active" /\ dir[m] # "absent")
    PROVE  Asking'
  <1> SUFFICES ASSUME serving', NEW m \in Members, View(m)' = "loading" PROVE Requested(m)' BY DEF Asking
  <1>1. View(m) = "loading" BY DEF Aside, View, InMembers, Updated
  <1>2. Requested(m) BY <1>1 DEF Inv, Asking
  <1> QED BY <1>2 DEF Aside, Requested

LEMMA StartKeeps ==
    ASSUME Inv, NEW m \in Members, Start(m)
    PROVE  Inv' /\ Aside
  <1>0. Shapes /\ \A n \in Members : MemberOK(n) BY DEF Inv
  <1>1. Aside /\ UNCHANGED <<dir, cooldown, asked, serving>> BY DEF Start, world, Aside
  <1>2. DOMAIN attempt' = Members BY <1>0 DEF Start, Shapes
  <1>3. Asking' BY <1>1, AsideAsks
  <1> QED BY <1>0, <1>1, <1>2, <1>3, AsideKeeps DEF Shapes, MemberOK

LEMMA UnsupportedKeeps ==
    ASSUME Inv, NEW m \in Members, Unsupported(m)
    PROVE  Inv' /\ Aside
  <1>0. Shapes /\ \A n \in Members : MemberOK(n) BY DEF Inv
  <1>1. Aside /\ UNCHANGED <<dir, attempt, asked, serving>> BY DEF Unsupported, world, Aside
  <1>2. \A e \in cooldown' : e \in cooldown \/ (e[1] \in Members /\ Rightful(e))
    BY DEF Unsupported, Rightful, Current
  <1>3. Asking' BY <1>1, AsideAsks
  <1> QED BY <1>0, <1>1, <1>2, <1>3, AsideKeeps DEF Shapes, MemberOK

LEMMA FinishKeeps ==
    ASSUME Inv, NEW m \in Members, Finish(m)
    PROVE  Inv' /\ Aside
  <1>0. Shapes /\ \A n \in Members : MemberOK(n) BY DEF Inv
  <1>1. Aside /\ UNCHANGED <<cooldown, asked, serving>> BY DEF Finish, Aside
  <1>2. DOMAIN attempt' = Members /\ DOMAIN dir' = Members BY <1>0 DEF Finish, Shapes
  <1>3. \A n \in Members : dir'[n] = dir[n] \/ (dir'[n] = "active" /\ dir[n] # "absent")
    <2>1. dir' = [dir EXCEPT ![m] = IF Current(m) /\ dir[m] # "absent" THEN "active" ELSE @] BY DEF Finish
    <2> QED BY <1>0, <2>1 DEF Shapes
  <1>4. Asking' BY <1>1, <1>3, AsideAsks
  <1>5. \A n \in Members : /\ dir'[n] \in {"absent", "loading", "active", "revived"}
                           /\ (dir'[n] = "absent") <=> (dir[n] = "absent")
    BY <1>0, <1>3 DEF MemberOK
  <1> QED BY <1>0, <1>1, <1>2, <1>4, <1>5, AsideKeeps DEF Shapes

LEMMA PruneKeeps ==
    ASSUME Inv, Prune
    PROVE  Inv' /\ Aside
  <1>0. Shapes /\ \A n \in Members : MemberOK(n) BY DEF Inv
  <1>1. Aside /\ UNCHANGED <<dir, attempt, asked, serving>> BY DEF Prune, world, Aside
  <1>2. \A e \in cooldown' : e \in cooldown BY DEF Prune
  <1>3. Asking' BY <1>1, AsideAsks
  <1> QED BY <1>0, <1>1, <1>2, <1>3, AsideKeeps DEF Shapes, MemberOK

LEMMA OpenKeeps ==
    ASSUME Inv, Open
    PROVE  Inv' /\ Aside
  <1>0. Shapes /\ \A n \in Members : MemberOK(n) BY DEF Inv
  <1>1. Aside /\ UNCHANGED <<dir, attempt, cooldown>> /\ serving' = TRUE BY DEF Open, world, Aside
  <1>2. Asking'
    <2> SUFFICES ASSUME NEW m \in Members, View(m)' = "loading" PROVE Requested(m)' BY DEF Asking
    <2>1. View(m) = "loading" BY <1>1 DEF Aside, View, InMembers, Updated
    <2>2. plan[m] # NoPlan BY <1>0, <2>1 DEF MemberOK
    <2>3. <<m, plan[m].gen>> \in asked' BY <2>2 DEF Open
    <2> QED BY <1>1, <2>3 DEF Aside, Requested
  <1> QED BY <1>0, <1>1, <1>2, AsideKeeps DEF Shapes, MemberOK

\* Nothing is under way and nothing is provisioned.
Empty ==
    /\ pc = [c \in Names |-> "idle"] /\ task = [c \in Names |-> NoTask]
    /\ lock = NoOwner /\ owner = [m \in Members |-> NoOwner]
    /\ desired = [c \in Names |-> NoTask.list] /\ applied = [c \in Names |-> {}]
    /\ plan = [m \in Members |-> NoPlan] /\ notify = [m \in Members |-> "none"]
    /\ dir = [m \in Members |-> "absent"] /\ attempt = [m \in Members |-> 0]
    /\ cooldown = {} /\ gens = 0 /\ boot \in Seq(Names)
    /\ DOMAIN keeper = Members /\ serving \in BOOLEAN
    /\ DOMAIN held = Names
    /\ \A c \in Names : /\ DOMAIN held[c] = {"list", "state"}
                        /\ held[c].list \in [Members -> Entries]
                        /\ held[c].state \in {"none", "active", "expired"}

LEMMA EmptyIsFine ==
    ASSUME Parameters, Empty
    PROVE  Inv
  <1> USE DEF Empty
  <1>1. Shapes BY NoTaskFacts DEF Shapes
  <1>2. Locking
    <2>1. NoOwner \notin Names BY DEF Parameters
    <2> QED BY <2>1 DEF Locking, Phases, Early, Inside
  <1>3. \A c \in Names : TaskOf(c) /\ AimOf(c) /\ OwnsOf(c)
    <2> TAKE c \in Names
    <2>0. pc[c] = "idle" /\ task[c] = NoTask /\ applied[c] = {} /\ desired[c] = NoTask.list OBVIOUS
    <2>1. TaskOf(c) BY <2>0, NoTaskFacts DEF TaskOf, Inside
    <2>2. AimOf(c)
      <3>1. Cardinality({}) = 0 BY FS_EmptySet
      <3>2. Cap \in Nat BY DEF Parameters
      <3>3. Cardinality({}) <= Cap BY <3>1, <3>2
      <3> QED BY <2>0, <3>3, NoTaskFacts DEF AimOf, Inside
    <2>3. OwnsOf(c) BY <2>0 DEF OwnsOf, Inside
    <2> QED BY <2>1, <2>2, <2>3
  <1>4. \A m \in Members : MemberOK(m)
    <2> TAKE m \in Members
    <2>1. View(m) = "absent" BY DEF View, InMembers
    <2> QED BY <2>1, NoPlanFacts DEF MemberOK
  <1>5. Cooling BY DEF Cooling, Inside
  <1>6. Asking BY DEF Asking, View, InMembers
  <1> QED BY <1>1, <1>2, <1>3, <1>4, <1>5, <1>6 DEF Inv

LEMMA InitIsEmpty ==
    ASSUME Parameters, Init
    PROVE  Empty
  BY NoTaskFacts, EntryFacts DEF Init, Empty

LEMMA RestartIsEmpty ==
    ASSUME Parameters, Inv, Restart
    PROVE  /\ Empty'
           /\ \A c \in Names : /\ held'[c].list = held[c].list
                               /\ held'[c].state = "expired" => (held[c].state = "expired" \/ Expires)
                               /\ held'[c].state # "none" => held[c].state # "none"
  <1>0. Shapes /\ \A c \in Names : TaskOf(c) BY DEF Inv
  <1>1. PICK late \in SUBSET {c \in Names : Expires /\ held[c].state = "active"} :
          held' = [c \in Names |-> IF c \in late THEN [held[c] EXCEPT !.state = "expired"] ELSE held[c]]
    BY DEF Restart
  <1>2. \A c \in Names : /\ DOMAIN held'[c] = {"list", "state"}
                         /\ held'[c].list = held[c].list
                         /\ held'[c].state \in {held[c].state, "expired"}
                         /\ held'[c].state # held[c].state => Expires /\ held[c].state = "active"
    BY <1>0, <1>1 DEF Shapes
  <1>3. \A c \in Names : held[c].list \in [Members -> Entries] /\ held[c].state \in {"none", "active", "expired"}
    BY <1>0 DEF TaskOf
  <1>4. boot' \in Seq(Names) /\ serving' \in BOOLEAN BY DEF Restart, Parameters
  <1>5. DOMAIN held' = Names BY <1>1
  <1>6. Empty' BY <1>2, <1>3, <1>4, <1>5 DEF Restart, Empty
  <1> QED BY <1>2, <1>6

-----------------------------------------------------------------------------
(* The steps with the lock.                                                *)

\* The other catalogs are outside, and stay as they are.
Apart(c) ==
    /\ DOMAIN pc' = Names /\ DOMAIN task' = Names /\ DOMAIN desired' = Names /\ DOMAIN applied' = Names
    /\ DOMAIN task'[c] = Fields
    /\ \A d \in Names : d # c => /\ pc'[d] = pc[d] /\ task'[d] = task[d]
                                 /\ desired'[d] = desired[d] /\ applied'[d] = applied[d]
    /\ UNCHANGED <<held, attempt, asked, serving, restarts, boot>>

LEMMA ApartKeeps ==
    ASSUME Parameters, Inv, NEW c \in Names, Apart(c), lock \in {NoOwner, c},
           \A m \in Members : owner'[m] # owner[m] => owner[m] \in {NoOwner, c}
    PROVE  \A d \in Names : d # c => /\ TaskOf(d)' /\ AimOf(d)' /\ OwnsOf(d)'
                                     /\ pc[d] \notin Inside /\ pc'[d] \in Phases \ Inside
  <1> SUFFICES ASSUME NEW d \in Names, d # c
               PROVE  TaskOf(d)' /\ AimOf(d)' /\ OwnsOf(d)' /\ pc[d] \notin Inside /\ pc'[d] \in Phases \ Inside
      OBVIOUS
  <1>1. TaskOf(d) /\ AimOf(d) /\ OwnsOf(d) /\ Locking BY DEF Inv
  <1>2. pc[d] \notin Inside /\ pc[d] \in Phases
    <2>1. d # NoOwner BY DEF Parameters
    <2> QED BY <1>1, <2>1 DEF Locking
  <1>3. held'[d] = held[d] /\ pc'[d] = pc[d] /\ task'[d] = task[d] /\ applied'[d] = applied[d]
        /\ desired'[d] = desired[d]
    BY DEF Apart
  <1>4. \A n \in applied[d] : owner'[n] = owner[n]
    <2> TAKE n \in applied[d]
    <2>1. n \in Members /\ owner[n] = d BY <1>1, <1>2 DEF AimOf, OwnsOf
    <2>2. d # NoOwner BY DEF Parameters
    <2> QED BY <2>1, <2>2
  <1> QED BY <1>1, <1>2, <1>3, <1>4, TaskFrame, AimFrame, OwnsOutside

LEMMA LockKeeps ==
    ASSUME Parameters, Inv, NEW c \in Names, Lock(c)
    PROVE  Inv'
  <1>0. Shapes /\ Locking /\ TaskOf(c) /\ AimOf(c) /\ OwnsOf(c) /\ Cooling /\ Asking BY DEF Inv
  <1>p. NoOwner \notin Names BY DEF Parameters
  <1>1. /\ pc[c] = "lock" /\ lock = NoOwner /\ lock' = c /\ pc' = [pc EXCEPT ![c] = "members"]
        /\ UNCHANGED <<held, owner, applied, plan, notify, dir, cooldown, attempt, asked, gens,
                       serving, keeper, restarts, boot>>
    BY DEF Lock, world
  <1>2. /\ DOMAIN task' = Names /\ DOMAIN task'[c] = Fields
        /\ \A d \in Names : d # c => task'[d] = task[d]
        /\ task'[c].list = task[c].list /\ task'[c].candidates = task[c].candidates
        /\ task'[c].previous = desired[c] /\ task'[c].accepted = Desired(c)
        /\ task'[c].todo = applied[c] \cup Desired(c)
        /\ task'[c].removed = task[c].removed /\ task'[c].loading = task[c].loading
        /\ task'[c].changed = task[c].changed /\ task'[c].refresh = task[c].refresh
    BY <1>0 DEF Lock, Shapes, Fields
  <1>3. /\ task[c].removed = {} /\ task[c].loading = {} /\ task[c].changed = {} /\ task[c].refresh = {}
        /\ task[c].list = Parsed(held[c].list) /\ task[c].candidates = Accepted(task[c].list)
        /\ held[c].list \in [Members -> Entries]
    BY <1>0, <1>1 DEF TaskOf, Early
  <1>4. /\ DOMAIN desired' = Names /\ DOMAIN desired'[c] = Members
        /\ \A d \in Names : d # c => desired'[d] = desired[d]
        /\ \A m \in Members : desired'[c][m] = IF m \in Desired(c) THEN task[c].list[m] ELSE Unlisted
    BY <1>0 DEF Lock, Shapes
  <1>5. pc'[c] = "members" /\ \A d \in Names : d # c => pc'[d] = pc[d] BY <1>0, <1>1 DEF Shapes
  <1>6. Desired(c) \subseteq task[c].candidates /\ \A m \in Desired(c) : owner[m] \in {NoOwner, c}
    BY DEF Desired, Clashes
  <1>7. task[c].candidates \subseteq Members \ Static BY <1>3, ParsedFacts
  <1>8. Apart(c) BY <1>0, <1>1, <1>2, <1>4, <1>5 DEF Apart, Shapes
  <1>9. \A d \in Names : d # c => /\ TaskOf(d)' /\ AimOf(d)' /\ OwnsOf(d)'
                                  /\ pc[d] \notin Inside /\ pc'[d] \in Phases \ Inside
    BY <1>1, <1>8, ApartKeeps
  <1>10. Shapes' BY <1>0, <1>1, <1>2, <1>4, <1>5 DEF Shapes
  <1>11. Locking' BY <1>1, <1>5, <1>9 DEF Locking, Inside, Phases
  <1>12. TaskOf(c)' BY <1>0, <1>1, <1>2, <1>3, <1>5 DEF TaskOf, Inside, Early
  <1>13. AimOf(c)'
    <2>1. applied[c] \subseteq Members \ Static /\ Cardinality(applied[c]) <= Cap BY <1>0 DEF AimOf
    <2>2. \A m \in Members : m \in Desired(c) => m \in task[c].candidates BY <1>6
    <2> QED BY <1>1, <1>2, <1>4, <1>5, <1>6, <1>7, <2>1, <2>2 DEF AimOf, Inside
  <1>14. OwnsOf(c)'
    <2>1. \A m \in applied[c] : owner[m] = c BY <1>0, <1>1 DEF OwnsOf, Inside
    <2> QED BY <1>1, <1>2, <1>3, <1>5, <1>6, <2>1 DEF OwnsOf, Inside
  <1>15. \A m \in Members : View(m)' = View(m)
    <2> TAKE m \in Members
    <2>1. View(m) = dir[m] BY <1>1 DEF View, InMembers
    <2>2. InMembers' BY <1>1, <1>5, <1>p DEF InMembers
    <2>3. Updated(task[lock], m)' = dir[m] BY <1>1, <1>2, <1>3 DEF Updated
    <2> QED BY <2>1, <2>2, <2>3 DEF View
  <1>16. \A m \in Members : MemberOK(m)'
    <2> TAKE m \in Members
    <2>1. MemberOK(m) BY DEF Inv
    <2> QED BY <1>1, <1>15, <2>1 DEF MemberOK
  <1>17. Cooling'
    <2>1. \A e \in cooldown : e[1] \in Members /\ Rightful(e) BY <1>0, <1>1 DEF Cooling
    <2>2. \A d \in Names : pc'[d] \in Inside => task'[d].changed = {} BY <1>2, <1>3, <1>9
    <2> QED BY <1>1, <2>1, <2>2 DEF Cooling, Rightful
  <1>18. Asking'
    <2> SUFFICES ASSUME serving', NEW m \in Members, View(m)' = "loading" PROVE Requested(m)' BY DEF Asking
    <2>1. Requested(m) BY <1>0, <1>1, <1>15 DEF Asking
    <2>2. \A d \in Names : pc[d] \in Inside \cup {"send"} => d # c BY <1>1 DEF Inside
    <2> QED BY <1>1, <1>2, <1>5, <2>1, <2>2 DEF Requested
  <1>19. \A d \in Names : TaskOf(d)' /\ AimOf(d)' /\ OwnsOf(d)' BY <1>9, <1>12, <1>13, <1>14
  <1> QED BY <1>10, <1>11, <1>16, <1>17, <1>18, <1>19 DEF Inv

\* A member on the list of a reconciliation is untouched so far.
LEMMA NextMember ==
    ASSUME Parameters, Inv, NEW c \in Names, pc[c] = "members", task[c].todo # {}
    PROVE  LET m == Next1(c)
           IN  /\ m \in task[c].todo /\ m \in Members \ Static /\ lock = c
               /\ owner[m] \in {NoOwner, c} /\ View(m) = dir[m]
               /\ m \notin task[c].removed /\ m \notin task[c].loading /\ m \notin task[c].changed
               /\ \A e \in cooldown : e[1] = m => Rightful(e)
  <1> DEFINE m == Next1(c)
  <1>0. Locking /\ AimOf(c) /\ OwnsOf(c) /\ Cooling BY DEF Inv
  <1>1. task[c].todo \subseteq Members \ Static BY <1>0 DEF AimOf
  <1>2. Members \subseteq Nat BY DEF Parameters
  <1>3. m \in task[c].todo BY <1>1, <1>2, MinIn DEF Next1
  <1> HIDE DEF m
  <1>4. lock = c BY <1>0 DEF Locking, Inside
  <1>5. /\ owner[m] \in {NoOwner, c}
        /\ m \notin task[c].removed /\ m \notin task[c].loading /\ m \notin task[c].changed
    BY <1>0, <1>3 DEF OwnsOf, Inside
  <1>6. View(m) = dir[m] BY <1>4, <1>5 DEF View, InMembers, Updated
  <1>7. \A e \in cooldown : e[1] = m => Rightful(e) BY <1>0, <1>4, <1>5 DEF Cooling, Noted
  <1> QED BY <1>1, <1>3, <1>4, <1>5, <1>6, <1>7 DEF m

\* A step of a reconciliation that is about one member.
Touch(c, m) ==
    /\ UNCHANGED <<held, pc, lock, desired, applied, cooldown, attempt, asked, serving,
                   restarts, boot>>
    /\ DOMAIN owner' = Members /\ DOMAIN plan' = Members /\ DOMAIN notify' = Members
    /\ DOMAIN dir' = Members /\ DOMAIN keeper' = Members
    /\ \A n \in Members : n # m => /\ owner'[n] = owner[n] /\ plan'[n] = plan[n]
                                   /\ notify'[n] = notify[n] /\ dir'[n] = dir[n]
                                   /\ keeper'[n] = keeper[n]
    /\ DOMAIN task' = Names /\ DOMAIN task'[c] = Fields
    /\ \A d \in Names : d # c => task'[d] = task[d]
    /\ task'[c].list = task[c].list /\ task'[c].candidates = task[c].candidates
    /\ task'[c].previous = task[c].previous /\ task'[c].todo = task[c].todo \ {m}
    /\ task'[c].accepted \in {task[c].accepted, task[c].accepted \ {m}}
    /\ task'[c].removed \in {task[c].removed, task[c].removed \cup {m}}
    /\ task'[c].loading \in {task[c].loading, task[c].loading \cup {m}}
    /\ task'[c].changed \in {task[c].changed, task[c].changed \cup {m}}
    /\ task[c].refresh \subseteq task'[c].refresh
    /\ gens' \in Nat /\ gens <= gens'

LEMMA TouchView ==
    ASSUME Inv, NEW c \in Names, pc[c] = "members", lock = c, NoOwner \notin Names,
           NEW m \in Members, Touch(c, m)
    PROVE  /\ View(m)' = Updated(task[c], m)'
           /\ \A n \in Members : n # m => View(n)' = View(n)
  <1>1. InMembers /\ InMembers' BY DEF InMembers, Touch
  <1>2. lock' = c BY DEF Touch
  <1>3. View(m)' = Updated(task[c], m)' BY <1>1, <1>2 DEF View, Updated
  <1>4. ASSUME NEW n \in Members, n # m PROVE View(n)' = View(n)
    <2>1. dir'[n] = dir[n] BY <1>4 DEF Touch
    <2>2. n \in task'[c].removed <=> n \in task[c].removed BY <1>4 DEF Touch
    <2>3. n \in task'[c].loading <=> n \in task[c].loading BY <1>4 DEF Touch
    <2> QED BY <1>1, <1>2, <2>1, <2>2, <2>3 DEF View, Updated
  <1> QED BY <1>3, <1>4

LEMMA TouchKeeps ==
    ASSUME Parameters, Inv, NEW c \in Names, pc[c] = "members", lock = c,
           NEW m \in Members, m \in task[c].todo, Touch(c, m),
           owner[m] \in {NoOwner, c},
           m \in task'[c].accepted => owner'[m] = c,
           \A e \in cooldown : e[1] = m => Rightful(e),
           plan'[m] = plan[m] \/ m \in task'[c].removed \cup task'[c].changed,
           m \in task'[c].changed => plan'[m] # NoPlan \/ m \in task'[c].removed,
           serving /\ View(m)' = "loading" => Requested(m)',
           MemberOK(m)'
    PROVE  Inv'
  <1>0. Shapes /\ Locking /\ TaskOf(c) /\ AimOf(c) /\ OwnsOf(c) /\ Cooling /\ Asking BY DEF Inv
  <1>p. NoOwner \notin Names BY DEF Parameters
  <1>1. Shapes' BY <1>0 DEF Shapes, Touch
  <1>2. Locking' BY <1>0 DEF Locking, Touch
  <1>3. Apart(c) BY <1>0 DEF Apart, Touch, Shapes
  <1>4. \A d \in Names : d # c => /\ TaskOf(d)' /\ AimOf(d)' /\ OwnsOf(d)'
                                  /\ pc[d] \notin Inside /\ pc'[d] \in Phases \ Inside
    <2>1. \A n \in Members : owner'[n] # owner[n] => owner[n] \in {NoOwner, c} BY DEF Touch
    <2> QED BY <1>3, <2>1, ApartKeeps
  <1>5. TaskOf(c)' BY <1>0 DEF TaskOf, Touch, Early, Inside
  <1>6. AimOf(c)'
    <2>1. task'[c].accepted \subseteq task[c].accepted /\ task'[c].todo \subseteq task[c].todo BY DEF Touch
    <2>2. pc' = pc /\ desired' = desired /\ applied' = applied /\ held' = held
          /\ task'[c].candidates = task[c].candidates /\ task'[c].list = task[c].list BY DEF Touch
    <2> QED BY <1>0, <2>1, <2>2 DEF AimOf, Inside
  <1>7. OwnsOf(c)'
    <2>1. pc'[c] = "members" BY DEF Touch
    <2>2. \A n \in task'[c].todo : n # m /\ n \in task[c].todo BY DEF Touch
    <2>3. \A n \in task[c].todo : n \in Members BY <1>0 DEF AimOf
    <2>4. \A n \in task'[c].todo : owner'[n] \in {NoOwner, c}
      <3> TAKE n \in task'[c].todo
      <3>1. owner[n] \in {NoOwner, c} BY <1>0, <2>2 DEF OwnsOf, Inside
      <3> QED BY <2>2, <2>3, <3>1 DEF Touch
    <2>5. \A n \in task'[c].accepted \ task'[c].todo : owner'[n] = c
      <3> TAKE n \in task'[c].accepted \ task'[c].todo
      <3>1. CASE n # m
        <4>1. n \in task[c].accepted \ task[c].todo BY <3>1 DEF Touch
        <4>2. owner[n] = c BY <1>0, <4>1 DEF OwnsOf, Inside
        <4>3. n \in Members
          <5>1. n \in task[c].candidates BY <1>0, <4>1 DEF AimOf, Inside
          <5>2. task[c].candidates = Accepted(task[c].list) BY <1>0 DEF TaskOf, Inside
          <5> QED BY <5>1, <5>2 DEF Accepted, Listed
        <4> QED BY <3>1, <4>2, <4>3 DEF Touch
      <3>2. CASE n = m BY <3>2
      <3> QED BY <3>1, <3>2
    <2>6. \A n \in task'[c].todo :
             n \notin task'[c].removed /\ n \notin task'[c].loading /\ n \notin task'[c].changed
      <3> TAKE n \in task'[c].todo
      <3>1. n \notin task[c].removed /\ n \notin task[c].loading /\ n \notin task[c].changed
        BY <1>0, <2>2 DEF OwnsOf
      <3> QED BY <2>2, <3>1 DEF Touch
    <2> QED BY <2>1, <2>4, <2>5, <2>6 DEF OwnsOf, Inside
  <1>8. \A n \in Members : n # m => View(n)' = View(n) BY <1>p, TouchView
  <1>9. \A n \in Members : MemberOK(n)'
    <2> TAKE n \in Members
    <2>1. CASE n # m
      <3>1. MemberOK(n) BY DEF Inv
      <3>2. /\ owner'[n] = owner[n] /\ plan'[n] = plan[n] /\ notify'[n] = notify[n] /\ dir'[n] = dir[n]
            /\ View(n)' = View(n)
        BY <1>8, <2>1 DEF Touch
      <3>3. gens \in Nat /\ gens' \in Nat /\ gens <= gens' BY <1>0 DEF Shapes, Touch
      <3>4. plan[n].gen \in 1 .. gens => plan[n].gen \in 1 .. gens' BY <3>3
      <3> QED BY <3>1, <3>2, <3>4 DEF MemberOK
    <2>2. CASE n = m BY <2>2
    <2> QED BY <2>1, <2>2
  <1>10. Cooling'
    <2>1. lock' = c /\ pc'[c] = "members" /\ cooldown' = cooldown BY DEF Touch
    <2>2. \A e \in cooldown' :
             e[1] \in Members /\ (\/ Rightful(e)'
                                  \/ (lock # NoOwner /\ pc[lock] \in {"members", "cooldowns"} /\ Noted(e[1]))')
      <3> TAKE e \in cooldown'
      <3>1. e[1] \in Members /\ (Rightful(e) \/ Noted(e[1])) BY <1>0, <2>1 DEF Cooling
      <3>2. CASE e[1] # m
        <4>1. plan'[e[1]] = plan[e[1]] BY <3>1, <3>2 DEF Touch
        <4>2. CASE Rightful(e) BY <3>1, <4>1, <4>2 DEF Rightful
        <4>3. CASE Noted(e[1])
          <5>1. e[1] \in task'[c].removed \cup task'[c].changed BY <4>3 DEF Noted, Touch
          <5> QED BY <1>p, <2>1, <3>1, <5>1 DEF Noted
        <4> QED BY <3>1, <4>2, <4>3
      <3>3. CASE e[1] = m
        <4>1. Rightful(e) BY <2>1, <3>3
        <4>2. CASE plan'[m] = plan[m] BY <3>1, <3>3, <4>1, <4>2 DEF Rightful
        <4>3. CASE m \in task'[c].removed \cup task'[c].changed BY <1>p, <2>1, <3>1, <3>3, <4>3 DEF Noted
        <4> QED BY <4>2, <4>3
      <3> QED BY <3>2, <3>3
    <2>3. \A d \in Names : pc'[d] \in Inside =>
             \A n \in task'[d].changed : n \in Members /\ (plan'[n] # NoPlan \/ n \in task'[d].removed)
      <3> SUFFICES ASSUME NEW d \in Names, pc'[d] \in Inside, NEW n \in task'[d].changed
                   PROVE  n \in Members /\ (plan'[n] # NoPlan \/ n \in task'[d].removed)
          OBVIOUS
      <3>1. d = c BY <1>4
      <3>2. CASE n = m BY <3>1, <3>2
      <3>3. CASE n # m
        <4>1. n \in task[c].changed BY <3>1, <3>3 DEF Touch
        <4>2. n \in Members /\ (plan[n] # NoPlan \/ n \in task[c].removed) BY <1>0, <4>1 DEF Cooling, Inside
        <4> QED BY <3>1, <3>3, <4>2 DEF Touch
      <3> QED BY <3>2, <3>3
    <2> QED BY <2>2, <2>3 DEF Cooling
  <1>11. Asking'
    <2> SUFFICES ASSUME serving', NEW n \in Members, View(n)' = "loading" PROVE Requested(n)' BY DEF Asking
    <2>1. serving BY DEF Touch
    <2>2. CASE n = m BY <2>1, <2>2
    <2>3. CASE n # m
      <3>1. Requested(n) BY <1>0, <1>8, <2>1, <2>3 DEF Asking
      <3>2. plan'[n] = plan[n] /\ asked' = asked /\ pc' = pc BY <2>3 DEF Touch
      <3>3. \A d \in Names : task[d].refresh \subseteq task'[d].refresh BY DEF Touch
      <3> QED BY <3>1, <3>2, <3>3 DEF Requested
    <2> QED BY <2>2, <2>3
  <1>12. \A d \in Names : TaskOf(d)' /\ AimOf(d)' /\ OwnsOf(d)' BY <1>4, <1>5, <1>6, <1>7
  <1> QED BY <1>1, <1>2, <1>9, <1>10, <1>11, <1>12 DEF Inv

\* The member whose turn it is.
Upcoming(c, m) ==
    /\ pc[c] = "members" /\ m = Next1(c)
    /\ m \in task[c].todo /\ m \in Members \ Static /\ lock = c
    /\ owner[m] \in {NoOwner, c} /\ View(m) = dir[m]
    /\ m \notin task[c].removed /\ m \notin task[c].loading /\ m \notin task[c].changed
    /\ \A e \in cooldown : e[1] = m => Rightful(e)

LEMMA UpcomingIs ==
    ASSUME Parameters, Inv, NEW c \in Names, pc[c] = "members", task[c].todo # {}
    PROVE  \E m \in Members : Upcoming(c, m)
  <1>1. PICK m : m = Next1(c) OBVIOUS
  <1>2. Upcoming(c, m) BY <1>1, NextMember DEF Upcoming
  <1> QED BY <1>2 DEF Upcoming

\* What the removal of a member does.
Removing(c, m) ==
    /\ Upcoming(c, m) /\ Touch(c, m) /\ desired[c][m].node = 0
    /\ owner'[m] = NoOwner /\ plan'[m] = NoPlan /\ notify'[m] = "none" /\ dir'[m] = dir[m]
    /\ keeper'[m] = IF keeper[m] = c THEN NoOwner ELSE keeper[m]
    /\ task'[c].accepted = task[c].accepted /\ task'[c].removed = task[c].removed \cup {m}
    /\ task'[c].loading = task[c].loading /\ task'[c].changed = task[c].changed
    /\ gens' = gens
    /\ saved' = IF plan[m] = NoPlan THEN saved ELSE saved \ {Identity(m, plan[m])}

LEMMA RemoveEffects ==
    ASSUME Parameters, Inv, NEW c \in Names, RemoveMember(c)
    PROVE  \E m \in Members : Removing(c, m)
  <1>0. Shapes BY DEF Inv
  <1>1. pc[c] = "members" /\ task[c].todo # {} BY DEF RemoveMember
  <1>2. PICK m \in Members : Upcoming(c, m) BY <1>1, UpcomingIs
  <1>3. m = Next1(c) BY <1>2 DEF Upcoming
  <1>4. /\ desired[c][m].node = 0
        /\ owner' = [owner EXCEPT ![m] = NoOwner]
        /\ keeper' = [keeper EXCEPT ![m] = IF @ = c THEN NoOwner ELSE @]
        /\ plan' = [plan EXCEPT ![m] = NoPlan]
        /\ notify' = [notify EXCEPT ![m] = "none"]
        /\ saved' = IF plan[m] = NoPlan THEN saved ELSE saved \ {Identity(m, plan[m])}
        /\ task' = [task EXCEPT ![c].todo = @ \ {m}, ![c].removed = @ \cup {m}]
        /\ UNCHANGED <<held, versions, pc, lock, desired, applied, dir, cooldown,
                       attempt, asked, gens, broken, boot, serving, restarts>>
    BY <1>3 DEF RemoveMember
  <1>5. /\ DOMAIN owner' = Members /\ DOMAIN plan' = Members /\ DOMAIN notify' = Members
        /\ DOMAIN dir' = Members /\ DOMAIN keeper' = Members
        /\ owner'[m] = NoOwner /\ plan'[m] = NoPlan /\ notify'[m] = "none" /\ dir'[m] = dir[m]
        /\ keeper'[m] = IF keeper[m] = c THEN NoOwner ELSE keeper[m]
        /\ \A n \in Members : n # m => /\ owner'[n] = owner[n] /\ plan'[n] = plan[n]
                                       /\ notify'[n] = notify[n] /\ dir'[n] = dir[n]
                                       /\ keeper'[n] = keeper[n]
    BY <1>0, <1>4 DEF Shapes
  <1>6. /\ DOMAIN task' = Names /\ DOMAIN task'[c] = Fields
        /\ \A d \in Names : d # c => task'[d] = task[d]
        /\ task'[c].list = task[c].list /\ task'[c].candidates = task[c].candidates
        /\ task'[c].previous = task[c].previous /\ task'[c].todo = task[c].todo \ {m}
        /\ task'[c].accepted = task[c].accepted /\ task'[c].removed = task[c].removed \cup {m}
        /\ task'[c].loading = task[c].loading /\ task'[c].changed = task[c].changed
        /\ task'[c].refresh = task[c].refresh
    BY <1>0, <1>4 DEF Shapes, Fields
  <1>7. gens' \in Nat /\ gens <= gens' BY <1>0, <1>4 DEF Shapes
  <1>8. Touch(c, m) BY <1>4, <1>5, <1>6, <1>7 DEF Touch
  <1> QED BY <1>2, <1>4, <1>5, <1>6, <1>8 DEF Removing

LEMMA RemoveKeeps ==
    ASSUME Parameters, Inv, NEW c \in Names, RemoveMember(c)
    PROVE  Inv'
  <1>1. PICK m \in Members : Removing(c, m) BY RemoveEffects
  <1>p. NoOwner \notin Names BY DEF Parameters
  <1>2. Upcoming(c, m) /\ Touch(c, m) BY <1>1 DEF Removing
  <1>3. pc[c] = "members" /\ lock = c /\ m \in task[c].todo /\ m \in Members \ Static
        /\ owner[m] \in {NoOwner, c} /\ m \notin task[c].loading /\ m \notin task[c].changed
        /\ \A e \in cooldown : e[1] = m => Rightful(e)
    BY <1>2 DEF Upcoming
  <1>4. m \notin task'[c].accepted
    <2>0. TaskOf(c) /\ AimOf(c) BY DEF Inv
    <2>1. m \in task[c].accepted => m \in task[c].candidates /\ desired[c][m] = task[c].list[m]
      BY <1>3, <2>0 DEF AimOf, Inside
    <2>2. task[c].candidates = Accepted(task[c].list) BY <1>3, <2>0 DEF TaskOf, Inside
    <2>3. m \in task[c].candidates => task[c].list[m].node # 0 BY <2>2 DEF Accepted, Listed
    <2> QED BY <1>1, <2>1, <2>3 DEF Removing
  <1>5. View(m)' = "absent"
    <2>1. View(m)' = Updated(task[c], m)' BY <1>2, <1>3, <1>p, TouchView
    <2>2. m \in task'[c].removed /\ m \notin task'[c].loading BY <1>1, <1>3 DEF Removing
    <2> QED BY <2>1, <2>2 DEF Updated
  <1>6. MemberOK(m)'
    <2>1. MemberOK(m) BY DEF Inv
    <2>2. owner'[m] = NoOwner /\ plan'[m] = NoPlan /\ notify'[m] = "none" /\ dir'[m] = dir[m] BY <1>1 DEF Removing
    <2> QED BY <1>3, <1>5, <2>1, <2>2, NoPlanFacts DEF MemberOK
  <1>7. m \in task'[c].removed /\ m \notin task'[c].changed BY <1>1, <1>3 DEF Removing
  <1> QED BY <1>2, <1>3, <1>4, <1>5, <1>6, <1>7, TouchKeeps

\* What the failure to bind a member's cache does.
Failing(c, m, renamed) ==
    /\ Upcoming(c, m) /\ Touch(c, m) /\ desired[c][m].node # 0
    /\ BindingFails
    /\ plan'[m] = IF renamed THEN NoPlan ELSE plan[m]
    /\ notify'[m] = IF renamed THEN "none" ELSE notify[m]
    /\ owner'[m] = owner[m] /\ dir'[m] = dir[m] /\ keeper' = keeper
    /\ task'[c].accepted = task[c].accepted \ {m}
    /\ task'[c].removed = IF renamed THEN task[c].removed \cup {m} ELSE task[c].removed
    /\ task'[c].loading = task[c].loading /\ task'[c].changed = task[c].changed
    /\ task'[c].refresh = task[c].refresh
    /\ gens' = gens

LEMMA FailEffects ==
    ASSUME Parameters, Inv, NEW c \in Names, BindingUnavailable(c)
    PROVE  \E m \in Members : \E renamed \in BOOLEAN : Failing(c, m, renamed)
  <1>0. Shapes BY DEF Inv
  <1>1. pc[c] = "members" /\ task[c].todo # {} BY DEF BindingUnavailable
  <1>2. PICK m \in Members : Upcoming(c, m) BY <1>1, UpcomingIs
  <1>3. m = Next1(c) BY <1>2 DEF Upcoming
  <1>a. PICK renamed \in BOOLEAN : renamed = NodeChanged(c, m) BY DEF NodeChanged
  <1>4. /\ desired[c][m].node # 0 /\ BindingFails
        /\ plan' = [plan EXCEPT ![m] = IF renamed THEN NoPlan ELSE @]
        /\ notify' = [notify EXCEPT ![m] = IF renamed THEN "none" ELSE @]
        /\ task' = [task EXCEPT ![c].todo = @ \ {m}, ![c].accepted = @ \ {m},
                                ![c].removed = IF renamed THEN @ \cup {m} ELSE @]
        /\ UNCHANGED <<held, versions, pc, lock, owner, desired, applied, dir, cooldown,
                       attempt, asked, gens, broken, keeper, boot, serving, restarts>>
    BY <1>3, <1>a DEF BindingUnavailable
  <1>5. /\ DOMAIN owner' = Members /\ DOMAIN plan' = Members /\ DOMAIN notify' = Members
        /\ DOMAIN dir' = Members /\ DOMAIN keeper' = Members
        /\ plan'[m] = IF renamed THEN NoPlan ELSE plan[m]
        /\ notify'[m] = IF renamed THEN "none" ELSE notify[m]
        /\ \A n \in Members : n # m => plan'[n] = plan[n] /\ notify'[n] = notify[n]
    BY <1>0, <1>4 DEF Shapes
  <1>6. /\ DOMAIN task' = Names /\ DOMAIN task'[c] = Fields
        /\ \A d \in Names : d # c => task'[d] = task[d]
        /\ task'[c].list = task[c].list /\ task'[c].candidates = task[c].candidates
        /\ task'[c].previous = task[c].previous /\ task'[c].todo = task[c].todo \ {m}
        /\ task'[c].accepted = task[c].accepted \ {m}
        /\ task'[c].removed = IF renamed THEN task[c].removed \cup {m} ELSE task[c].removed
        /\ task'[c].loading = task[c].loading /\ task'[c].changed = task[c].changed
        /\ task'[c].refresh = task[c].refresh
    BY <1>0, <1>4 DEF Shapes, Fields
  <1>7. gens' \in Nat /\ gens <= gens' BY <1>0, <1>4 DEF Shapes
  <1>8. Touch(c, m) BY <1>4, <1>5, <1>6, <1>7 DEF Touch
  <1>9. Failing(c, m, renamed) BY <1>2, <1>4, <1>5, <1>6, <1>8 DEF Failing
  <1> QED BY <1>9

LEMMA FailKeeps ==
    ASSUME Parameters, Inv, NEW c \in Names, BindingUnavailable(c)
    PROVE  Inv'
  <1>1. PICK m \in Members : \E r \in BOOLEAN : Failing(c, m, r) BY FailEffects
  <1>r. PICK renamed \in BOOLEAN : Failing(c, m, renamed) BY <1>1
  <1>p. NoOwner \notin Names BY DEF Parameters
  <1>2. Upcoming(c, m) /\ Touch(c, m) BY <1>r DEF Failing
  <1>3. pc[c] = "members" /\ lock = c /\ m \in task[c].todo /\ m \in Members \ Static
        /\ owner[m] \in {NoOwner, c} /\ View(m) = dir[m]
        /\ m \notin task[c].removed /\ m \notin task[c].loading /\ m \notin task[c].changed
        /\ \A e \in cooldown : e[1] = m => Rightful(e)
    BY <1>2 DEF Upcoming
  <1>4. m \notin task'[c].accepted /\ m \notin task'[c].changed BY <1>r, <1>3 DEF Failing
  <1>5. View(m)' = IF renamed THEN "absent" ELSE dir[m]
    <2>1. View(m)' = Updated(task[c], m)' BY <1>2, <1>3, <1>p, TouchView
    <2>2. (m \in task'[c].removed <=> renamed) /\ m \notin task'[c].loading /\ dir'[m] = dir[m]
      BY <1>r, <1>3 DEF Failing
    <2> QED BY <2>1, <2>2 DEF Updated
  <1>6. MemberOK(m)'
    <2>1. MemberOK(m) BY DEF Inv
    <2>2. /\ owner'[m] = owner[m] /\ dir'[m] = dir[m] /\ gens' = gens
          /\ plan'[m] = IF renamed THEN NoPlan ELSE plan[m]
          /\ notify'[m] = IF renamed THEN "none" ELSE notify[m]
      BY <1>r DEF Failing
    <2> QED BY <1>3, <1>5, <2>1, <2>2, NoPlanFacts DEF MemberOK
  <1>7. plan'[m] = plan[m] \/ m \in task'[c].removed \cup task'[c].changed BY <1>r DEF Failing
  <1>8. serving /\ View(m)' = "loading" => Requested(m)'
    <2> HAVE serving /\ View(m)' = "loading"
    <2>1. ~renamed /\ View(m) = "loading" BY <1>3, <1>5
    <2>2. Requested(m) BY <2>1 DEF Inv, Asking
    <2>3. plan'[m] = plan[m] /\ asked' = asked /\ pc' = pc BY <1>r, <1>2, <2>1 DEF Failing, Touch
    <2>4. \A d \in Names : task[d].refresh \subseteq task'[d].refresh BY <1>2 DEF Touch
    <2> QED BY <2>2, <2>3, <2>4 DEF Requested
  <1> QED BY <1>2, <1>3, <1>4, <1>6, <1>7, <1>8, TouchKeeps

\* What the provisioning of a member does.
Fresh(c, x, g) == [catalog |-> c, node |-> x.node, policy |-> PolicyOf(x), gen |-> g, live |-> TRUE]

Keeping(c, m, new, renamed, retained, same, restored) ==
    /\ Upcoming(c, m) /\ Touch(c, m) /\ desired[c][m].node # 0
    /\ renamed <=> NodeChanged(c, m)
    /\ retained <=> desired[c][m].ext = "malformed" /\ ~renamed /\ plan[m] # NoPlan
    /\ retained => same
    /\ same => /\ ~renamed /\ plan[m] # NoPlan /\ new = plan[m]
               /\ retained \/ SameShape(c, m, plan[m])
    /\ ~renamed /\ SameShape(c, m, plan[m]) => same
    /\ ~same => new = Fresh(c, desired[c][m], gens + 1)
    /\ restored => ~renamed /\ dir[m] = "absent" /\ Identity(m, new) \in saved
    /\ gens' = IF same THEN gens ELSE gens + 1
    /\ plan'[m] = new
    /\ notify'[m] = IF retained THEN notify[m] ELSE PolicyOf(desired[c][m])
    /\ owner'[m] = IF retained THEN owner[m] ELSE c
    /\ keeper'[m] = IF keeper[m] = NoOwner THEN c ELSE keeper[m]
    /\ IF restored THEN dir'[m] \in {"active", "revived"} ELSE dir'[m] = dir[m]
    /\ saved' = IF renamed /\ plan[m] # NoPlan THEN saved \ {Identity(m, plan[m])} ELSE saved
    /\ task'[c].accepted = task[c].accepted
    /\ m \in task'[c].removed <=> renamed
    /\ m \in task'[c].loading <=> (renamed \/ dir[m] = "absent") /\ ~restored
    /\ m \in task'[c].changed <=> ~same
    /\ (m \in task'[c].loading \/ ~same) => <<m, new.gen>> \in task'[c].refresh

LEMMA KeepEffects ==
    ASSUME Parameters, Inv, NEW c \in Names, KeepMember(c)
    PROVE  \E m \in Members : \E new : \E renamed, retained, same, restored \in BOOLEAN :
               Keeping(c, m, new, renamed, retained, same, restored)
  <1>0. Shapes BY DEF Inv
  <1>1. pc[c] = "members" /\ task[c].todo # {} BY DEF KeepMember
  <1>2. PICK m \in Members : Upcoming(c, m) BY <1>1, UpcomingIs
  <1>3. m = Next1(c) BY <1>2 DEF Upcoming
  <1>a. PICK x : x = desired[c][m] OBVIOUS
  <1>b. PICK renamed \in BOOLEAN : renamed = NodeChanged(c, m) BY DEF NodeChanged
  <1>c. PICK old : old = IF renamed THEN NoPlan ELSE plan[m] OBVIOUS
  <1>d. PICK retained \in BOOLEAN : retained = (x.ext = "malformed" /\ old # NoPlan) OBVIOUS
  <1>e. PICK same \in BOOLEAN : same = (retained \/ SameShape(c, m, old)) BY DEF SameShape
  <1>f. PICK new : new = IF same THEN old ELSE Fresh(c, x, gens + 1) OBVIOUS
  <1>g. PICK missing \in BOOLEAN : missing = (renamed \/ dir[m] = "absent") OBVIOUS
  <1>h. PICK restored \in BOOLEAN : restored = (missing /\ ~renamed /\ Identity(m, new) \in saved /\ new.live)
    OBVIOUS
  <1>4. /\ x.node # 0
        /\ saved' = IF renamed /\ plan[m] # NoPlan THEN saved \ {Identity(m, plan[m])} ELSE saved
        /\ plan' = [plan EXCEPT ![m] = new]
        /\ notify' = [notify EXCEPT ![m] = IF retained THEN @ ELSE PolicyOf(x)]
        /\ owner' = [owner EXCEPT ![m] = IF retained THEN @ ELSE c]
        /\ keeper' = [keeper EXCEPT ![m] = IF @ = NoOwner THEN c ELSE @]
        /\ gens' = IF same THEN gens ELSE gens + 1
        /\ dir' = [dir EXCEPT ![m] = IF ~restored THEN @
                                     ELSE IF Identity(m, new) \in broken THEN "revived"
                                     ELSE "active"]
        /\ task' = [task EXCEPT ![c].todo = @ \ {m},
                                ![c].removed = IF renamed THEN @ \cup {m} ELSE @,
                                ![c].loading = IF missing /\ ~restored THEN @ \cup {m} ELSE @,
                                ![c].changed = IF same THEN @ ELSE @ \cup {m},
                                ![c].refresh = IF (missing /\ ~restored) \/ ~same
                                               THEN @ \cup {<<m, new.gen>>} ELSE @]
        /\ UNCHANGED <<held, versions, pc, lock, desired, applied, cooldown, attempt,
                       asked, broken, boot, serving, restarts>>
    BY <1>3, <1>a, <1>b, <1>c, <1>d, <1>e, <1>f, <1>g, <1>h DEF KeepMember, Fresh
  <1>5. /\ DOMAIN owner' = Members /\ DOMAIN plan' = Members /\ DOMAIN notify' = Members
        /\ DOMAIN dir' = Members /\ DOMAIN keeper' = Members
        /\ plan'[m] = new
        /\ notify'[m] = IF retained THEN notify[m] ELSE PolicyOf(x)
        /\ owner'[m] = IF retained THEN owner[m] ELSE c
        /\ keeper'[m] = IF keeper[m] = NoOwner THEN c ELSE keeper[m]
        /\ IF restored THEN dir'[m] \in {"active", "revived"} ELSE dir'[m] = dir[m]
        /\ \A n \in Members : n # m => /\ owner'[n] = owner[n] /\ plan'[n] = plan[n]
                                       /\ notify'[n] = notify[n] /\ dir'[n] = dir[n]
                                       /\ keeper'[n] = keeper[n]
    BY <1>0, <1>4 DEF Shapes
  <1>6. /\ DOMAIN task' = Names /\ DOMAIN task'[c] = Fields
        /\ \A d \in Names : d # c => task'[d] = task[d]
        /\ task'[c].list = task[c].list /\ task'[c].candidates = task[c].candidates
        /\ task'[c].previous = task[c].previous /\ task'[c].todo = task[c].todo \ {m}
        /\ task'[c].accepted = task[c].accepted
        /\ task'[c].removed = IF renamed THEN task[c].removed \cup {m} ELSE task[c].removed
        /\ task'[c].loading = IF missing /\ ~restored THEN task[c].loading \cup {m} ELSE task[c].loading
        /\ task'[c].changed = IF same THEN task[c].changed ELSE task[c].changed \cup {m}
        /\ task'[c].refresh = IF (missing /\ ~restored) \/ ~same
                              THEN task[c].refresh \cup {<<m, new.gen>>} ELSE task[c].refresh
    BY <1>0, <1>4 DEF Shapes, Fields
  <1>7. gens' \in Nat /\ gens <= gens' BY <1>0, <1>4 DEF Shapes
  <1>8. Touch(c, m)
    <2>1. /\ task'[c].removed \in {task[c].removed, task[c].removed \cup {m}}
          /\ task'[c].loading \in {task[c].loading, task[c].loading \cup {m}}
          /\ task'[c].changed \in {task[c].changed, task[c].changed \cup {m}}
          /\ task'[c].accepted \in {task[c].accepted, task[c].accepted \ {m}}
      BY <1>6
    <2>2. task[c].refresh \subseteq task'[c].refresh BY <1>6
    <2> QED BY <1>4, <1>5, <1>6, <1>7, <2>1, <2>2 DEF Touch
  <1>9. m \notin task[c].removed /\ m \notin task[c].loading /\ m \notin task[c].changed BY <1>2 DEF Upcoming
  <1>10. ~SameShape(c, m, NoPlan) BY DEF SameShape, NoPlan
  <1>11. same => old # NoPlan BY <1>d, <1>e, <1>10
  <1>12. same => ~renamed /\ plan[m] # NoPlan /\ new = plan[m] /\ (retained \/ SameShape(c, m, plan[m]))
    BY <1>c, <1>e, <1>f, <1>11
  <1>13. retained <=> x.ext = "malformed" /\ ~renamed /\ plan[m] # NoPlan BY <1>c, <1>d
  <1>14. Keeping(c, m, new, renamed, retained, same, restored)
    <2>1. m \in task'[c].removed <=> renamed BY <1>6, <1>9
    <2>2. m \in task'[c].loading <=> (renamed \/ dir[m] = "absent") /\ ~restored BY <1>6, <1>9, <1>g
    <2>3. m \in task'[c].changed <=> ~same BY <1>6, <1>9
    <2>4. (m \in task'[c].loading \/ ~same) => <<m, new.gen>> \in task'[c].refresh BY <1>6, <1>g, <2>2
    <2>5. restored => ~renamed /\ dir[m] = "absent" /\ Identity(m, new) \in saved BY <1>g, <1>h
    <2>6. ~same => new = Fresh(c, desired[c][m], gens + 1) BY <1>a, <1>f
    <2>7. retained => same BY <1>e
    <2>8. renamed <=> NodeChanged(c, m) BY <1>b
    <2>9. task'[c].accepted = task[c].accepted BY <1>6
    <2>10. desired[c][m].node # 0 BY <1>4, <1>a
    <2>11. retained <=> desired[c][m].ext = "malformed" /\ ~renamed /\ plan[m] # NoPlan BY <1>13, <1>a
    <2>12. /\ plan'[m] = new
           /\ notify'[m] = IF retained THEN notify[m] ELSE PolicyOf(desired[c][m])
           /\ owner'[m] = IF retained THEN owner[m] ELSE c
           /\ keeper'[m] = IF keeper[m] = NoOwner THEN c ELSE keeper[m]
           /\ IF restored THEN dir'[m] \in {"active", "revived"} ELSE dir'[m] = dir[m]
      BY <1>5, <1>a
    <2>13. /\ gens' = IF same THEN gens ELSE gens + 1
           /\ saved' = IF renamed /\ plan[m] # NoPlan THEN saved \ {Identity(m, plan[m])} ELSE saved
      BY <1>4
    <2>14. ~renamed /\ SameShape(c, m, plan[m]) => same BY <1>c, <1>e
    <2> QED BY <1>2, <1>8, <1>12, <2>14, <2>1, <2>2, <2>3, <2>4, <2>5, <2>6, <2>7, <2>8, <2>9, <2>10, <2>11, <2>12, <2>13
            DEF Keeping
  <1> QED BY <1>14

\* A plan of the same shape is what would be planned anew.
LEMMA ShapeFacts ==
    ASSUME NEW c, NEW m, SameShape(c, m, plan[m])
    PROVE  /\ plan[m].catalog = c /\ plan[m].node = desired[c][m].node
           /\ ~Retains(m, desired[c][m]) => plan[m].policy = PolicyOf(desired[c][m])
  <1>1. Identity(m, plan[m]) = Candidate(c, m, desired[c][m]) BY DEF SameShape
  <1>2. /\ Identity(m, plan[m]).catalog = plan[m].catalog /\ Identity(m, plan[m]).node = plan[m].node
        /\ Identity(m, plan[m]).policy = plan[m].policy
    BY DEF Identity
  <1>3. /\ Candidate(c, m, desired[c][m]).catalog = c
        /\ Candidate(c, m, desired[c][m]).node = desired[c][m].node
        /\ ~Retains(m, desired[c][m]) => Candidate(c, m, desired[c][m]).policy = PolicyOf(desired[c][m])
    BY DEF Candidate
  <1> QED BY <1>1, <1>2, <1>3

\* The plan that results.
LEMMA KeptPlan ==
    ASSUME Parameters, Inv, NEW c \in Names, NEW m \in Members, NEW new,
           NEW renamed \in BOOLEAN, NEW retained \in BOOLEAN, NEW same \in BOOLEAN, NEW restored \in BOOLEAN,
           Keeping(c, m, new, renamed, retained, same, restored)
    PROVE  /\ DOMAIN new = PlanFields /\ new # NoPlan /\ new.catalog = c /\ owner'[m] = c
           /\ notify'[m] = new.policy /\ new.gen \in 1 .. gens'
           /\ ~same => new.node = desired[c][m].node /\ new.policy = PolicyOf(desired[c][m])
           /\ same /\ ~retained => new.node = desired[c][m].node /\ new.policy = PolicyOf(desired[c][m])
  <1>0. MemberOK(m) /\ Shapes BY DEF Inv
  <1>p. NoOwner \notin Names BY DEF Parameters
  <1> USE DEF Keeping
  <1>1. CASE ~same
    <2>1. new = Fresh(c, desired[c][m], gens + 1) /\ ~retained BY <1>1
    <2>2. /\ DOMAIN new = PlanFields /\ new.catalog = c /\ new.node = desired[c][m].node
          /\ new.policy = PolicyOf(desired[c][m]) /\ new.gen = gens + 1
      <3>1. PICK x : x = desired[c][m] OBVIOUS
      <3>2. PICK g : g = gens + 1 OBVIOUS
      <3>3. new = Fresh(c, x, g) BY <2>1, <3>1, <3>2
      <3>4. /\ DOMAIN new = PlanFields /\ new.catalog = c /\ new.node = x.node
            /\ new.policy = PolicyOf(x) /\ new.gen = g
        BY <3>3 DEF Fresh, PlanFields
      <3> QED BY <3>1, <3>2, <3>4
    <2>3. new.gen \in 1 .. gens' BY <1>0, <1>1, <2>2 DEF Shapes
    <2>4. new # NoPlan BY <1>p, <2>2, NoPlanFacts
    <2> QED BY <1>1, <2>1, <2>2, <2>3, <2>4
  <1>2. CASE same
    <2>1. ~renamed /\ plan[m] # NoPlan /\ new = plan[m] /\ gens' = gens BY <1>2
    <2>2. /\ DOMAIN plan[m] = PlanFields /\ plan[m].gen \in 1 .. gens /\ plan[m].catalog \in Names
          /\ plan[m].catalog = owner[m] /\ notify[m] = plan[m].policy
      BY <1>0, <2>1 DEF MemberOK
    <2>3. CASE retained
      <3>1. owner[m] = c BY <1>p, <2>2 DEF Upcoming
      <3> QED BY <1>2, <2>1, <2>2, <2>3, <3>1
    <2>4. CASE ~retained
      <3>1. SameShape(c, m, plan[m]) BY <1>2, <2>4
      <3>2. ~Retains(m, desired[c][m]) BY <2>1, <2>4 DEF Retains
      <3>3. plan[m].catalog = c /\ plan[m].node = desired[c][m].node /\ plan[m].policy = PolicyOf(desired[c][m])
        BY <3>1, <3>2, ShapeFacts
      <3> QED BY <1>2, <2>1, <2>2, <2>4, <3>3
    <2> QED BY <2>3, <2>4
  <1> QED BY <1>1, <1>2

LEMMA KeepKeeps ==
    ASSUME Parameters, Inv, NEW c \in Names, KeepMember(c)
    PROVE  Inv'
  <1>1. PICK m \in Members : \E new : \E renamed, retained, same, restored \in BOOLEAN :
               Keeping(c, m, new, renamed, retained, same, restored)
    BY KeepEffects
  <1>2. PICK new : \E renamed, retained, same, restored \in BOOLEAN :
               Keeping(c, m, new, renamed, retained, same, restored)
    BY <1>1
  <1>3. PICK renamed \in BOOLEAN, retained \in BOOLEAN, same \in BOOLEAN, restored \in BOOLEAN :
               Keeping(c, m, new, renamed, retained, same, restored)
    BY <1>2
  <1>p. NoOwner \notin Names BY DEF Parameters
  <1>4. Upcoming(c, m) /\ Touch(c, m) BY <1>3 DEF Keeping
  <1>5. pc[c] = "members" /\ lock = c /\ m \in task[c].todo /\ m \in Members \ Static
        /\ owner[m] \in {NoOwner, c} /\ View(m) = dir[m]
        /\ \A e \in cooldown : e[1] = m => Rightful(e)
    BY <1>4 DEF Upcoming
  <1>6. /\ DOMAIN new = PlanFields /\ new # NoPlan /\ new.catalog = c /\ owner'[m] = c
        /\ notify'[m] = new.policy /\ new.gen \in 1 .. gens'
    BY <1>3, KeptPlan
  <1>7. plan'[m] = new BY <1>3 DEF Keeping
  <1>8. MemberOK(m) BY DEF Inv
  <1>9. View(m)' = IF m \in task'[c].loading THEN "loading" ELSE dir'[m]
    <2>1. View(m)' = Updated(task[c], m)' BY <1>4, <1>5, <1>p, TouchView
    <2>2. m \in task'[c].loading => m \in task'[c].removed \/ dir'[m] = "absent" BY <1>3 DEF Keeping
    <2>3. m \in task'[c].removed => m \in task'[c].loading BY <1>3 DEF Keeping
    <2> QED BY <2>1, <2>2, <2>3 DEF Updated
  <1>10. m \notin task'[c].loading => dir'[m] # "absent" /\ (dir'[m] = "loading" => dir[m] = "loading")
    BY <1>3 DEF Keeping
  <1>11. MemberOK(m)'
    <2>1. dir'[m] \in {"absent", "loading", "active", "revived"} BY <1>3, <1>8 DEF Keeping, MemberOK
    <2>2. View(m)' # "absent" BY <1>9, <1>10
    <2> QED BY <1>5, <1>6, <1>7, <2>1, <2>2 DEF MemberOK
  <1>12. m \in task'[c].changed => plan'[m] # NoPlan BY <1>6, <1>7
  <1>13. plan'[m] = plan[m] \/ m \in task'[c].removed \cup task'[c].changed BY <1>3, <1>7 DEF Keeping
  <1>14. serving /\ View(m)' = "loading" => Requested(m)'
    <2> HAVE serving /\ View(m)' = "loading"
    <2>0. pc' = pc /\ asked' = asked BY <1>4 DEF Touch
    <2>1. CASE m \in task'[c].loading \/ ~same
      <3>1. <<m, plan'[m].gen>> \in task'[c].refresh BY <1>3, <1>7, <2>1 DEF Keeping
      <3>2. pc'[c] \in Inside BY <1>5, <2>0 DEF Inside
      <3> QED BY <3>1, <3>2 DEF Requested
    <2>2. CASE m \notin task'[c].loading /\ same
      <3>1. View(m) = "loading" BY <1>5, <1>9, <1>10, <2>2
      <3>2. Requested(m) BY <3>1 DEF Inv, Asking
      <3>3. plan'[m] = plan[m] BY <1>3, <1>7, <2>2 DEF Keeping
      <3>4. \A d \in Names : task[d].refresh \subseteq task'[d].refresh BY <1>4 DEF Touch
      <3> QED BY <2>0, <3>2, <3>3, <3>4 DEF Requested
    <2> QED BY <2>1, <2>2
  <1> QED BY <1>4, <1>5, <1>6, <1>11, <1>12, <1>13, <1>14, TouchKeeps

\* A step that only passes on to the next phase with the lock.
LEMMA PassKeeps ==
    ASSUME Parameters, Inv, NEW c \in Names, pc[c] \in {"members", "cooldowns"},
           NEW q \in {"cooldowns", "unlock"}, pc' = [pc EXCEPT ![c] = q], task[c].todo = {},
           UNCHANGED <<held, task, lock, owner, desired, applied, plan, notify, attempt, asked,
                       gens, serving, keeper, restarts, boot>>,
           DOMAIN dir' = Members, \A m \in Members : dir'[m] = View(m),
           \A m \in Members : dir'[m] \in {"absent", "loading", "active", "revived"},
           cooldown' \subseteq cooldown, q = "unlock" => \A e \in cooldown' : Rightful(e)
    PROVE  Inv'
  <1>0. Shapes /\ Locking /\ TaskOf(c) /\ AimOf(c) /\ OwnsOf(c) /\ Cooling /\ Asking BY DEF Inv
  <1>p. NoOwner \notin Names BY DEF Parameters
  <1>1. pc'[c] = q /\ \A d \in Names : d # c => pc'[d] = pc[d] BY <1>0 DEF Shapes
  <1>2. lock = c BY <1>0 DEF Locking, Inside
  <1>3. Apart(c) BY <1>0, <1>1 DEF Apart, Shapes
  <1>4. \A d \in Names : d # c => /\ TaskOf(d)' /\ AimOf(d)' /\ OwnsOf(d)'
                                  /\ pc[d] \notin Inside /\ pc'[d] \in Phases \ Inside
    BY <1>2, <1>3, ApartKeeps
  <1>5. Shapes' BY <1>0 DEF Shapes
  <1>6. Locking' BY <1>0, <1>1, <1>2, <1>4 DEF Locking, Inside, Phases
  <1>7. TaskOf(c)' BY <1>0, <1>1 DEF TaskOf, Inside, Early
  <1>8. AimOf(c)' BY <1>0, <1>1 DEF AimOf, Inside
  <1>9. OwnsOf(c)' BY <1>0, <1>1 DEF OwnsOf, Inside
  <1>10. \A m \in Members : View(m)' = View(m)
    <2> TAKE m \in Members
    <2>1. ~InMembers' BY <1>1, <1>2 DEF InMembers
    <2> QED BY <2>1 DEF View
  <1>11. \A m \in Members : MemberOK(m)'
    <2> TAKE m \in Members
    <2>1. MemberOK(m) BY DEF Inv
    <2>2. m \in Static => dir'[m] = "absent"
      <3>1. m \in Static => plan[m] = NoPlan BY <2>1 DEF MemberOK
      <3>2. plan[m] = NoPlan => View(m) = "absent" BY <2>1 DEF MemberOK
      <3> QED BY <3>1, <3>2
    <2> QED BY <1>10, <2>1, <2>2 DEF MemberOK
  <1>12. Cooling'
    <2>1. \A e \in cooldown' :
             e[1] \in Members /\ (\/ Rightful(e)'
                                  \/ (lock # NoOwner /\ pc[lock] \in {"members", "cooldowns"} /\ Noted(e[1]))')
      <3> TAKE e \in cooldown'
      <3>1. e[1] \in Members BY <1>0 DEF Cooling
      <3>2. CASE Rightful(e) BY <3>1, <3>2 DEF Rightful
      <3>3. CASE Noted(e[1]) /\ q # "unlock" BY <1>1, <1>2, <1>p, <3>1, <3>3 DEF Noted
      <3> QED BY <1>0, <1>2, <3>1, <3>2, <3>3 DEF Cooling
    <2>2. \A d \in Names : pc'[d] \in Inside => d = c BY <1>4
    <2>3. \A m \in task[c].changed : m \in Members /\ (plan[m] # NoPlan \/ m \in task[c].removed)
      BY <1>0 DEF Cooling, Inside
    <2> QED BY <2>1, <2>2, <2>3 DEF Cooling
  <1>13. Asking'
    <2> SUFFICES ASSUME serving', NEW m \in Members, View(m)' = "loading" PROVE Requested(m)' BY DEF Asking
    <2>1. Requested(m) BY <1>0, <1>10 DEF Asking
    <2>2. \A d \in Names : pc[d] \in Inside \cup {"send"} => pc'[d] \in Inside \cup {"send"}
      BY <1>1 DEF Inside
    <2> QED BY <2>1, <2>2 DEF Requested
  <1>14. \A d \in Names : TaskOf(d)' /\ AimOf(d)' /\ OwnsOf(d)' BY <1>4, <1>7, <1>8, <1>9
  <1> QED BY <1>5, <1>6, <1>11, <1>12, <1>13, <1>14 DEF Inv

LEMMA UpdateKeeps ==
    ASSUME Parameters, Inv, NEW c \in Names, UpdateDirectory(c)
    PROVE  Inv'
  <1>0. Shapes /\ Locking /\ \A m \in Members : MemberOK(m) BY DEF Inv
  <1>p. NoOwner \notin Names BY DEF Parameters
  <1>1. /\ pc[c] = "members" /\ task[c].todo = {} /\ pc' = [pc EXCEPT ![c] = "cooldowns"]
        /\ dir' = [m \in Members |-> Updated(task[c], m)]
        /\ UNCHANGED <<held, task, lock, owner, desired, applied, plan, notify, cooldown, attempt, asked,
                       gens, serving, keeper, restarts, boot>>
    BY DEF UpdateDirectory, world
  <1>2. lock = c BY <1>0, <1>1 DEF Locking, Inside
  <1>3. \A m \in Members : dir'[m] = View(m) BY <1>1, <1>2, <1>p DEF View, InMembers
  <1>4. \A m \in Members : dir'[m] \in {"absent", "loading", "active", "revived"}
    BY <1>0, <1>1 DEF Updated, MemberOK
  <1> QED BY <1>1, <1>3, <1>4, PassKeeps

LEMMA CooldownsKeeps ==
    ASSUME Parameters, Inv, NEW c \in Names, ReconcileCooldowns(c)
    PROVE  Inv'
  <1>0. Shapes /\ Locking /\ AimOf(c) /\ Cooling /\ \A m \in Members : MemberOK(m) BY DEF Inv
  <1>1. /\ pc[c] = "cooldowns" /\ pc' = [pc EXCEPT ![c] = "unlock"]
        /\ cooldown' = {e \in cooldown : KeptEntry(task[c], e)}
        /\ UNCHANGED <<held, task, lock, owner, desired, applied, plan, notify, dir, attempt, asked,
                       gens, serving, keeper, restarts, boot>>
    BY DEF ReconcileCooldowns, world
  <1>2. lock = c BY <1>0, <1>1 DEF Locking, Inside
  <1>3. \A m \in Members : dir'[m] = View(m) BY <1>1, <1>2 DEF View, InMembers
  <1>4. \A m \in Members : dir'[m] \in {"absent", "loading", "active", "revived"} BY <1>0, <1>1 DEF MemberOK
  <1>5. \A e \in cooldown' : Rightful(e)
    <2> TAKE e \in cooldown'
    <2>1. e \in cooldown /\ e[1] \notin task[c].removed /\ (e[1] \in task[c].changed => e[2] = plan[e[1]].gen)
      BY <1>1 DEF KeptEntry
    <2>2. Rightful(e) \/ e[1] \in task[c].changed BY <1>0, <1>2, <2>1 DEF Cooling, Noted
    <2>3. e[1] \in task[c].changed => plan[e[1]] # NoPlan BY <1>0, <1>1, <2>1 DEF Cooling, Inside
    <2> QED BY <2>1, <2>2, <2>3 DEF Rightful
  <1>6. DOMAIN dir' = Members /\ task[c].todo = {} /\ cooldown' \subseteq cooldown BY <1>0, <1>1 DEF Shapes, AimOf
  <1> QED BY <1>1, <1>3, <1>4, <1>5, <1>6, PassKeeps

LEMMA UnlockKeeps ==
    ASSUME Parameters, Inv, NEW c \in Names, Unlock(c)
    PROVE  Inv'
  <1>0. Shapes /\ Locking /\ TaskOf(c) /\ AimOf(c) /\ OwnsOf(c) /\ Cooling /\ Asking BY DEF Inv
  <1>p. NoOwner \notin Names BY DEF Parameters
  <1>1. /\ pc[c] = "unlock" /\ pc' = [pc EXCEPT ![c] = "send"] /\ lock' = NoOwner
        /\ applied' = [applied EXCEPT ![c] = task[c].accepted]
        /\ UNCHANGED <<held, task, owner, desired, plan, notify, dir, cooldown, attempt, asked,
                       gens, serving, keeper, restarts, boot>>
    BY DEF Unlock, world
  <1>2. lock = c BY <1>0, <1>1 DEF Locking, Inside
  <1>3. /\ pc'[c] = "send" /\ applied'[c] = task[c].accepted
        /\ \A d \in Names : d # c => pc'[d] = pc[d] /\ applied'[d] = applied[d]
    BY <1>0, <1>1 DEF Shapes
  <1>4. Apart(c) BY <1>0, <1>1, <1>3 DEF Apart, Shapes
  <1>5. \A d \in Names : d # c => /\ TaskOf(d)' /\ AimOf(d)' /\ OwnsOf(d)'
                                  /\ pc[d] \notin Inside /\ pc'[d] \in Phases \ Inside
    BY <1>1, <1>2, <1>4, ApartKeeps
  <1>6. Shapes' BY <1>0, <1>1 DEF Shapes
  <1>7. Locking'
    <2>1. \A d \in Names : pc'[d] \in Phases /\ pc'[d] \notin Inside /\ d # NoOwner
      BY <1>3, <1>5, <1>p DEF Phases, Inside
    <2> QED BY <1>1, <2>1 DEF Locking
  <1>8. TaskOf(c)' BY <1>0, <1>1, <1>3 DEF TaskOf, Inside, Early
  <1>9. task[c].accepted \subseteq Accepted(Parsed(held[c].list)) /\ held[c].list \in [Members -> Entries]
        /\ task[c].todo = {}
    BY <1>0, <1>1 DEF TaskOf, AimOf, Inside
  <1>10. AimOf(c)'
    <2>1. task[c].accepted \subseteq Members \ Static /\ Cardinality(task[c].accepted) <= Cap
      BY <1>9, ParsedFacts
    <2> QED BY <1>0, <1>1, <1>3, <1>9, <2>1 DEF AimOf, Inside
  <1>11. OwnsOf(c)'
    <2>1. \A m \in task[c].accepted : owner[m] = c BY <1>0, <1>1, <1>9 DEF OwnsOf, Inside
    <2> QED BY <1>1, <1>3, <2>1 DEF OwnsOf, Inside
  <1>12. \A m \in Members : View(m)' = View(m) BY <1>1, <1>2 DEF View, InMembers
  <1>13. \A m \in Members : MemberOK(m)'
    <2> TAKE m \in Members
    <2>1. MemberOK(m) BY DEF Inv
    <2> QED BY <1>1, <1>12, <2>1 DEF MemberOK
  <1>14. Cooling'
    <2>1. \A e \in cooldown : e[1] \in Members /\ Rightful(e) BY <1>0, <1>1, <1>2 DEF Cooling
    <2>2. \A d \in Names : pc'[d] \notin Inside BY <1>3, <1>5 DEF Inside
    <2> QED BY <1>1, <2>1, <2>2 DEF Cooling, Rightful
  <1>15. Asking'
    <2> SUFFICES ASSUME serving', NEW m \in Members, View(m)' = "loading" PROVE Requested(m)' BY DEF Asking
    <2>1. Requested(m) BY <1>0, <1>1, <1>12 DEF Asking
    <2>2. \A d \in Names : pc[d] \in Inside \cup {"send"} => pc'[d] \in Inside \cup {"send"} BY <1>3
    <2> QED BY <1>1, <2>1, <2>2 DEF Requested
  <1>16. \A d \in Names : TaskOf(d)' /\ AimOf(d)' /\ OwnsOf(d)' BY <1>5, <1>8, <1>10, <1>11
  <1> QED BY <1>6, <1>7, <1>13, <1>14, <1>15, <1>16 DEF Inv

\* Nothing happens.
LEMMA StutterKeeps ==
    ASSUME Inv, UNCHANGED vars
    PROVE  Inv'
  BY DEF vars, Inv, Shapes, Locking, TaskOf, AimOf, OwnsOf, MemberOK, Cooling, Asking,
         View, InMembers, Updated, Rightful, Noted, Requested

LEMMA StepKeeps ==
    ASSUME Parameters, Inv, [Next]_vars
    PROVE  Inv'
  <1>1. ASSUME NEW c \in Names, NEW l \in Listings, Transfer(c, l) PROVE Inv' BY <1>1, TransferKeeps
  <1>2. ASSUME NEW c \in Names, ApplyStep(c) PROVE Inv'
    BY <1>2, FilterKeeps, LockKeeps, RemoveKeeps, KeepKeeps, FailKeeps, UpdateKeeps,
       CooldownsKeeps, UnlockKeeps, SendKeeps DEF ApplyStep
  <1>3. ASSUME NEW c \in Names,
               Confirm(c) \/ Expire(c) \/ Prepare(c) \/ Abort(c) \/ Publish(c)
        PROVE  Inv'
    BY <1>3, ConfirmKeeps, ExpireKeeps, PrepareKeeps, AbortKeeps, PublishKeeps
  <1>4. ASSUME NEW m \in Members, Start(m) \/ Unsupported(m) \/ Finish(m) PROVE Inv'
    BY <1>4, StartKeeps, UnsupportedKeeps, FinishKeeps
  <1>5. CASE Prune BY <1>5, PruneKeeps
  <1>6. CASE Restart
    <2>1. Empty' BY <1>6, RestartIsEmpty
    <2>2. Parameters' BY DEF Parameters
    <2> QED BY <2>1, <2>2, EmptyIsFine, PTL
  <1>7. CASE BootNext BY <1>7, BootNextKeeps
  <1>8. CASE Open BY <1>8, OpenKeeps
  <1>9. CASE UNCHANGED vars BY <1>9, StutterKeeps
  <1> QED BY <1>1, <1>2, <1>3, <1>4, <1>5, <1>6, <1>7, <1>8, <1>9 DEF Next

\* The invariant.
LEMMA Invariant ==
    ASSUME Parameters
    PROVE  Spec => []Inv
  <1>1. Init => Inv BY InitIsEmpty, EmptyIsFine
  <1>2. Inv /\ [Next]_vars => Inv' BY StepKeeps
  <1> QED BY <1>1, <1>2, PTL DEF Spec

-----------------------------------------------------------------------------
(* What holds whatever fails.                                              *)

(* The reconciliations exclude each other, no catalog is applied beyond    *)
(* max_member_zones, every plan has a generation that was given out, and a *)
(* configured zone is never owned, planned or served as a catalog member.  *)
THEOREM TypeCorrect ==
    ASSUME Parameters
    PROVE  Spec => []TypeOK
  <1>1. Inv => TypeOK
    <2> HAVE Inv
    <2>1. \A c \in Names :
             /\ held[c].state \in {"none", "active", "expired"}
             /\ pc[c] \in {"idle", "prepare", "publish", "filter", "lock", "members",
                           "cooldowns", "unlock", "send"}
             /\ pc[c] \in {"members", "cooldowns", "unlock"} <=> lock = c
             /\ Cardinality(applied[c]) <= Cap
      BY DEF Inv, Locking, TaskOf, AimOf, Phases, Early, Inside
    <2>2. lock \in Names \cup {NoOwner} BY DEF Inv, Locking
    <2>3. \A m \in Members :
             /\ owner[m] \in Names \cup {NoOwner}
             /\ dir[m] \in {"absent", "loading", "active", "revived"}
             /\ plan[m] # NoPlan => plan[m].gen \in 1 .. gens
             /\ m \in Static => owner[m] = NoOwner /\ plan[m] = NoPlan /\ dir[m] = "absent"
      BY DEF Inv, MemberOK
    <2> QED BY <2>1, <2>2, <2>3 DEF TypeOK
  <1> QED BY <1>1, Invariant, PTL

(* No IXFR cooldown outlives the plan generation it was recorded for.      *)
THEOREM CooldownIsNeverStale ==
    ASSUME Parameters
    PROVE  Spec => []NoStaleCooldown
  <1>1. Inv => NoStaleCooldown BY DEF Inv, Cooling, Rightful, NoStaleCooldown
  <1> QED BY <1>1, Invariant, PTL

(* A LOADING member has been asked for under its present generation, or is *)
(* about to be.                                                            *)
THEOREM LoadingIsAlwaysAsked ==
    ASSUME Parameters
    PROVE  Spec => []LoadingIsAsked
  <1>1. Inv => LoadingIsAsked
    <2> SUFFICES ASSUME Inv, serving, NEW m \in Members, dir[m] = "loading", lock = NoOwner
                 PROVE  \/ <<m, plan[m].gen>> \in asked
                        \/ \E c \in Names : pc[c] = "send" /\ <<m, plan[m].gen>> \in task[c].refresh
        BY DEF LoadingIsAsked
    <2>1. View(m) = "loading" BY DEF View, InMembers
    <2>2. Requested(m) BY <2>1 DEF Inv, Asking
    <2>3. \A c \in Names : pc[c] \notin Inside
      <3>1. NoOwner \notin Names BY DEF Parameters
      <3> QED BY <3>1 DEF Inv, Locking
    <2> QED BY <2>2, <2>3 DEF Requested
  <1> QED BY <1>1, Invariant, PTL

-----------------------------------------------------------------------------
(* Where every cache binding can be had.                                   *)

LEMMA EmptyIsStrict ==
    ASSUME Parameters, Empty
    PROVE  Strict
  <1>1. \A m \in Members : owner[m] = NoOwner BY DEF Empty
  <1>2. ASSUME NEW c \in Names PROVE Exact(c) /\ Faithful(c)
    <2>1. pc[c] = "idle" /\ applied[c] = {} /\ desired[c] = [m \in Members |-> Unlisted]
      BY NoTaskFacts DEF Empty
    <2>2. c # NoOwner BY DEF Parameters
    <2>3. Exact(c) BY <1>1, <2>1, <2>2 DEF Exact, Inside
    <2>4. Listed(desired[c]) = {} BY <2>1, EntryFacts DEF Listed
    <2>5. Faithful(c) BY <2>1, <2>4 DEF Faithful, Inside
    <2> QED BY <2>3, <2>5
  <1> QED BY <1>1, <1>2 DEF Strict

\* What a catalog has applied is as it was, as long as its own members are left alone.
LEMMA FaithfulOutside ==
    ASSUME NEW d, Exact(d), Faithful(d), pc[d] \notin Inside, pc'[d] \notin Inside,
           applied'[d] = applied[d], desired'[d] = desired[d], applied[d] \subseteq Members,
           \A n \in Members : owner'[n] = d => owner[n] = d,
           \A n \in applied[d] : plan'[n].node = plan[n].node /\ plan'[n].policy = plan[n].policy
    PROVE  Exact(d)' /\ Faithful(d)'
  <1>1. pc[d] # "members" /\ pc'[d] # "members" BY DEF Inside
  <1>2. Exact(d)' BY DEF Exact
  <1>3. \A n \in applied[d] : Follows(n, desired[d][n])' BY DEF Faithful, Follows
  <1> QED BY <1>1, <1>2, <1>3 DEF Faithful

\* A step of a catalog without the lock.
LEMMA QuietStrict ==
    ASSUME Inv, Strict, NEW c \in Names, Quiet(c)
    PROVE  Strict'
  <1> USE DEF Quiet
  <1>1. \A m \in Members : owner'[m] # NoOwner => plan'[m] # NoPlan BY DEF Strict, Alike
  <1>2. ASSUME NEW d \in Names PROVE Exact(d)' /\ Faithful(d)'
    <2>0. Exact(d) /\ Faithful(d) BY DEF Strict
    <2>a. applied[d] \subseteq Members BY DEF Inv, AimOf
    <2>1. \A n \in Members : plan'[n].node = plan[n].node /\ plan'[n].policy = plan[n].policy
                             /\ (plan'[n] = NoPlan <=> plan[n] = NoPlan)
      BY DEF Alike
    <2>2. applied'[d] = applied[d] /\ desired'[d] = desired[d] /\ owner' = owner OBVIOUS
    <2>3. CASE pc[d] \notin Inside /\ pc'[d] \notin Inside
      <3> HIDE DEF Quiet
      <3>1. \A n \in Members : owner'[n] = d => owner[n] = d BY <2>2
      <3>2. \A n \in applied[d] : plan'[n].node = plan[n].node /\ plan'[n].policy = plan[n].policy
        BY <2>1, <2>a
      <3> QED BY <2>0, <2>2, <2>3, <2>a, <3>1, <3>2, FaithfulOutside
    <2>4. CASE ~(pc[d] \notin Inside /\ pc'[d] \notin Inside)
      <3>1. d # c BY <2>4
      <3>2. pc'[d] = pc[d] /\ task'[d] = task[d] /\ pc[d] \in Inside BY <2>4, <3>1
      <3> HIDE DEF Quiet
      <3>3. Exact(d)' BY <2>0, <2>2, <3>2 DEF Exact
      <3>4. task[d].accepted \subseteq Members /\ (pc[d] = "members" => task[d].todo \subseteq Members)
        <4>1. TaskOf(d) /\ AimOf(d) BY DEF Inv
        <4>2. task[d].accepted \subseteq Accepted(task[d].list) BY <3>2, <4>1 DEF TaskOf, AimOf
        <4> QED BY <4>1, <4>2 DEF AimOf, Accepted, Listed
      <3>5. Faithful(d)' BY <2>0, <2>1, <2>2, <3>2, <3>4 DEF Faithful, Follows
      <3> QED BY <3>3, <3>5
    <2> QED BY <2>3, <2>4
  <1> QED BY <1>1, <1>2 DEF Strict

\* A step with the lock leaves the other catalogs as they are.
LEMMA ApartStrict ==
    ASSUME Parameters, Inv, Strict, NEW c \in Names, Apart(c), lock \in {NoOwner, c},
           \A m \in Members : owner'[m] # owner[m] => owner[m] \in {NoOwner, c} /\ owner'[m] \in {NoOwner, c},
           \A m \in Members : plan'[m] # plan[m] => owner[m] \in {NoOwner, c}
    PROVE  \A d \in Names : d # c => Exact(d)' /\ Faithful(d)'
  <1> SUFFICES ASSUME NEW d \in Names, d # c PROVE Exact(d)' /\ Faithful(d)' OBVIOUS
  <1>1. Exact(d) /\ Faithful(d) /\ AimOf(d) /\ OwnsOf(d) BY DEF Strict, Inv
  <1>2. \A m \in Members : owner'[m] # owner[m] => owner[m] \in {NoOwner, c} OBVIOUS
  <1>3. pc[d] \notin Inside /\ pc'[d] \notin Inside BY <1>2, ApartKeeps
  <1>4. applied'[d] = applied[d] /\ desired'[d] = desired[d] /\ applied[d] \subseteq Members
    BY <1>1 DEF Apart, AimOf
  <1>5. d # NoOwner BY DEF Parameters
  <1>6. \A n \in Members : owner'[n] = d => owner[n] = d BY <1>5
  <1>7. \A n \in applied[d] : plan'[n] = plan[n]
    <2> TAKE n \in applied[d]
    <2>1. owner[n] = d /\ n \in Members BY <1>1, <1>3, <1>4 DEF OwnsOf
    <2> QED BY <1>5, <2>1
  <1> QED BY <1>1, <1>3, <1>4, <1>6, <1>7, FaithfulOutside

LEMMA LockStrict ==
    ASSUME Parameters, Inv, Strict, NEW c \in Names, Lock(c)
    PROVE  Strict'
  <1>0. Shapes /\ TaskOf(c) /\ AimOf(c) /\ OwnsOf(c) /\ Exact(c) /\ Faithful(c) BY DEF Inv, Strict
  <1>1. /\ pc[c] = "lock" /\ lock = NoOwner /\ pc' = [pc EXCEPT ![c] = "members"]
        /\ UNCHANGED <<held, owner, applied, plan, attempt, asked, serving, restarts, boot>>
    BY DEF Lock, world
  <1>2. /\ DOMAIN task' = Names /\ DOMAIN task'[c] = Fields
        /\ \A d \in Names : d # c => task'[d] = task[d]
        /\ task'[c].previous = desired[c] /\ task'[c].accepted = Desired(c)
        /\ task'[c].todo = applied[c] \cup Desired(c)
    BY <1>0 DEF Lock, Shapes, Fields
  <1>3. /\ DOMAIN desired' = Names
        /\ \A d \in Names : d # c => desired'[d] = desired[d]
        /\ desired'[c] = [m \in Members |-> IF m \in Desired(c) THEN task[c].list[m] ELSE Unlisted]
    BY <1>0 DEF Lock, Shapes
  <1>4. pc'[c] = "members" /\ \A d \in Names : d # c => pc'[d] = pc[d] BY <1>0, <1>1 DEF Shapes
  <1>5. Apart(c) BY <1>0, <1>1, <1>2, <1>3, <1>4 DEF Apart, Shapes
  <1>6. \A d \in Names : d # c => Exact(d)' /\ Faithful(d)' BY <1>1, <1>5, ApartStrict
  <1>7. Exact(c)'
    <2>1. \A m \in Members : owner[m] = c => m \in applied[c] BY <1>0, <1>1 DEF Exact, Inside
    <2> QED BY <1>1, <1>2, <1>4, <2>1 DEF Exact, Inside
  <1>8. Faithful(c)'
    <2>1. Desired(c) \subseteq Members /\ \A m \in Desired(c) : task[c].list[m].node # 0
      <3>1. task[c].candidates = Accepted(task[c].list) BY <1>0, <1>1 DEF TaskOf
      <3> QED BY <3>1 DEF Desired, Accepted, Listed
    <2>2. Listed(desired[c])' = Desired(c) BY <1>3, <2>1, EntryFacts DEF Listed
    <2>3. ASSUME NEW m \in task'[c].todo, plan'[m] # NoPlan 
          PROVE  plan'[m].node = task'[c].previous[m].node /\ plan'[m].node # 0
      <3>1. m \in Members /\ plan' = plan BY <1>0, <1>1, <1>2, <2>1, <2>3 DEF AimOf
      <3>2. MemberOK(m) BY <3>1 DEF Inv
      <3>3. owner[m] \in Names /\ owner[m] \in {NoOwner, c}
        <4>1. owner[m] \in Names BY <2>3, <3>1, <3>2 DEF MemberOK
        <4>2. m \in applied[c] => owner[m] = c BY <1>0, <1>1 DEF OwnsOf, Inside
        <4>3. m \in Desired(c) => owner[m] \in {NoOwner, c} BY DEF Desired, Clashes
        <4> QED BY <1>2, <4>1, <4>2, <4>3
      <3>4. owner[m] = c BY <3>3 DEF Parameters
      <3>5. m \in applied[c] BY <1>0, <1>1, <3>1, <3>4 DEF Exact, Inside
      <3>6. Follows(m, desired[c][m]) BY <1>0, <1>1, <3>5 DEF Faithful, Inside
      <3>7. desired[c][m].node # 0 BY <1>0, <1>1, <3>5 DEF Faithful, Inside, Listed
      <3> QED BY <1>2, <3>1, <3>6, <3>7 DEF Follows
    <2> QED BY <1>2, <1>4, <2>2, <2>3 DEF Faithful, Inside
  <1>9. \A m \in Members : owner'[m] # NoOwner => plan'[m] # NoPlan BY <1>1 DEF Strict
  <1> QED BY <1>6, <1>7, <1>8, <1>9 DEF Strict

LEMMA RemoveStrict ==
    ASSUME Parameters, Inv, Strict, NEW c \in Names, RemoveMember(c)
    PROVE  Strict'
  <1>1. PICK m \in Members : Removing(c, m) BY RemoveEffects
  <1>2. Upcoming(c, m) /\ Touch(c, m) BY <1>1 DEF Removing
  <1>3. pc[c] = "members" /\ lock = c /\ m \in task[c].todo /\ owner[m] \in {NoOwner, c} BY <1>2 DEF Upcoming
  <1>4. owner'[m] = NoOwner /\ plan'[m] = NoPlan /\ task'[c].accepted = task[c].accepted
        /\ desired[c][m].node = 0
    BY <1>1 DEF Removing
  <1>5. \A n \in Members : n # m => owner'[n] = owner[n] /\ plan'[n] = plan[n] BY <1>2 DEF Touch
  <1>6. Apart(c)
    <2>1. Shapes BY DEF Inv
    <2> QED BY <1>2, <2>1 DEF Apart, Touch, Shapes
  <1>7. \A d \in Names : d # c => Exact(d)' /\ Faithful(d)' BY <1>3, <1>4, <1>5, <1>6, ApartStrict
  <1>8. Exact(c) /\ Faithful(c) /\ AimOf(c) /\ TaskOf(c) BY DEF Strict, Inv
  <1>9. pc'[c] = "members" /\ desired' = desired /\ task'[c].todo = task[c].todo \ {m}
        /\ task'[c].previous = task[c].previous
    BY <1>2, <1>3 DEF Touch
  <1>10. Exact(c)'
    <2>1. c # NoOwner BY DEF Parameters
    <2> QED BY <1>3, <1>4, <1>5, <1>8, <1>9, <2>1 DEF Exact, Inside
  <1>11. m \notin task[c].accepted
    <2>1. task[c].accepted = Listed(desired[c]) BY <1>3, <1>8 DEF Faithful, Inside
    <2> QED BY <1>4, <2>1 DEF Listed
  <1>12. task[c].accepted \subseteq Members /\ task[c].todo \subseteq Members
    BY <1>3, <1>8 DEF Faithful, Listed, Inside, AimOf
  <1>13. Faithful(c)' BY <1>3, <1>4, <1>5, <1>8, <1>9, <1>11, <1>12 DEF Faithful, Follows, Inside
  <1>14. \A n \in Members : owner'[n] # NoOwner => plan'[n] # NoPlan BY <1>4, <1>5 DEF Strict
  <1> QED BY <1>7, <1>10, <1>13, <1>14 DEF Strict

LEMMA KeepStrict ==
    ASSUME Parameters, Inv, Strict, NEW c \in Names, KeepMember(c)
    PROVE  Strict'
  <1>1. PICK m \in Members : \E new : \E renamed, retained, same, restored \in BOOLEAN :
               Keeping(c, m, new, renamed, retained, same, restored)
    BY KeepEffects
  <1>2. PICK new : \E renamed, retained, same, restored \in BOOLEAN :
               Keeping(c, m, new, renamed, retained, same, restored)
    BY <1>1
  <1>3. PICK renamed \in BOOLEAN, retained \in BOOLEAN, same \in BOOLEAN, restored \in BOOLEAN :
               Keeping(c, m, new, renamed, retained, same, restored)
    BY <1>2
  <1>4. Upcoming(c, m) /\ Touch(c, m) BY <1>3 DEF Keeping
  <1>5. pc[c] = "members" /\ lock = c /\ m \in task[c].todo /\ owner[m] \in {NoOwner, c} BY <1>4 DEF Upcoming
  <1>6. /\ new # NoPlan /\ owner'[m] = c
        /\ ~same => new.node = desired[c][m].node /\ new.policy = PolicyOf(desired[c][m])
        /\ same /\ ~retained => new.node = desired[c][m].node /\ new.policy = PolicyOf(desired[c][m])
    BY <1>3, KeptPlan
  <1>7. plan'[m] = new /\ task'[c].accepted = task[c].accepted /\ desired[c][m].node # 0 BY <1>3 DEF Keeping
  <1>8. \A n \in Members : n # m => owner'[n] = owner[n] /\ plan'[n] = plan[n] BY <1>4 DEF Touch
  <1>9. Exact(c) /\ Faithful(c) /\ AimOf(c) /\ TaskOf(c) BY DEF Strict, Inv
  <1>10. pc'[c] = "members" /\ desired' = desired /\ task'[c].todo = task[c].todo \ {m}
         /\ task'[c].previous = task[c].previous
    BY <1>4, <1>5 DEF Touch
  <1>11. Apart(c)
    <2>1. Shapes BY DEF Inv
    <2> QED BY <1>4, <2>1 DEF Apart, Touch, Shapes
  <1>12. \A d \in Names : d # c => Exact(d)' /\ Faithful(d)' BY <1>5, <1>6, <1>8, <1>11, ApartStrict
  <1>13. m \in task[c].accepted /\ task[c].accepted = Listed(desired[c])
    <2>1. task[c].accepted = Listed(desired[c]) BY <1>5, <1>9 DEF Faithful, Inside
    <2> QED BY <1>7, <2>1 DEF Listed
  <1>14. Exact(c)' BY <1>5, <1>7, <1>8, <1>9, <1>10, <1>13 DEF Exact, Inside
  <1>15. Follows(m, desired[c][m])'
    <2>1. CASE ~retained BY <1>6, <1>7, <1>10, <2>1 DEF Follows
    <2>2. CASE retained
      <3>1. desired[c][m].ext = "malformed" /\ ~renamed /\ plan[m] # NoPlan /\ new = plan[m]
        BY <1>3, <2>2 DEF Keeping
      <3>2. ~NodeChanged(c, m) BY <1>3, <3>1 DEF Keeping
      <3>3. plan[m].node = task[c].previous[m].node BY <1>5, <1>9, <3>1 DEF Faithful
      <3>4. plan[m].node = desired[c][m].node
        <4>1. plan[m].node # 0 BY <1>5, <1>9, <3>1 DEF Faithful
        <4> QED BY <3>2, <3>3, <4>1 DEF NodeChanged
      <3> QED BY <1>7, <1>10, <3>1, <3>4 DEF Follows
    <2> QED BY <2>1, <2>2
  <1>16. task[c].accepted \subseteq Members /\ task[c].todo \subseteq Members
    BY <1>5, <1>9 DEF Faithful, Listed, Inside, AimOf
  <1>17. Faithful(c)' BY <1>5, <1>7, <1>8, <1>9, <1>10, <1>15, <1>16 DEF Faithful, Follows, Inside
  <1>18. \A n \in Members : owner'[n] # NoOwner => plan'[n] # NoPlan BY <1>6, <1>7, <1>8 DEF Strict
  <1> QED BY <1>12, <1>14, <1>17, <1>18 DEF Strict

\* A step to the next phase that leaves owners and plans alone.
LEMMA PassStrict ==
    ASSUME Parameters, Inv, Strict, NEW c \in Names, NEW q \in {"cooldowns", "unlock"},
           pc[c] \in {"members", "cooldowns"}, task[c].todo = {}, pc' = [pc EXCEPT ![c] = q],
           UNCHANGED <<held, task, owner, desired, applied, plan, attempt, asked, serving, restarts, boot>>
    PROVE  Strict'
  <1>0. Shapes /\ Locking /\ Exact(c) /\ Faithful(c) BY DEF Inv, Strict
  <1>1. pc'[c] = q /\ \A d \in Names : d # c => pc'[d] = pc[d] BY <1>0 DEF Shapes
  <1>2. lock = c BY <1>0 DEF Locking, Inside
  <1>3. Apart(c) BY <1>0, <1>1 DEF Apart, Shapes
  <1>4. \A d \in Names : d # c => Exact(d)' /\ Faithful(d)' BY <1>2, <1>3, ApartStrict
  <1>5. Exact(c)' BY <1>0, <1>1 DEF Exact, Inside
  <1>6. Faithful(c)' BY <1>0, <1>1 DEF Faithful, Follows, Inside
  <1> QED BY <1>4, <1>5, <1>6 DEF Strict

LEMMA UnlockStrict ==
    ASSUME Parameters, Inv, Strict, NEW c \in Names, Unlock(c)
    PROVE  Strict'
  <1>0. Shapes /\ Locking /\ AimOf(c) /\ Exact(c) /\ Faithful(c) BY DEF Inv, Strict
  <1>1. /\ pc[c] = "unlock" /\ pc' = [pc EXCEPT ![c] = "send"]
        /\ applied' = [applied EXCEPT ![c] = task[c].accepted]
        /\ UNCHANGED <<held, task, owner, desired, plan, attempt, asked, serving, restarts, boot>>
    BY DEF Unlock, world
  <1>2. lock = c BY <1>0, <1>1 DEF Locking, Inside
  <1>3. /\ pc'[c] = "send" /\ applied'[c] = task[c].accepted /\ task[c].todo = {}
        /\ \A d \in Names : d # c => pc'[d] = pc[d] /\ applied'[d] = applied[d]
    BY <1>0, <1>1 DEF Shapes, AimOf
  <1>4. Apart(c) BY <1>0, <1>1, <1>3 DEF Apart, Shapes
  <1>5. \A d \in Names : d # c => Exact(d)' /\ Faithful(d)' BY <1>1, <1>2, <1>4, ApartStrict
  <1>6. Exact(c)' BY <1>0, <1>1, <1>3 DEF Exact, Inside
  <1>7. Faithful(c)' BY <1>0, <1>1, <1>3 DEF Faithful, Follows, Inside
  <1> QED BY <1>1, <1>5, <1>6, <1>7 DEF Strict

LEMMA AsideStrict ==
    ASSUME Strict, Aside
    PROVE  Strict'
  BY DEF Strict, Aside, Exact, Faithful, Follows

LEMMA StepStrict ==
    ASSUME Parameters, ~BindingFails, Inv, Strict, [Next]_vars
    PROVE  Strict'
  <1>1. ASSUME NEW c \in Names, NEW l \in Listings, Transfer(c, l) PROVE Strict'
    <2>1. Quiet(c) BY <1>1, TransferKeeps
    <2> QED BY <2>1, QuietStrict
  <1>2. ASSUME NEW c \in Names, Confirm(c) \/ Expire(c) \/ Prepare(c) \/ Abort(c) \/ Publish(c)
                                \/ Filter(c) \/ Send(c)
        PROVE  Strict'
    <2>1. Quiet(c)
      BY <1>2, ConfirmKeeps, ExpireKeeps, PrepareKeeps, AbortKeeps, PublishKeeps, FilterKeeps, SendKeeps
    <2> QED BY <2>1, QuietStrict
  <1>3. ASSUME NEW c \in Names, UpdateDirectory(c) PROVE Strict'
    <2>1. /\ pc[c] = "members" /\ task[c].todo = {} /\ pc' = [pc EXCEPT ![c] = "cooldowns"]
          /\ UNCHANGED <<held, task, owner, desired, applied, plan, attempt, asked, serving, restarts, boot>>
      BY <1>3 DEF UpdateDirectory, world
    <2> QED BY <2>1, PassStrict
  <1>4. ASSUME NEW c \in Names, ReconcileCooldowns(c) PROVE Strict'
    <2>1. /\ pc[c] = "cooldowns" /\ pc' = [pc EXCEPT ![c] = "unlock"]
          /\ UNCHANGED <<held, task, owner, desired, applied, plan, attempt, asked, serving, restarts, boot>>
      BY <1>4 DEF ReconcileCooldowns, world
    <2>2. task[c].todo = {} BY <2>1 DEF Inv, AimOf
    <2> QED BY <2>1, <2>2, PassStrict
  <1>5. ASSUME NEW c \in Names, ApplyStep(c) PROVE Strict'
    <2>1. ~BindingUnavailable(c) BY DEF BindingUnavailable
    <2> QED BY <1>2, <1>3, <1>4, <1>5, <2>1, LockStrict, RemoveStrict, KeepStrict, UnlockStrict DEF ApplyStep
  <1>6. ASSUME NEW m \in Members, Start(m) \/ Unsupported(m) \/ Finish(m) PROVE Strict'
    BY <1>6, StartKeeps, UnsupportedKeeps, FinishKeeps, AsideStrict
  <1>7. CASE Prune BY <1>7, PruneKeeps, AsideStrict
  <1>8. CASE Restart
    <2>1. Empty' BY <1>8, RestartIsEmpty
    <2>2. Parameters' BY DEF Parameters
    <2> QED BY <2>1, <2>2, EmptyIsStrict, PTL
  <1>9. CASE BootNext BY <1>9, BootNextKeeps, QuietStrict
  <1>10. CASE Open BY <1>10, OpenKeeps, AsideStrict
  <1>11. CASE UNCHANGED vars BY <1>11, AsideStrict DEF vars, Aside
  <1> QED BY <1>1, <1>2, <1>5, <1>6, <1>7, <1>8, <1>9, <1>10, <1>11 DEF Next

LEMMA StrictInvariant ==
    ASSUME Parameters, ~BindingFails
    PROVE  Spec => [](Inv /\ Strict)
  <1>1. Init => Inv /\ Strict BY InitIsEmpty, EmptyIsFine, EmptyIsStrict
  <1>2. Inv /\ Strict /\ [Next]_vars => Inv' /\ Strict' BY StepKeeps, StepStrict
  <1> QED BY <1>1, <1>2, PTL DEF Spec

(* Plans, NOTIFY policies, owners and the directory name the same members  *)
(* whenever no reconciliation holds the lock, if every binding of a cache  *)
(* can be had.                                                             *)
THEOREM RegistriesAlwaysAgree ==
    ASSUME Parameters, ~BindingFails
    PROVE  Spec => []RegistriesAgree
  <1>1. Inv /\ Strict => RegistriesAgree
    <2> SUFFICES ASSUME Inv, Strict, lock = NoOwner, NEW m \in Members
                 PROVE  /\ (plan[m] # NoPlan) <=> (owner[m] # NoOwner)
                        /\ (plan[m] # NoPlan) <=> (dir[m] # "absent")
                        /\ notify[m] = plan[m].policy
                        /\ plan[m] # NoPlan => plan[m].catalog = owner[m]
        BY DEF RegistriesAgree
    <2>1. MemberOK(m) BY DEF Inv
    <2>2. View(m) = dir[m] BY DEF View, InMembers
    <2>3. NoOwner \notin Names BY DEF Parameters
    <2>4. plan[m] # NoPlan => plan[m].catalog = owner[m] /\ owner[m] # NoOwner BY <2>1, <2>3 DEF MemberOK
    <2>5. owner[m] # NoOwner => plan[m] # NoPlan BY DEF Strict
    <2> QED BY <2>1, <2>2, <2>4, <2>5 DEF MemberOK
  <1> QED BY <1>1, StrictInvariant, PTL

(* What a catalog owns, the version of it that was last applied lists.     *)
THEOREM RemovedIsAlwaysGone ==
    ASSUME Parameters, ~BindingFails
    PROVE  Spec => []RemovedIsGone
  <1>1. Inv /\ Strict => RemovedIsGone
    <2> SUFFICES ASSUME Inv, Strict, NEW c \in Names, pc[c] = "idle", NEW m \in Members, owner[m] = c
                 PROVE  m \in Listed(held[c].list)
        BY DEF RemovedIsGone, Settled
    <2>1. m \in applied[c] BY DEF Strict, Exact, Inside
    <2>2. m \in Accepted(Parsed(held[c].list)) BY <2>1 DEF Inv, AimOf
    <2>3. held[c].list \in [Members -> Entries] BY DEF Inv, TaskOf
    <2> QED BY <2>2, <2>3, ParsedFacts
  <1> QED BY <1>1, StrictInvariant, PTL

-----------------------------------------------------------------------------
(* Where, besides, no catalog expires.                                     *)

\* A catalog that a step does not concern.
LEMMA DoneFrame ==
    ASSUME NEW d, DoneOf(d), held'[d] = held[d], pc'[d] = pc[d], applied'[d] = applied[d],
           desired'[d] = desired[d], task'[d] = task[d],
           Waiting(d) => Waiting(d)'
    PROVE  DoneOf(d)'
  <1>1. Done(d)' <=> Done(d) BY DEF Done, Others
  <1> QED BY <1>1 DEF DoneOf, Others

LEMMA QuietDone ==
    ASSUME AllDone, NEW c \in Names, Quiet(c), boot' = boot, held'[c].state # "expired",
           pc'[c] \in Calm => held'[c].state = held[c].state,
           pc'[c] = "send" => pc[c] = "send"
    PROVE  AllDone'
  <1> SUFFICES ASSUME NEW d \in Names PROVE DoneOf(d)' BY DEF AllDone
  <1>0. DoneOf(d) BY DEF AllDone
  <1>1. Waiting(d) => Waiting(d)' BY DEF Waiting, Quiet
  <1>2. applied' = applied /\ desired' = desired BY DEF Quiet
  <1>3. CASE d # c
    <2>1. held'[d] = held[d] /\ pc'[d] = pc[d] /\ task'[d] = task[d] BY <1>3 DEF Quiet
    <2> QED BY <1>0, <1>1, <1>2, <2>1, DoneFrame
  <1>4. CASE d = c
    <2>1. pc'[c] \notin Inside BY DEF Quiet
    <2>2. pc'[c] \in Calm => held'[c].list = held[c].list /\ pc[c] \in Calm BY DEF Quiet
    <2>3. pc'[c] \in Calm => (Done(c)' <=> Done(c)) BY <1>2, <2>2 DEF Done, Others
    <2> QED BY <1>0, <1>1, <1>4, <2>1, <2>2, <2>3 DEF DoneOf, Calm
  <1> QED BY <1>3, <1>4

\* A step with the lock, when the catalog that holds it is in order.
LEMMA ApartDone ==
    ASSUME AllDone, NEW c \in Names, Apart(c), DoneOf(c)'
    PROVE  AllDone'
  <1> SUFFICES ASSUME NEW d \in Names, d # c PROVE DoneOf(d)' BY DEF AllDone
  <1>0. DoneOf(d) BY DEF AllDone
  <1>1. Waiting(d) => Waiting(d)' BY DEF Waiting, Apart
  <1>2. /\ held'[d] = held[d] /\ pc'[d] = pc[d] /\ task'[d] = task[d]
        /\ applied'[d] = applied[d] /\ desired'[d] = desired[d]
    BY DEF Apart
  <1> QED BY <1>0, <1>1, <1>2, DoneFrame

LEMMA LockDone ==
    ASSUME Parameters, Inv, AllDone, NEW c \in Names, Lock(c)
    PROVE  AllDone'
  <1>0. Shapes /\ TaskOf(c) BY DEF Inv
  <1>1. /\ pc[c] = "lock" /\ pc' = [pc EXCEPT ![c] = "members"]
        /\ UNCHANGED <<held, applied, attempt, asked, serving, restarts, boot>>
    BY DEF Lock, world
  <1>2. /\ DOMAIN task' = Names /\ DOMAIN task'[c] = Fields
        /\ \A d \in Names : d # c => task'[d] = task[d]
        /\ task'[c].list = task[c].list /\ task'[c].accepted = Desired(c)
    BY <1>0 DEF Lock, Shapes, Fields
  <1>3. DOMAIN desired' = Names /\ \A d \in Names : d # c => desired'[d] = desired[d] BY <1>0 DEF Lock, Shapes
  <1>4. pc'[c] = "members" /\ \A d \in Names : d # c => pc'[d] = pc[d] BY <1>0, <1>1 DEF Shapes
  <1>5. Apart(c) BY <1>0, <1>1, <1>2, <1>3, <1>4 DEF Apart, Shapes
  <1>6. \A m \in Accepted(task[c].list) \ Desired(c) : Others(c)
    <2> TAKE m \in Accepted(task[c].list) \ Desired(c)
    <2>1. task[c].candidates = Accepted(task[c].list) /\ m \in Members BY <1>0, <1>1 DEF TaskOf, Accepted, Listed
    <2>2. owner[m] \notin {NoOwner, c} BY <2>1 DEF Desired, Clashes
    <2>3. owner[m] \in Names BY <2>1, <2>2 DEF Inv, MemberOK
    <2> QED BY <2>2, <2>3 DEF Others
  <1>7. held[c].state # "expired" BY DEF AllDone, DoneOf
  <1>8. DoneOf(c)' BY <1>1, <1>2, <1>4, <1>6, <1>7 DEF DoneOf, Others
  <1> QED BY <1>5, <1>8, ApartDone

\* The members, one after the other.
LEMMA TouchDone ==
    ASSUME Inv, AllDone, NEW c \in Names, pc[c] = "members", NEW m \in Members, Touch(c, m),
           task'[c].accepted = task[c].accepted
    PROVE  AllDone'
  <1>0. Shapes BY DEF Inv
  <1>1. Apart(c) BY <1>0 DEF Apart, Touch, Shapes
  <1>2. DoneOf(c) BY DEF AllDone
  <1>3. pc' = pc /\ held' = held /\ task'[c].list = task[c].list BY DEF Touch
  <1>4. DoneOf(c)' BY <1>2, <1>3 DEF DoneOf, Others
  <1> QED BY <1>1, <1>4, ApartDone

LEMMA PassDone ==
    ASSUME Inv, AllDone, NEW c \in Names, NEW q \in {"cooldowns", "unlock"},
           pc[c] \in {"members", "cooldowns"}, pc' = [pc EXCEPT ![c] = q],
           UNCHANGED <<held, task, owner, desired, applied, plan, attempt, asked, serving, restarts, boot>>
    PROVE  AllDone'
  <1>0. Shapes BY DEF Inv
  <1>1. pc'[c] = q /\ \A d \in Names : d # c => pc'[d] = pc[d] BY <1>0 DEF Shapes
  <1>2. Apart(c) BY <1>0, <1>1 DEF Apart, Shapes
  <1>3. DoneOf(c) BY DEF AllDone
  <1>4. DoneOf(c)' BY <1>1, <1>3 DEF DoneOf, Others, Inside
  <1> QED BY <1>2, <1>4, ApartDone

LEMMA UnlockDone ==
    ASSUME Inv, AllDone, NEW c \in Names, Unlock(c)
    PROVE  AllDone'
  <1>0. Shapes /\ TaskOf(c) /\ AimOf(c) BY DEF Inv
  <1>1. /\ pc[c] = "unlock" /\ pc' = [pc EXCEPT ![c] = "send"]
        /\ applied' = [applied EXCEPT ![c] = task[c].accepted]
        /\ UNCHANGED <<held, task, owner, desired, plan, attempt, asked, serving, restarts, boot>>
    BY DEF Unlock, world
  <1>3. /\ pc'[c] = "send" /\ applied'[c] = task[c].accepted
        /\ \A d \in Names : d # c => pc'[d] = pc[d] /\ applied'[d] = applied[d]
    BY <1>0, <1>1 DEF Shapes
  <1>4. Apart(c) BY <1>0, <1>1, <1>3 DEF Apart, Shapes
  <1>5. DoneOf(c) BY DEF AllDone
  <1>6. task[c].list = Parsed(held[c].list) BY <1>0, <1>1 DEF TaskOf, Inside
  <1>7. Done(c)'
    <2>1. \A m \in Members : m \in task[c].accepted => desired[c][m] = Parsed(held[c].list)[m]
      BY <1>0, <1>1, <1>6 DEF AimOf, Inside
    <2>2. \A m \in Accepted(Parsed(held[c].list)) \ task[c].accepted : Others(c)
      BY <1>1, <1>5, <1>6 DEF DoneOf, Inside
    <2> QED BY <1>1, <1>3, <2>1, <2>2 DEF Done, Others
  <1>8. DoneOf(c)' BY <1>1, <1>3, <1>5, <1>7 DEF DoneOf, Inside
  <1> QED BY <1>4, <1>8, ApartDone

LEMMA AsideDone ==
    ASSUME AllDone, Aside, serving' = serving
    PROVE  AllDone'
  <1> SUFFICES ASSUME NEW d \in Names PROVE DoneOf(d)' BY DEF AllDone
  <1>0. DoneOf(d) BY DEF AllDone
  <1>1. Waiting(d) => Waiting(d)' BY DEF Waiting, Aside
  <1> QED BY <1>0, <1>1, DoneFrame DEF Aside

LEMMA OpenDone ==
    ASSUME AllDone, Aside, Open
    PROVE  AllDone'
  <1> SUFFICES ASSUME NEW d \in Names PROVE DoneOf(d)' BY DEF AllDone
  <1>0. DoneOf(d) BY DEF AllDone
  <1>1. boot = << >> BY DEF Open
  <1>2. ~Waiting(d) BY <1>1 DEF Waiting
  <1> QED BY <1>0, <1>2, DoneFrame DEF Aside

LEMMA BootDone ==
    ASSUME Inv, AllDone, NEW c \in Names, c = Head(boot), boot # << >>, boot' = Tail(boot),
           Quiet(c), pc[c] = "idle", held' = held,
           IF Skips(c) THEN pc' = pc ELSE pc'[c] = "filter"
    PROVE  AllDone'
  <1> SUFFICES ASSUME NEW d \in Names PROVE DoneOf(d)' BY DEF AllDone
  <1>0. DoneOf(d) /\ boot \in Seq(Names) BY DEF AllDone, Inv, Shapes
  <1>1. CASE d # c
    <2>1. held'[d] = held[d] /\ pc'[d] = pc[d] /\ task'[d] = task[d] /\ applied'[d] = applied[d]
          /\ desired'[d] = desired[d] /\ serving' = serving
      BY <1>1 DEF Quiet
    <2>2. Waiting(d) => Waiting(d)'
      <3> SUFFICES ASSUME ~serving, NEW i \in DOMAIN boot, boot[i] = d PROVE Waiting(d)' BY DEF Waiting
      <3>1. i \in 1 .. Len(boot) /\ Len(boot) \in Nat BY <1>0
      <3>2. boot[1] = c BY <1>0
      <3>3. i # 1 BY <1>1, <3>2
      <3>4. i - 1 \in 1 .. (Len(boot) - 1) BY <3>1, <3>3
      <3>5. i - 1 \in DOMAIN Tail(boot) /\ Tail(boot)[i - 1] = boot[i] BY <1>0, <3>1, <3>4
      <3> QED BY <2>1, <3>5 DEF Waiting
    <2> QED BY <1>0, <2>1, <2>2, DoneFrame
  <1>2. CASE d = c
    <2>1. held'[c].state # "expired" BY <1>0, <1>2 DEF DoneOf
    <2>2. CASE Skips(c) BY <1>2, <2>1, <2>2 DEF DoneOf, Skips, Inside
    <2>3. CASE ~Skips(c) BY <1>2, <2>1, <2>3 DEF DoneOf, Inside
    <2> QED BY <2>2, <2>3
  <1> QED BY <1>1, <1>2

LEMMA StepDone ==
    ASSUME Parameters, ~BindingFails, ~Expires, Inv, AllDone, [Next]_vars
    PROVE  AllDone'
  <1>0. \A c \in Names : held[c].state # "expired" BY DEF AllDone, DoneOf
  <1>s. Shapes BY DEF Inv
  <1>1. ASSUME NEW c \in Names, NEW l \in Listings, Transfer(c, l) PROVE AllDone'
    <2>1. Quiet(c) BY <1>1, TransferKeeps
    <2>2. held' = held /\ boot' = boot /\ pc'[c] = "prepare" BY <1>1, <1>s DEF Transfer, Shapes
    <2> QED BY <1>0, <2>1, <2>2, QuietDone
  <1>2. ASSUME NEW c \in Names, Prepare(c) PROVE AllDone'
    <2>1. Quiet(c) BY <1>2, PrepareKeeps
    <2>2. held' = held /\ boot' = boot /\ pc'[c] # "send" BY <1>2, <1>s DEF Prepare, Shapes
    <2> QED BY <1>0, <2>1, <2>2, QuietDone
  <1>3. ASSUME NEW c \in Names, Abort(c) PROVE AllDone'
    <2>1. Quiet(c) BY <1>3, AbortKeeps
    <2>2. held' = held /\ boot' = boot /\ pc'[c] # "send" BY <1>3, <1>s DEF Abort, Shapes
    <2> QED BY <1>0, <2>1, <2>2, QuietDone
  <1>4. ASSUME NEW c \in Names, Publish(c) PROVE AllDone'
    <2>1. Quiet(c) BY <1>4, PublishKeeps
    <2>2. held'[c].state = "active" /\ boot' = boot /\ pc'[c] = "filter" BY <1>4, <1>s DEF Publish, Shapes
    <2> QED BY <2>1, <2>2, QuietDone DEF Calm
  <1>5. ASSUME NEW c \in Names, Filter(c) PROVE AllDone'
    <2>1. Quiet(c) BY <1>5, FilterKeeps
    <2>2. held' = held /\ boot' = boot /\ pc'[c] = "lock" BY <1>5, <1>s DEF Filter, world, Shapes
    <2> QED BY <1>0, <2>1, <2>2, QuietDone
  <1>6. ASSUME NEW c \in Names, Send(c) PROVE AllDone'
    <2>1. Quiet(c) BY <1>6, SendKeeps
    <2>2. held' = held /\ boot' = boot /\ pc[c] = "send" BY <1>6 DEF Send, world
    <2> QED BY <1>0, <2>1, <2>2, QuietDone
  <1>7. ASSUME NEW c \in Names PROVE ~Confirm(c) /\ ~Expire(c) /\ ~BindingUnavailable(c)
    BY <1>0 DEF Confirm, Expire, BindingUnavailable
  <1>8. ASSUME NEW c \in Names, RemoveMember(c) PROVE AllDone'
    <2>1. PICK m \in Members : Removing(c, m) BY <1>8, RemoveEffects
    <2>2. pc[c] = "members" /\ Touch(c, m) /\ task'[c].accepted = task[c].accepted BY <2>1 DEF Removing, Upcoming
    <2> QED BY <2>2, TouchDone
  <1>9. ASSUME NEW c \in Names, KeepMember(c) PROVE AllDone'
    <2>1. PICK m \in Members : \E new : \E renamed, retained, same, restored \in BOOLEAN :
               Keeping(c, m, new, renamed, retained, same, restored)
      BY <1>9, KeepEffects
    <2>2. pc[c] = "members" /\ Touch(c, m) /\ task'[c].accepted = task[c].accepted BY <2>1 DEF Keeping, Upcoming
    <2> QED BY <2>2, TouchDone
  <1>10. ASSUME NEW c \in Names, UpdateDirectory(c) PROVE AllDone'
    <2>1. /\ pc[c] = "members" /\ pc' = [pc EXCEPT ![c] = "cooldowns"]
          /\ UNCHANGED <<held, task, owner, desired, applied, plan, attempt, asked, serving, restarts, boot>>
      BY <1>10 DEF UpdateDirectory, world
    <2> QED BY <2>1, PassDone
  <1>11. ASSUME NEW c \in Names, ReconcileCooldowns(c) PROVE AllDone'
    <2>1. /\ pc[c] = "cooldowns" /\ pc' = [pc EXCEPT ![c] = "unlock"]
          /\ UNCHANGED <<held, task, owner, desired, applied, plan, attempt, asked, serving, restarts, boot>>
      BY <1>11 DEF ReconcileCooldowns, world
    <2> QED BY <2>1, PassDone
  <1>12. ASSUME NEW c \in Names, ApplyStep(c) PROVE AllDone'
    BY <1>5, <1>6, <1>7, <1>8, <1>9, <1>10, <1>11, <1>12, LockDone, UnlockDone DEF ApplyStep
  <1>13. ASSUME NEW m \in Members, Start(m) \/ Unsupported(m) \/ Finish(m) PROVE AllDone'
    <2>1. Aside BY <1>13, StartKeeps, UnsupportedKeeps, FinishKeeps
    <2>2. serving' = serving BY <1>13 DEF Start, Unsupported, Finish
    <2> QED BY <2>1, <2>2, AsideDone
  <1>14. CASE Prune
    <2>1. Aside BY <1>14, PruneKeeps
    <2>2. serving' = serving BY <1>14 DEF Prune
    <2> QED BY <2>1, <2>2, AsideDone
  <1>15. CASE Restart
    <2>1. Empty' /\ \A c \in Names : held'[c].state = "expired" => (held[c].state = "expired" \/ Expires)
      BY <1>15, RestartIsEmpty
    <2>2. boot' = Catalogs /\ serving' = FALSE BY <1>15 DEF Restart
    <2> SUFFICES ASSUME NEW c \in Names PROVE DoneOf(c)' BY DEF AllDone
    <2>3. pc'[c] = "idle" /\ held'[c].state # "expired" BY <1>0, <2>1 DEF Empty
    <2>4. Waiting(c)'
      <3>1. \E i \in DOMAIN Catalogs : Catalogs[i] = c BY DEF Names
      <3> QED BY <2>2, <3>1 DEF Waiting
    <2> QED BY <2>3, <2>4 DEF DoneOf, Inside
  <1>16. CASE BootNext BY <1>16, BootNextKeeps, BootDone
  <1>17. CASE Open
    <2>1. Aside BY <1>17, OpenKeeps
    <2> QED BY <1>17, <2>1, OpenDone
  <1>18. CASE UNCHANGED vars
    <2>1. Aside /\ serving' = serving BY <1>18 DEF vars, Aside
    <2> QED BY <2>1, AsideDone
  <1> QED BY <1>1, <1>2, <1>3, <1>4, <1>7, <1>12, <1>13, <1>14, <1>15, <1>16, <1>17, <1>18 DEF Next

\* Two catalogs are more than one.
LEMMA OthersCount ==
    ASSUME Parameters, NEW c \in Names, Others(c)
    PROVE  Cardinality(Names) > 1
  <1>1. PICK d \in Names : d # c BY DEF Others
  <1> DEFINE I == DOMAIN Catalogs
             f == [i \in I |-> Catalogs[i]]
             P == {c} \cup {d}
  <1>2. Catalogs \in Seq(Names) BY DEF Parameters
  <1>3. I = 1 .. Len(Catalogs) /\ Len(Catalogs) \in Nat BY <1>2
  <1>4. IsFiniteSet(I)
    <2>1. 1 \in Int /\ Len(Catalogs) \in Int BY <1>3
    <2>2. IsFiniteSet(1 .. Len(Catalogs)) BY <2>1, FS_Interval
    <2> QED BY <1>3, <2>2
  <1>5. f \in Surjection(I, Names)
    <2>1. f \in [I -> Names] BY DEF Names
    <2>2. \A t \in Names : \E s \in I : f[s] = t BY DEF Names
    <2> HIDE DEF f, I
    <2> QED BY <2>1, <2>2 DEF Surjection
  <1> HIDE DEF f, I
  <1>6. IsFiniteSet(Names) BY <1>4, <1>5, FS_Surjection
  <1>7. IsFiniteSet({c}) /\ Cardinality({c}) = 1 BY FS_Singleton
  <1>8. Cardinality(P) = 2 BY <1>1, <1>7, FS_AddElement
  <1>9. P \in SUBSET Names BY <1>1
  <1> HIDE DEF P
  <1>10. Cardinality(P) <= Cardinality(Names) BY <1>6, <1>9, FS_Subset
  <1>11. Cardinality(Names) \in Nat BY <1>6, FS_CardinalityType
  <1> QED BY <1>8, <1>10, <1>11

(* A catalog that is ACTIVE and at rest has been applied as it stands: its *)
(* members are owned, planned, known to NOTIFY and in the directory, as    *)
(* its version says, and nothing else is; only a name that another catalog *)
(* had is missing.                                                         *)
THEOREM AlwaysAppliedAsHeld ==
    ASSUME Parameters, ~BindingFails, ~Expires
    PROVE  Spec => []AppliedAsHeld
  <1>1. Init => AllDone
    <2> SUFFICES ASSUME Init, NEW c \in Names PROVE DoneOf(c) BY DEF AllDone
    <2>1. pc[c] = "idle" /\ held[c].state = "none" BY DEF Init
    <2> QED BY <2>1 DEF DoneOf, Inside
  <1>2. Inv /\ AllDone /\ [Next]_vars => AllDone' BY StepDone
  <1>3. Inv /\ Strict /\ AllDone => AppliedAsHeld
    <2> SUFFICES ASSUME Inv, Strict, AllDone, NEW c \in Names, serving, lock = NoOwner, pc[c] = "idle",
                        held[c].state = "active"
                 PROVE  LET l == Parsed(held[c].list)
                        IN  /\ applied[c] \subseteq Accepted(l)
                            /\ \A m \in Members : owner[m] = c <=> m \in applied[c]
                            /\ \A m \in Accepted(l) \ applied[c] :
                                  desired[c][m].node = 0 /\ Cardinality(Names) > 1
                            /\ \A m \in applied[c] :
                                  /\ plan[m].catalog = c /\ plan[m].node = l[m].node
                                  /\ notify[m] = plan[m].policy
                                  /\ l[m].ext # "malformed" => plan[m].policy = PolicyOf(l[m])
                                  /\ dir[m] # "absent"
        BY DEF AppliedAsHeld, Settled
    <2> DEFINE l == Parsed(held[c].list)
    <2>0. TaskOf(c) /\ AimOf(c) /\ OwnsOf(c) /\ Exact(c) /\ Faithful(c) /\ DoneOf(c)
      BY DEF Inv, Strict, AllDone
    <2>1. Done(c) BY <2>0 DEF DoneOf, Waiting
    <2>2. applied[c] \subseteq Accepted(l) /\ applied[c] \subseteq Members BY <2>0 DEF AimOf
    <2>3. \A m \in Members : owner[m] = c <=> m \in applied[c] BY <2>0 DEF Exact, OwnsOf, Inside
    <2>4. applied[c] = Listed(desired[c]) /\ \A m \in applied[c] : Follows(m, desired[c][m])
      BY <2>0 DEF Faithful, Inside
    <2>5. \A m \in Accepted(l) \ applied[c] : desired[c][m].node = 0 /\ Cardinality(Names) > 1
      <3> TAKE m \in Accepted(l) \ applied[c]
      <3>1. m \in Members BY DEF Accepted, Listed
      <3>2. Others(c) BY <2>1, <3>1 DEF Done
      <3>3. Cardinality(Names) > 1 BY <3>2, OthersCount
      <3>4. desired[c][m].node = 0 BY <2>4, <3>1 DEF Listed
      <3> QED BY <3>3, <3>4
    <2>6. \A m \in applied[c] : /\ plan[m].catalog = c /\ plan[m].node = l[m].node
                                /\ notify[m] = plan[m].policy
                                /\ l[m].ext # "malformed" => plan[m].policy = PolicyOf(l[m])
                                /\ dir[m] # "absent"
      <3> TAKE m \in applied[c]
      <3>1. m \in Members /\ owner[m] = c BY <2>2, <2>3
      <3>2. c # NoOwner BY DEF Parameters
      <3>3. plan[m] # NoPlan BY <3>1, <3>2 DEF Strict
      <3>4. MemberOK(m) BY <3>1 DEF Inv
      <3>5. desired[c][m] = l[m] BY <2>1, <3>1 DEF Done
      <3>6. View(m) = dir[m] BY DEF View, InMembers
      <3> QED BY <2>4, <3>1, <3>3, <3>4, <3>5, <3>6 DEF MemberOK, Follows
    <2> QED BY <2>2, <2>3, <2>5, <2>6
  <1> QED BY <1>1, <1>2, <1>3, StrictInvariant, PTL DEF Spec

-----------------------------------------------------------------------------
(* Until the first restart.                                                *)

\* The catalog whose instance was applied, through every step but a restart.
LEMMA StepOwning ==
    ASSUME Parameters, Inv, Owning, [Next]_vars
    PROVE  Owning'
  <1>s. Shapes BY DEF Inv
  <1>0. ASSUME restarts' = restarts, owner' = owner, keeper' = keeper PROVE Owning'
    BY <1>0 DEF Owning
  <1>q. ASSUME NEW c \in Names, Quiet(c) PROVE Owning' BY <1>0, <1>q DEF Quiet
  <1>a. ASSUME Aside PROVE Owning' BY <1>0, <1>a DEF Aside
  <1>1. ASSUME NEW c \in Names, NEW l \in Listings, Transfer(c, l) PROVE Owning'
    BY <1>1, <1>q, TransferKeeps
  <1>2. ASSUME NEW c \in Names, Confirm(c) \/ Expire(c) \/ Prepare(c) \/ Abort(c) \/ Publish(c)
                                \/ Filter(c) \/ Send(c)
        PROVE  Owning'
    BY <1>2, <1>q, ConfirmKeeps, ExpireKeeps, PrepareKeeps, AbortKeeps, PublishKeeps, FilterKeeps, SendKeeps
  <1>3. ASSUME NEW c \in Names, Lock(c) \/ UpdateDirectory(c) \/ ReconcileCooldowns(c) \/ Unlock(c)
        PROVE  Owning'
    BY <1>0, <1>3 DEF Lock, UpdateDirectory, ReconcileCooldowns, Unlock, world
  <1>4. ASSUME NEW c \in Names, RemoveMember(c) PROVE Owning'
    <2>1. PICK m \in Members : Removing(c, m) BY <1>4, RemoveEffects
    <2>2. owner[m] \in {NoOwner, c} BY <2>1 DEF Removing, Upcoming
    <2>3. owner'[m] = NoOwner /\ keeper'[m] = IF keeper[m] = c THEN NoOwner ELSE keeper[m] BY <2>1 DEF Removing
    <2>4. restarts' = restarts /\ \A n \in Members : n # m => owner'[n] = owner[n] /\ keeper'[n] = keeper[n]
      BY <2>1 DEF Removing, Touch
    <2> QED BY <2>2, <2>3, <2>4 DEF Owning
  <1>5. ASSUME NEW c \in Names, KeepMember(c) PROVE Owning'
    <2>1. PICK m \in Members : \E new : \E renamed, retained, same, restored \in BOOLEAN :
               Keeping(c, m, new, renamed, retained, same, restored)
      BY <1>5, KeepEffects
    <2>2. owner[m] \in {NoOwner, c} BY <2>1 DEF Keeping, Upcoming
    <2>a. PICK new : \E renamed, retained, same, restored \in BOOLEAN :
               Keeping(c, m, new, renamed, retained, same, restored)
      BY <2>1
    <2>b. PICK renamed \in BOOLEAN, retained \in BOOLEAN, same \in BOOLEAN, restored \in BOOLEAN :
               Keeping(c, m, new, renamed, retained, same, restored)
      BY <2>a
    <2>3. /\ DOMAIN new = PlanFields /\ new # NoPlan /\ new.catalog = c /\ owner'[m] = c
          /\ notify'[m] = new.policy /\ new.gen \in 1 .. gens'
      BY <2>b, KeptPlan
    <2>4. keeper'[m] = IF keeper[m] = NoOwner THEN c ELSE keeper[m] BY <2>1 DEF Keeping
    <2>5. restarts' = restarts /\ \A n \in Members : n # m => owner'[n] = owner[n] /\ keeper'[n] = keeper[n]
      BY <2>1 DEF Keeping, Touch
    <2> QED BY <2>2, <2>3, <2>4, <2>5 DEF Owning
  <1>6. ASSUME NEW c \in Names, BindingUnavailable(c) PROVE Owning'
    BY <1>0, <1>6 DEF BindingUnavailable
  <1>7. ASSUME NEW m \in Members, Start(m) \/ Unsupported(m) \/ Finish(m) PROVE Owning'
    BY <1>7, <1>a, StartKeeps, UnsupportedKeeps, FinishKeeps
  <1>8. CASE Prune BY <1>8, <1>a, PruneKeeps
  <1>9. CASE Restart
    <2>1. restarts' = restarts + 1 /\ restarts \in Nat BY <1>9 DEF Restart, Owning
    <2>2. restarts' \in Nat /\ restarts' # 0 BY <2>1
    <2> QED BY <2>2 DEF Owning
  <1>10. CASE BootNext BY <1>10, <1>q, BootNextKeeps
  <1>11. CASE Open BY <1>11, <1>a, OpenKeeps
  <1>12. CASE UNCHANGED vars BY <1>0, <1>12 DEF vars
  <1>13. ASSUME NEW c \in Names, ApplyStep(c) PROVE Owning'
    BY <1>2, <1>3, <1>4, <1>5, <1>6, <1>13 DEF ApplyStep
  <1> QED BY <1>1, <1>2, <1>7, <1>8, <1>9, <1>10, <1>11, <1>12, <1>13 DEF Next

(* While the server runs, the instance of a member that was applied keeps  *)
(* its owner until the owner's catalog drops it, whatever fails.           *)
THEOREM OwnerAlwaysKeeps ==
    ASSUME Parameters
    PROVE  Spec => [](restarts = 0 => OwnerKeeps)
  <1>1. Init => Owning BY DEF Init, Owning
  <1>2. Inv /\ Owning /\ [Next]_vars => Owning' BY StepOwning
  <1>3. Owning => (restarts = 0 => OwnerKeeps) BY DEF Owning, OwnerKeeps
  <1> QED BY <1>1, <1>2, <1>3, Invariant, PTL DEF Spec

\* A catalog whose members are left alone.
LEMMA LastingFrame ==
    ASSUME NEW d, Lasting(d), pc'[d] = pc[d], pc[d] # "members", task'[d] = task[d],
           \A m \in Members : owner'[m] = d => owner[m] = d /\ plan'[m] = plan[m]
    PROVE  Lasting(d)'
  <1> SUFFICES ASSUME pc'[d] \in {"publish", "filter", "lock"}, NEW m \in Members, owner'[m] = d, Lives(m)'
               PROVE  KeepsOn(d, m, Ahead(d))'
      BY DEF Lasting
  <1>1. owner[m] = d /\ plan'[m] = plan[m] OBVIOUS
  <1>2. Lives(m) BY <1>1 DEF Lives
  <1>3. KeepsOn(d, m, Ahead(d)) BY <1>1, <1>2 DEF Lasting
  <1>4. Ahead(d)' = Ahead(d) BY DEF Ahead
  <1>5. PICK l : l = Ahead(d) OBVIOUS
  <1>6. KeepsOn(d, m, l)' BY <1>1, <1>3, <1>5 DEF KeepsOn, Candidate, Retains
  <1>7. KeepsOn(d, m, Ahead(d))' <=> KeepsOn(d, m, l)' BY <1>4, <1>5 DEF KeepsOn, Candidate, Retains
  <1> QED BY <1>6, <1>7

\* The same with the lock, where nothing of its own changes.
LEMMA LastingSame ==
    ASSUME NEW d, Lasting(d), pc'[d] = pc[d], task'[d] = task[d], owner' = owner, plan' = plan
    PROVE  Lasting(d)'
  BY DEF Lasting, Ahead, KeepsOn, Candidate, Retains, Lives

LEMMA CachedFrame ==
    ASSUME Cached, saved' \subseteq saved, \A i \in saved' : plan'[i.member] = plan[i.member]
    PROVE  Cached'
  BY DEF Cached, Lives

\* A step of a catalog without the lock, a revocation apart.
LEMMA QuietFirst ==
    ASSUME FirstRun, NEW c \in Names, Quiet(c), plan' = plan, saved' = saved, boot' = boot,
           restarts = 0 => Lasting(c)'
    PROVE  FirstRun'
  <1>1. restarts' = restarts BY DEF Quiet
  <1>2. ASSUME restarts = 0, NEW d \in Names, d # c PROVE Lasting(d)'
    <2>1. pc'[d] = pc[d] /\ task'[d] = task[d] /\ owner' = owner BY <1>2 DEF Quiet
    <2>2. Lasting(d) BY <1>2 DEF FirstRun
    <2> QED BY <2>1, <2>2, LastingSame
  <1>3. restarts = 0 => Cached' BY CachedFrame DEF FirstRun
  <1> QED BY <1>1, <1>2, <1>3 DEF FirstRun

\* A step with the lock.
LEMMA ApartFirst ==
    ASSUME Parameters, Inv, FirstRun, NEW c \in Names, Apart(c), lock \in {NoOwner, c},
           \A m \in Members : owner'[m] # owner[m] => owner[m] \in {NoOwner, c} /\ owner'[m] \in {NoOwner, c},
           \A m \in Members : plan'[m] # plan[m] => owner[m] \in {NoOwner, c},
           restarts = 0 => Lasting(c)' /\ Cached'
    PROVE  FirstRun'
  <1>1. restarts' = restarts /\ boot' = boot BY DEF Apart
  <1>2. ASSUME restarts = 0, NEW d \in Names, d # c PROVE Lasting(d)'
    <2>1. \A m \in Members : owner'[m] # owner[m] => owner[m] \in {NoOwner, c} OBVIOUS
    <2>2. pc[d] \notin Inside BY <1>2, <2>1, ApartKeeps
    <2>3. pc'[d] = pc[d] /\ task'[d] = task[d] /\ pc[d] # "members" BY <1>2, <2>2 DEF Apart, Inside
    <2>4. Lasting(d) BY <1>2 DEF FirstRun
    <2>5. d # NoOwner BY DEF Parameters
    <2>6. \A m \in Members : owner'[m] = d => owner[m] = d /\ plan'[m] = plan[m] BY <1>2, <2>5
    <2> QED BY <2>3, <2>4, <2>6, LastingFrame
  <1> QED BY <1>1, <1>2 DEF FirstRun

\* The revocation before the publication: what stays live is kept.
LEMMA PrepareFirst ==
    ASSUME Parameters, ~BindingFails, Inv, Strict, FirstRun, NEW c \in Names, Prepare(c)
    PROVE  FirstRun'
  <1>0. Shapes /\ TaskOf(c) /\ Locking BY DEF Inv
  <1>1. /\ pc[c] = "prepare" /\ lock = NoOwner
        /\ saved' = saved \ {Identity(m, plan[m]) : m \in Revoked(c)}
        /\ plan' = [m \in Members |-> IF m \in Revoked(c) THEN [plan[m] EXCEPT !.live = FALSE] ELSE plan[m]]
        /\ pc' = [pc EXCEPT ![c] = "publish"] /\ task' = task
        /\ UNCHANGED <<owner, desired, restarts, boot>>
    BY DEF Prepare
  <1>2. pc'[c] = "publish" /\ \A d \in Names : d # c => pc'[d] = pc[d] BY <1>0, <1>1 DEF Shapes
  <1>3. \A m \in Members : m \notin Revoked(c) => plan'[m] = plan[m] BY <1>1
  <1>4. \A m \in Revoked(c) : m \in Members /\ owner[m] = c BY DEF Revoked
  <1>5. \A m \in Revoked(c) : plan'[m].live = FALSE
    <2> TAKE m \in Revoked(c)
    <2>1. m \in Members BY <1>4
    <2>2. DOMAIN plan[m] = PlanFields BY <2>1 DEF Inv, MemberOK
    <2>3. plan'[m] = [plan[m] EXCEPT !.live = FALSE] BY <1>1, <2>1
    <2> QED BY <2>2, <2>3 DEF PlanFields
  <1>6. ASSUME restarts = 0 PROVE Cached'
    <2>1. Cached BY <1>6 DEF FirstRun
    <2>2. \A i \in saved' : plan'[i.member] = plan[i.member]
      <3> TAKE i \in saved'
      <3>1. i.member \in Members /\ i = Identity(i.member, plan[i.member]) BY <1>1, <2>1 DEF Cached
      <3>2. i.member \notin Revoked(c) BY <1>1, <3>1
      <3> QED BY <1>3, <3>1, <3>2
    <2> QED BY <1>1, <2>1, <2>2, CachedFrame
  <1>7. ASSUME restarts = 0, NEW d \in Names, d # c PROVE Lasting(d)'
    <2>1. Lasting(d) BY <1>7 DEF FirstRun
    <2>2. pc[d] # "members"
      <3>1. d # NoOwner BY DEF Parameters
      <3> QED BY <1>0, <1>1, <3>1 DEF Locking, Inside
    <2>3. \A m \in Members : owner'[m] = d => owner[m] = d /\ plan'[m] = plan[m] BY <1>1, <1>3, <1>4, <1>7
    <2> QED BY <1>1, <1>2, <1>7, <2>1, <2>2, <2>3, LastingFrame
  <1>8. Lasting(c)'
    <2> SUFFICES ASSUME NEW m \in Members, owner'[m] = c, Lives(m)' PROVE KeepsOn(c, m, Ahead(c))'
        BY <1>2 DEF Lasting
    <2>1. m \notin Revoked(c) BY <1>5 DEF Lives
    <2>2. plan'[m] = plan[m] /\ owner[m] = c BY <1>1, <1>3, <2>1
    <2>3. plan[m] # NoPlan BY <2>2 DEF Lives
    <2>4. desired[c][m].node # 0
      <3>1. Exact(c) /\ Faithful(c) BY DEF Strict
      <3>2. m \in Listed(desired[c]) BY <1>1, <2>2, <3>1 DEF Exact, Faithful, Inside
      <3> QED BY <3>2 DEF Listed
    <2>5. PICK l : l = Parsed(task[c].list) OBVIOUS
    <2>6. m \in Accepted(l) /\ Candidate(c, m, l[m]) = Identity(m, plan[m])
      BY <2>1, <2>2, <2>3, <2>4, <2>5 DEF Revoked
    <2>7. Ahead(c)' = l BY <1>1, <1>2, <2>5 DEF Ahead
    <2>8. KeepsOn(c, m, l)' BY <2>2, <2>6 DEF KeepsOn, Candidate, Retains
    <2> QED BY <2>7, <2>8 DEF KeepsOn, Candidate, Retains
  <1> QED BY <1>1, <1>6, <1>7, <1>8 DEF FirstRun

LEMMA LockFirst ==
    ASSUME Parameters, Inv, FirstRun, NEW c \in Names, Lock(c)
    PROVE  FirstRun'
  <1>0. Shapes /\ TaskOf(c) /\ AimOf(c) /\ OwnsOf(c) BY DEF Inv
  <1>1. /\ pc[c] = "lock" /\ lock = NoOwner /\ pc' = [pc EXCEPT ![c] = "members"]
        /\ UNCHANGED <<held, owner, applied, plan, attempt, asked, serving, restarts, boot, saved>>
    BY DEF Lock, world
  <1>2. /\ DOMAIN task' = Names /\ DOMAIN task'[c] = Fields
        /\ \A d \in Names : d # c => task'[d] = task[d]
        /\ task'[c].list = task[c].list /\ task'[c].todo = applied[c] \cup Desired(c)
    BY <1>0 DEF Lock, Shapes, Fields
  <1>3. DOMAIN desired' = Names /\ \A d \in Names : d # c => desired'[d] = desired[d] BY <1>0 DEF Lock, Shapes
  <1>4. pc'[c] = "members" /\ \A d \in Names : d # c => pc'[d] = pc[d] BY <1>0, <1>1 DEF Shapes
  <1>5. Apart(c) BY <1>0, <1>1, <1>2, <1>3, <1>4 DEF Apart, Shapes
  <1>6. ASSUME restarts = 0 PROVE Lasting(c)' /\ Cached'
    <2>1. Lasting(c) /\ Cached BY <1>6 DEF FirstRun
    <2>2. Cached' BY <1>1, <2>1, CachedFrame
    <2>3. ASSUME NEW m \in task'[c].todo, Lives(m)' PROVE KeepsOn(c, m, task[c].list)'
      <3>1. m \in Members
        <4>1. task[c].candidates = Accepted(task[c].list) BY <1>0, <1>1 DEF TaskOf
        <4>2. Desired(c) \subseteq Members BY <4>1 DEF Desired, Accepted, Listed
        <4> QED BY <1>0, <1>2, <2>3, <4>2 DEF AimOf
      <3>2. Lives(m) BY <1>1, <2>3 DEF Lives
      <3>3. owner[m] = c
        <4>1. m \in applied[c] => owner[m] = c BY <1>0, <1>1 DEF OwnsOf, Inside
        <4>2. m \in Desired(c) => owner[m] \in {NoOwner, c} BY DEF Desired, Clashes
        <4>3. owner[m] \in Names BY <3>1, <3>2 DEF Inv, MemberOK, Lives
        <4>4. NoOwner \notin Names BY DEF Parameters
        <4> QED BY <1>2, <2>3, <4>1, <4>2, <4>3, <4>4
      <3>4. KeepsOn(c, m, Ahead(c)) BY <1>1, <2>1, <3>1, <3>2, <3>3 DEF Lasting
      <3>5. Ahead(c) = task[c].list BY <1>1 DEF Ahead
      <3> QED BY <1>1, <1>2, <3>4, <3>5 DEF KeepsOn, Candidate, Retains
    <2> QED BY <1>4, <2>2, <2>3 DEF Lasting
  <1> QED BY <1>1, <1>5, <1>6, ApartFirst

\* One member after the other.
LEMMA TouchFirst ==
    ASSUME Parameters, Inv, FirstRun, NEW c \in Names, pc[c] = "members", lock = c,
           NEW m \in Members, m \in task[c].todo, owner[m] \in {NoOwner, c},
           owner'[m] \in {NoOwner, c}, Touch(c, m),
           restarts = 0 => saved' \subseteq saved,
           restarts = 0 => \A i \in saved' : i.member = m => plan'[m] = plan[m]
    PROVE  FirstRun'
  <1>0. Shapes /\ AimOf(c) BY DEF Inv
  <1>1. Apart(c) BY <1>0 DEF Apart, Touch, Shapes
  <1>2. \A n \in Members : n # m => owner'[n] = owner[n] /\ plan'[n] = plan[n] BY DEF Touch
  <1>3. ASSUME restarts = 0 PROVE Lasting(c)' /\ Cached'
    <2>1. Lasting(c) /\ Cached BY <1>3 DEF FirstRun
    <2>2. \A i \in saved' : plan'[i.member] = plan[i.member]
      <3> TAKE i \in saved'
      <3>1. i.member \in Members BY <1>3, <2>1 DEF Cached
      <3> QED BY <1>2, <1>3, <3>1
    <2>3. Cached' BY <1>3, <2>1, <2>2, CachedFrame
    <2>4. ASSUME NEW n \in task'[c].todo, Lives(n)' PROVE KeepsOn(c, n, task[c].list)'
      <3>1. n # m /\ n \in task[c].todo /\ task'[c].list = task[c].list BY <2>4 DEF Touch
      <3>2. n \in Members /\ plan'[n] = plan[n] BY <1>0, <1>2, <3>1 DEF AimOf
      <3>3. Lives(n) BY <2>4, <3>2 DEF Lives
      <3>4. KeepsOn(c, n, task[c].list) BY <2>1, <3>1, <3>3 DEF Lasting
      <3> QED BY <3>1, <3>2, <3>4 DEF KeepsOn, Candidate, Retains
    <2>5. pc'[c] = "members" BY DEF Touch
    <2> QED BY <2>3, <2>4, <2>5 DEF Lasting
  <1> QED BY <1>1, <1>2, <1>3, ApartFirst

\* A cache is known by its member.
LEMMA IdentityIs ==
    ASSUME NEW m, NEW p
    PROVE  Identity(m, p).member = m
  BY DEF Identity

LEMMA RemoveFirst ==
    ASSUME Parameters, Inv, FirstRun, NEW c \in Names, RemoveMember(c)
    PROVE  FirstRun'
  <1>1. PICK m \in Members : Removing(c, m) BY RemoveEffects
  <1>2. /\ pc[c] = "members" /\ lock = c /\ m \in task[c].todo /\ owner[m] \in {NoOwner, c}
        /\ Touch(c, m) /\ owner'[m] = NoOwner
    BY <1>1 DEF Removing, Upcoming
  <1>3. saved' = IF plan[m] = NoPlan THEN saved ELSE saved \ {Identity(m, plan[m])} BY <1>1 DEF Removing
  <1>4. ASSUME restarts = 0, NEW i \in saved', i.member = m PROVE FALSE
    <2>1. i \in saved BY <1>3
    <2>2. Lives(m) /\ i = Identity(m, plan[m]) BY <1>4, <2>1 DEF FirstRun, Cached
    <2> QED BY <1>3, <2>2 DEF Lives
  <1> QED BY <1>2, <1>3, <1>4, TouchFirst

\* A member that is provisioned is not restored before a restart: where there is no plan there is no cache.
LEMMA KeepFirst ==
    ASSUME Parameters, Inv, Strict, FirstRun, NEW c \in Names, KeepMember(c)
    PROVE  FirstRun' /\ (restarts = 0 => Present' = Present)
  <1>1. PICK m \in Members : \E new : \E renamed, retained, same, restored \in BOOLEAN :
               Keeping(c, m, new, renamed, retained, same, restored)
    BY KeepEffects
  <1>2. PICK new : \E renamed, retained, same, restored \in BOOLEAN :
               Keeping(c, m, new, renamed, retained, same, restored)
    BY <1>1
  <1>3. PICK renamed \in BOOLEAN, retained \in BOOLEAN, same \in BOOLEAN, restored \in BOOLEAN :
               Keeping(c, m, new, renamed, retained, same, restored)
    BY <1>2
  <1>4. Upcoming(c, m) /\ Touch(c, m) /\ desired[c][m].node # 0 /\ plan'[m] = new BY <1>3 DEF Keeping
  <1>5. pc[c] = "members" /\ lock = c /\ m \in task[c].todo /\ owner[m] \in {NoOwner, c} /\ View(m) = dir[m]
    BY <1>4 DEF Upcoming
  <1>6. /\ DOMAIN new = PlanFields /\ new # NoPlan /\ new.catalog = c /\ owner'[m] = c
        /\ notify'[m] = new.policy /\ new.gen \in 1 .. gens'
    BY <1>3, KeptPlan
  <1>7. saved' \subseteq saved BY <1>3 DEF Keeping
  <1>8. ASSUME restarts = 0, NEW i \in saved', i.member = m PROVE plan'[m] = plan[m]
    <2>1. Lives(m) /\ i = Identity(m, plan[m]) BY <1>7, <1>8 DEF FirstRun, Cached
    <2>2. KeepsOn(c, m, task[c].list) BY <1>5, <1>8, <2>1 DEF FirstRun, Lasting
    <2>3. desired[c][m] = task[c].list[m]
      <3>1. AimOf(c) BY DEF Inv
      <3> QED BY <1>4, <1>5, <3>1, EntryFacts DEF AimOf, Inside
    <2>4. Candidate(c, m, desired[c][m]) = Identity(m, plan[m]) BY <2>2, <2>3 DEF KeepsOn
    <2>5. SameShape(c, m, plan[m]) BY <2>1, <2>4 DEF SameShape, Lives
    <2>6. plan[m].node = desired[c][m].node BY <2>5, ShapeFacts
    <2>7. plan[m].node = task[c].previous[m].node BY <1>5, <2>1 DEF Strict, Faithful, Lives
    <2>8. ~renamed
      <3>1. ~NodeChanged(c, m) BY <2>6, <2>7 DEF NodeChanged
      <3> QED BY <1>3, <3>1 DEF Keeping
    <2>9. CASE same BY <1>3, <1>4, <2>9 DEF Keeping
    <2>10. same BY <1>3, <2>5, <2>8 DEF Keeping
    <2> QED BY <2>9, <2>10
  <1>9. FirstRun' BY <1>4, <1>5, <1>6, <1>7, <1>8, TouchFirst
  <1>10. ASSUME restarts = 0 PROVE Present' = Present
    <2>1. ~restored
      <3> SUFFICES ASSUME restored PROVE FALSE OBVIOUS
      <3>1. dir[m] = "absent" /\ Identity(m, new) \in saved BY <1>3 DEF Keeping
      <3>2. plan[m] = NoPlan BY <1>5, <3>1 DEF Inv, MemberOK
      <3>3. Lives(Identity(m, new).member) BY <1>10, <3>1 DEF FirstRun, Cached
      <3> QED BY <3>2, <3>3, IdentityIs DEF Lives
    <2>2. dir'[m] = dir[m] BY <1>3, <2>1 DEF Keeping
    <2>3. \A n \in Members : dir'[n] = dir[n] BY <1>4, <2>2 DEF Touch
    <2> QED BY <2>3 DEF Present
  <1> QED BY <1>9, <1>10

\* A transfer of a member, a request or the pruning: no plan changes.
LEMMA AsideFirst ==
    ASSUME FirstRun, Aside, restarts = 0 => Cached'
    PROVE  FirstRun'
  <1>1. ASSUME restarts = 0, NEW d \in Names PROVE Lasting(d)'
    <2>1. Lasting(d) BY <1>1 DEF FirstRun
    <2> QED BY <2>1, LastingSame DEF Aside
  <1> QED BY <1>1 DEF FirstRun, Aside

\* A phase of the reconciliation that leaves plans, owners and caches alone.
LEMMA PassFirst ==
    ASSUME Parameters, Inv, FirstRun, NEW c \in Names, NEW q, q \in {"cooldowns", "unlock", "send"},
           pc[c] \in Inside, pc' = [pc EXCEPT ![c] = q], DOMAIN applied' = Names,
           \A d \in Names : d # c => applied'[d] = applied[d],
           UNCHANGED <<held, task, owner, desired, plan, attempt, asked, serving, restarts, boot, saved>>
    PROVE  FirstRun'
  <1>0. Shapes /\ Locking BY DEF Inv
  <1>1. pc'[c] = q /\ \A d \in Names : d # c => pc'[d] = pc[d] BY <1>0 DEF Shapes
  <1>2. lock = c BY <1>0 DEF Locking
  <1>3. Apart(c) BY <1>0, <1>1 DEF Apart, Shapes
  <1>4. Lasting(c)' BY <1>1 DEF Lasting
  <1>5. restarts = 0 => Cached' BY CachedFrame DEF FirstRun
  <1> QED BY <1>2, <1>3, <1>4, <1>5, ApartFirst

LEMMA StepFirst ==
    ASSUME Parameters, ~BindingFails, Inv, Strict, FirstRun, [Next]_vars
    PROVE  FirstRun'
  <1>s. Shapes BY DEF Inv
  <1>l. ASSUME restarts = 0, NEW c \in Names PROVE Lasting(c) BY <1>l DEF FirstRun
  <1>c. restarts = 0 => Cached BY DEF FirstRun
  <1>1. ASSUME NEW c \in Names, NEW l \in Listings, Transfer(c, l) PROVE FirstRun'
    <2>1. Quiet(c) BY <1>1, TransferKeeps
    <2>2. UNCHANGED <<plan, saved, boot>> /\ pc'[c] = "prepare" BY <1>1, <1>s DEF Transfer, Shapes
    <2>3. Lasting(c)' BY <2>2 DEF Lasting
    <2> QED BY <2>1, <2>2, <2>3, QuietFirst
  <1>2. ASSUME NEW c \in Names, Confirm(c) \/ Expire(c) PROVE FirstRun'
    <2>1. Quiet(c) BY <1>2, ConfirmKeeps, ExpireKeeps
    <2>2. UNCHANGED <<plan, saved, boot, pc>> /\ pc[c] = "idle" BY <1>2 DEF Confirm, Expire
    <2>3. Lasting(c)' BY <2>2 DEF Lasting
    <2> QED BY <2>1, <2>2, <2>3, QuietFirst
  <1>3. ASSUME NEW c \in Names, Abort(c) PROVE FirstRun'
    <2>1. Quiet(c) BY <1>3, AbortKeeps
    <2>2. UNCHANGED <<plan, saved, boot>> /\ pc'[c] = "idle" BY <1>3, <1>s DEF Abort, Shapes
    <2>3. Lasting(c)' BY <2>2 DEF Lasting
    <2> QED BY <2>1, <2>2, <2>3, QuietFirst
  <1>4. ASSUME NEW c \in Names, Publish(c) PROVE FirstRun'
    <2>1. Quiet(c) BY <1>4, PublishKeeps
    <2>2. UNCHANGED <<plan, saved, boot, task, owner>> /\ pc[c] = "publish" /\ pc'[c] = "filter"
      BY <1>4, <1>s DEF Publish, Shapes
    <2>3. ASSUME restarts = 0 PROVE Lasting(c)'
      <3>1. Lasting(c) BY <1>l, <2>3
      <3> QED BY <2>2, <3>1 DEF Lasting, Ahead, KeepsOn, Candidate, Retains, Lives
    <2> QED BY <2>1, <2>2, <2>3, QuietFirst
  <1>5. ASSUME NEW c \in Names, Filter(c) PROVE FirstRun'
    <2>1. Quiet(c) BY <1>5, FilterKeeps
    <2>2. UNCHANGED <<plan, saved, boot, owner>> /\ pc[c] = "filter" /\ pc'[c] = "lock"
      BY <1>5, <1>s DEF Filter, world, Shapes
    <2>3. task'[c].list = Parsed(task[c].list) BY <1>5, <1>s DEF Filter, Shapes, Fields
    <2>4. Ahead(c)' = Ahead(c) BY <2>2, <2>3 DEF Ahead
    <2>5. ASSUME restarts = 0 PROVE Lasting(c)'
      <3>1. Lasting(c) BY <1>l, <2>5
      <3>2. \A m \in Members : owner[m] = c /\ Lives(m) => KeepsOn(c, m, Ahead(c)) BY <2>2, <3>1 DEF Lasting
      <3>3. ASSUME NEW m \in Members, owner'[m] = c, Lives(m)' PROVE KeepsOn(c, m, Ahead(c))'
        <4>1. KeepsOn(c, m, Ahead(c)) BY <2>2, <3>2, <3>3 DEF Lives
        <4> QED BY <2>2, <2>4, <4>1 DEF KeepsOn, Candidate, Retains
      <3> QED BY <2>2, <3>3 DEF Lasting
    <2> QED BY <2>1, <2>2, <2>5, QuietFirst
  <1>6. ASSUME NEW c \in Names, Send(c) PROVE FirstRun'
    <2>1. Quiet(c) BY <1>6, SendKeeps
    <2>2. UNCHANGED <<plan, saved, boot>> /\ pc'[c] \in {"send", "idle"} BY <1>6, <1>s DEF Send, world, Shapes
    <2>3. Lasting(c)' BY <2>2 DEF Lasting
    <2> QED BY <2>1, <2>2, <2>3, QuietFirst
  <1>7. ASSUME NEW c \in Names, UpdateDirectory(c) PROVE FirstRun'
    <2>1. /\ pc[c] \in Inside /\ pc' = [pc EXCEPT ![c] = "cooldowns"]
          /\ UNCHANGED <<held, task, owner, desired, applied, plan, attempt, asked, serving, restarts, boot, saved>>
      BY <1>7 DEF UpdateDirectory, world, Inside
    <2>2. DOMAIN applied' = Names BY <1>s, <2>1 DEF Shapes
    <2> QED BY <2>1, <2>2, PassFirst
  <1>8. ASSUME NEW c \in Names, ReconcileCooldowns(c) PROVE FirstRun'
    <2>1. /\ pc[c] \in Inside /\ pc' = [pc EXCEPT ![c] = "unlock"]
          /\ UNCHANGED <<held, task, owner, desired, applied, plan, attempt, asked, serving, restarts, boot, saved>>
      BY <1>8 DEF ReconcileCooldowns, world, Inside
    <2>2. DOMAIN applied' = Names BY <1>s, <2>1 DEF Shapes
    <2> QED BY <2>1, <2>2, PassFirst
  <1>9. ASSUME NEW c \in Names, Unlock(c) PROVE FirstRun'
    <2>1. /\ pc[c] \in Inside /\ pc' = [pc EXCEPT ![c] = "send"]
          /\ UNCHANGED <<held, task, owner, desired, plan, attempt, asked, serving, restarts, boot, saved>>
      BY <1>9 DEF Unlock, world, Inside
    <2>2. DOMAIN applied' = Names /\ \A d \in Names : d # c => applied'[d] = applied[d]
      BY <1>9, <1>s DEF Unlock, Shapes
    <2> QED BY <2>1, <2>2, PassFirst
  <1>10. ASSUME NEW c \in Names, ApplyStep(c) PROVE FirstRun'
    <2>1. ~BindingUnavailable(c) BY DEF BindingUnavailable
    <2> QED BY <1>5, <1>6, <1>7, <1>8, <1>9, <1>10, <2>1, LockFirst, RemoveFirst, KeepFirst DEF ApplyStep
  <1>11. ASSUME NEW m \in Members, Start(m) \/ Unsupported(m) PROVE FirstRun'
    <2>1. Aside BY <1>11, StartKeeps, UnsupportedKeeps
    <2>2. UNCHANGED <<saved, plan>> BY <1>11 DEF Start, Unsupported, world
    <2>3. restarts = 0 => Cached' BY <1>c, <2>2, CachedFrame
    <2> QED BY <2>1, <2>3, AsideFirst
  <1>12. ASSUME NEW m \in Members, Finish(m) PROVE FirstRun'
    <2>1. Aside BY <1>12, FinishKeeps
    <2>2. plan' = plan BY <2>1 DEF Aside
    <2>3. \A i \in saved' : i \in saved \/ (i = Identity(m, plan[m]) /\ Lives(m))
      BY <1>12 DEF Finish, Current, Lives
    <2>4. Identity(m, plan[m]).member = m BY IdentityIs
    <2>5. ASSUME restarts = 0 PROVE Cached'
      <3> SUFFICES ASSUME NEW i \in saved'
                   PROVE  i.member \in Members /\ Lives(i.member) /\ i = Identity(i.member, plan[i.member])
          BY <2>2 DEF Cached, Lives
      <3>1. CASE i \in saved BY <1>c, <2>5, <3>1 DEF Cached
      <3>2. CASE i = Identity(m, plan[m]) /\ Lives(m) BY <2>4, <3>2
      <3> QED BY <2>3, <3>1, <3>2
    <2> QED BY <2>1, <2>5, AsideFirst
  <1>13. CASE Prune
    <2>1. Aside BY <1>13, PruneKeeps
    <2>2. UNCHANGED <<saved, plan>> BY <1>13 DEF Prune, world
    <2>3. restarts = 0 => Cached' BY <1>c, <2>2, CachedFrame
    <2> QED BY <2>1, <2>3, AsideFirst
  <1>14. CASE Restart
    <2>1. restarts' = restarts + 1 /\ restarts \in Nat BY <1>14 DEF Restart, FirstRun
    <2>2. restarts' \in Nat /\ restarts' # 0 BY <2>1
    <2> QED BY <2>2 DEF FirstRun
  <1>15. CASE BootNext
    <2>1. boot # << >> /\ restarts' = restarts BY <1>15 DEF BootNext, world
    <2> QED BY <2>1 DEF FirstRun
  <1>16. CASE Open
    <2>1. Aside BY <1>16, OpenKeeps
    <2>2. UNCHANGED <<saved, plan>> BY <1>16 DEF Open, world
    <2>3. restarts = 0 => Cached' BY <1>c, <2>2, CachedFrame
    <2> QED BY <2>1, <2>3, AsideFirst
  <1>17. CASE UNCHANGED vars
    <2>1. Aside /\ UNCHANGED <<saved, plan>> BY <1>17 DEF vars, Aside
    <2>2. restarts = 0 => Cached' BY <1>c, <2>1, CachedFrame
    <2> QED BY <2>1, <2>2, AsideFirst
  <1> QED BY <1>1, <1>2, <1>3, <1>4, <1>10, <1>11, <1>12, <1>13, <1>14, <1>15, <1>16, <1>17, PrepareFirst
          DEF Next

(* Until the first restart, the members in service change only as a whole, *)
(* with the directory update of a catalog: no member is restored by itself *)
(* in between, since the cache of every member that was dropped is gone.   *)
THEOREM MembershipIsAlwaysAtomic ==
    ASSUME Parameters, ~BindingFails
    PROVE  Spec => [][restarts = 0 => MembershipIsAtomic]_vars
  <1>1. Init => FirstRun
    <2> SUFFICES ASSUME Init PROVE FirstRun OBVIOUS
    <2>1. restarts = 0 /\ boot = << >> /\ saved = {} /\ \A c \in Names : pc[c] = "idle" BY DEF Init
    <2> QED BY <2>1 DEF FirstRun, Cached, Lasting
  <1>2. Inv /\ Strict /\ FirstRun /\ [Next]_vars => FirstRun' BY StepFirst
  <1>3. Inv /\ Strict /\ FirstRun /\ [Next]_vars => [restarts = 0 => MembershipIsAtomic]_vars
    <2> SUFFICES ASSUME Inv, Strict, FirstRun, [Next]_vars, restarts = 0, serving, serving', Present' # Present
                 PROVE  \E c \in Names : pc[c] = "members" /\ pc'[c] = "cooldowns"
        BY DEF MembershipIsAtomic
    <2>s. Shapes BY DEF Inv
    <2>0. ASSUME dir' = dir PROVE FALSE BY <2>0 DEF Present
    <2>1. ASSUME NEW c \in Names, NEW l \in Listings, Transfer(c, l) PROVE FALSE BY <2>0, <2>1 DEF Transfer
    <2>2. ASSUME NEW c \in Names, Confirm(c) \/ Expire(c) \/ Prepare(c) \/ Abort(c) \/ Publish(c) PROVE FALSE
      BY <2>0, <2>2 DEF Confirm, Expire, Prepare, Abort, Publish
    <2>3. ASSUME NEW c \in Names,
                 Filter(c) \/ Lock(c) \/ RemoveMember(c) \/ BindingUnavailable(c)
                 \/ ReconcileCooldowns(c) \/ Unlock(c) \/ Send(c)
          PROVE  FALSE
      BY <2>0, <2>3 DEF Filter, Lock, RemoveMember, BindingUnavailable, ReconcileCooldowns, Unlock, Send
    <2>4. ASSUME NEW c \in Names, KeepMember(c) PROVE FALSE BY <2>4, KeepFirst
    <2>5. ASSUME NEW c \in Names, UpdateDirectory(c) PROVE pc[c] = "members" /\ pc'[c] = "cooldowns"
      BY <2>5, <2>s DEF UpdateDirectory, Shapes
    <2>6. ASSUME NEW m \in Members, Start(m) \/ Unsupported(m) PROVE FALSE BY <2>0, <2>6 DEF Start, Unsupported
    <2>7. ASSUME NEW m \in Members, Finish(m) PROVE FALSE
      <3>1. dir' = [dir EXCEPT ![m] = IF Current(m) /\ dir[m] # "absent" THEN "active" ELSE @]
        BY <2>7 DEF Finish
      <3>2. \A n \in Members : (dir'[n] # "absent") <=> (dir[n] # "absent") BY <2>s, <3>1 DEF Shapes
      <3> QED BY <3>2 DEF Present
    <2>8. CASE Prune \/ BootNext \/ Open BY <2>0, <2>8 DEF Prune, BootNext, Open
    <2>9. CASE Restart BY <2>9 DEF Restart
    <2>10. CASE UNCHANGED vars BY <2>0, <2>10 DEF vars
    <2>11. ASSUME NEW c \in Names, ApplyStep(c) PROVE pc[c] = "members" /\ pc'[c] = "cooldowns"
      BY <2>3, <2>4, <2>5, <2>11 DEF ApplyStep
    <2> QED BY <2>1, <2>2, <2>6, <2>7, <2>8, <2>9, <2>10, <2>11 DEF Next
  <1> QED BY <1>1, <1>2, <1>3, StrictInvariant, PTL DEF Spec
=============================================================================
