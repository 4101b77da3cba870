--------------------------- MODULE CatalogReconcile ---------------------------
(***************************************************************************)
(* Catalog zones provision their member zones                              *)
(* (crates/borondns-server/src/lib.rs, struct CatalogManager;              *)
(* transfer_plan.rs; crates/borondns-core/src/catalog.rs).                 *)
(*                                                                         *)
(* A transferred catalog is parsed, the caches of the members it drops are *)
(* revoked on disk, the catalog is published, and its members are          *)
(* reconciled under one lock: owners, transfer plans, NOTIFY policy, one   *)
(* directory update, the IXFR cooldowns, the applied membership.  The      *)
(* attempts of a catalog zone are serial and reconcile before they finish, *)
(* but two catalogs, the transfers of the members and a restart interleave *)
(* with every step.  Zone names are numbers, in canonical order.           *)
(***************************************************************************)
EXTENDS Integers, Sequences, FiniteSets, FiniteSetsExt

CONSTANTS
    Catalogs,      \* a sequence: the catalogs in configuration order
    Members,       \* names a catalog may list
    Static,        \* those that are configured zones or catalogs
    Cap,           \* max_member_zones
    Listings,      \* what a primary may publish: [Members -> Unlisted or a node]
    BindingFails,  \* catalog_binding may fail (a disk error)
    Expires,       \* a catalog may expire, also while the server is down
    MaxVersions,   \* bound: transferred versions of each catalog
    MaxRestarts    \* bound: restarts

Unlisted == [node |-> 0, ext |-> "absent"]

Names == {Catalogs[i] : i \in DOMAIN Catalogs}
NoOwner == "none"
Entries == [node : Nat, ext : {"absent", "valid", "malformed", "rejected"}]

(* What is taken for granted of the constants.                             *)
Parameters ==
    /\ Catalogs \in Seq(Names) /\ NoOwner \notin Names
    /\ Members \subseteq Nat /\ IsFiniteSet(Members) /\ Static \subseteq Members
    /\ Listings \subseteq [Members -> Entries]
    /\ BindingFails \in BOOLEAN /\ Expires \in BOOLEAN
    /\ Cap \in Nat /\ MaxVersions \in Nat /\ MaxRestarts \in Nat

NoPlan == [catalog |-> NoOwner, node |-> 0, policy |-> "none", gen |-> 0, live |-> FALSE]
NoTask == [list |-> [m \in Members |-> Unlisted], candidates |-> {}, previous |-> {},
           todo |-> {}, accepted |-> {}, removed |-> {}, loading |-> {},
           changed |-> {}, refresh |-> {}]

VARIABLES
    held,        \* the catalog zone in the store: its listing and state
    versions,    \* transfers of each catalog so far
    pc, task,    \* the attempt of each catalog and what it holds
    lock,        \* reconcile_lock
    owner,       \* member_owners_by_key
    desired,     \* desired_memberships_by_catalog
    applied,     \* memberships_by_catalog
    plan,        \* the member's entry of TransferPlan
    notify,      \* the member's entry of NotifyAuthority
    dir,         \* the member in the zone directory
    cooldown,    \* IxfrCooldownRegistry: <<member, plan generation>>
    attempt,     \* the generation the member's running transfer has captured
    asked,       \* refresh requests sent: <<member, plan generation>>
    gens,        \* next_generation
    saved,       \* last-good caches that a live lifecycle token reaches
    broken,      \* history: caches whose membership has since been interrupted
    keeper,      \* history: the catalog whose instance of a member was applied
    boot,        \* catalogs that the start-up has still to reconcile
    serving,     \* the listeners are open
    restarts

world == <<held, versions, saved, broken, keeper, restarts>>
vars == <<held, versions, pc, task, lock, owner, desired, applied, plan, notify,
          dir, cooldown, attempt, asked, gens, saved, broken, keeper, boot,
          serving, restarts>>

-----------------------------------------------------------------------------
(* Pure parts.                                                             *)

Listed(l) == {m \in Members : l[m].node # 0}

FirstOf(S) == {m \in S : Cardinality({n \in S : n < m}) < Cap}

ParsedUnfiltered(l) ==   \* a mutant: configured names are taken too
    [m \in Members |-> IF m \in FirstOf(Listed(l)) THEN l[m] ELSE Unlisted]

(* parse_catalog_members_bounded_with_filter: names that are configured    *)
(* are passed over before the first Cap members are taken.                 *)
Parsed(l) ==
    [m \in Members |-> IF m \in FirstOf(Listed(l) \ Static) THEN l[m] ELSE Unlisted]

(* The policy that the extension of a member gives it, when                *)
(* catalog_member_plan accepts it: a malformed one counts as absent.       *)
PolicyOf(x) == IF x.ext = "valid" THEN "override" ELSE "default"

(* has_valid_plan *)
Accepted(l) == {m \in Listed(l) : l[m].ext # "rejected"}

(* catalog_binding: the identity of a cache. *)
Identity(m, p) == [member |-> m, catalog |-> p.catalog, node |-> p.node, policy |-> p.policy]

(* A malformed extension leaves an existing plan as it is.                 *)
Retains(m, x) == x.ext = "malformed" /\ plan[m] # NoPlan

Candidate(c, m, x) ==
    [member |-> m, catalog |-> c, node |-> x.node,
     policy |-> IF Retains(m, x) THEN plan[m].policy ELSE PolicyOf(x)]

Clashes(c, m) == owner[m] \notin {NoOwner, c}

Present == {m \in Members : dir[m] # "absent"}

-----------------------------------------------------------------------------
(* The transfer of a catalog.                                              *)

Transfer(c, l) ==
    /\ serving /\ pc[c] = "idle" /\ versions[c] < MaxVersions
    /\ versions' = [versions EXCEPT ![c] = @ + 1]
    /\ task' = [task EXCEPT ![c] = [NoTask EXCEPT !.list = l]]
    /\ pc' = [pc EXCEPT ![c] = "prepare"]
    /\ UNCHANGED <<held, lock, owner, desired, applied, plan, notify, dir, cooldown,
                   attempt, asked, gens, saved, broken, keeper, boot, serving, restarts>>

(* The serial has not changed: RefreshZoneSuccess::Current carries no      *)
(* members to reconcile.                                                   *)
Confirm(c) ==
    /\ serving /\ pc[c] = "idle" /\ held[c].state = "expired"
    /\ held' = [held EXCEPT ![c].state = "active"]
    /\ UNCHANGED <<versions, pc, task, lock, owner, desired, applied, plan, notify,
                   dir, cooldown, attempt, asked, gens, saved, broken, keeper, boot,
                   serving, restarts>>

Expire(c) ==
    /\ Expires /\ serving /\ pc[c] = "idle" /\ held[c].state = "active"
    /\ held' = [held EXCEPT ![c].state = "expired"]
    /\ UNCHANGED <<versions, pc, task, lock, owner, desired, applied, plan, notify,
                   dir, cooldown, attempt, asked, gens, saved, broken, keeper, boot,
                   serving, restarts>>

RevokedNone(c) == {}   \* a mutant

(* prepare_catalog_cache_lifecycles: the members whose cache the candidate *)
(* does not list under the same identity.                                  *)
Revoked(c) ==
    LET l == Parsed(task[c].list)
        keeps(m) == /\ m \in Accepted(l) /\ ~Clashes(c, m)
                    /\ Candidate(c, m, l[m]) = Identity(m, plan[m])
    IN  {m \in Members : /\ desired[c][m].node # 0 /\ owner[m] = c
                         /\ plan[m] # NoPlan /\ ~keeps(m)}

(* The tokens of the revoked caches are rotated one by one; when one fails *)
(* the transfer fails.                                                     *)
Prepare(c) ==
    /\ pc[c] = "prepare" /\ lock = NoOwner
    /\ \E done \in SUBSET Revoked(c) :
          /\ BindingFails \/ done = Revoked(c)
          /\ saved' = saved \ {Identity(m, plan[m]) : m \in done}
          /\ plan' = [m \in Members |-> IF m \in done THEN [plan[m] EXCEPT !.live = FALSE]
                                        ELSE plan[m]]
          /\ pc' = [pc EXCEPT ![c] = IF done = Revoked(c) THEN "publish" ELSE "idle"]
          /\ task' = IF done = Revoked(c) THEN task ELSE [task EXCEPT ![c] = NoTask]
    /\ UNCHANGED <<held, versions, lock, owner, desired, applied, notify, dir,
                   cooldown, attempt, asked, gens, broken, keeper, boot, serving, restarts>>

(* The publication may still be refused (a changed plan, secret or base).  *)
Abort(c) ==
    /\ pc[c] = "publish"
    /\ pc' = [pc EXCEPT ![c] = "idle"]
    /\ task' = [task EXCEPT ![c] = NoTask]
    /\ UNCHANGED <<held, versions, lock, owner, desired, applied, plan, notify, dir,
                   cooldown, attempt, asked, gens, saved, broken, keeper, boot,
                   serving, restarts>>

Publish(c) ==
    LET l == task[c].list
        interrupted == {i \in saved : i.catalog = c /\ Parsed(l)[i.member].node # i.node}
    IN  /\ pc[c] = "publish"
        /\ held' = [held EXCEPT ![c] = [list |-> l, state |-> "active"]]
        /\ broken' = broken \cup interrupted
        /\ pc' = [pc EXCEPT ![c] = "filter"]
        /\ UNCHANGED <<versions, task, lock, owner, desired, applied, plan, notify, dir,
                       cooldown, attempt, asked, gens, saved, keeper, boot, serving,
                       restarts>>

-----------------------------------------------------------------------------
(* apply_parsed_snapshot.                                                  *)

(* Before the lock: the members with a plan to follow.                     *)
Filter(c) ==
    /\ pc[c] = "filter"
    /\ task' = [task EXCEPT ![c].list = Parsed(@), ![c].candidates = Accepted(Parsed(task[c].list))]
    /\ pc' = [pc EXCEPT ![c] = "lock"]
    /\ UNCHANGED <<world, lock, owner, desired, applied, plan, notify, dir, cooldown,
                   attempt, asked, gens, boot, serving>>

DesiredAll(c) ==   \* a mutant: a clash is not looked for
    task[c].candidates

Desired(c) == {m \in task[c].candidates : ~Clashes(c, m)}

Lock(c) ==
    /\ pc[c] = "lock" /\ lock = NoOwner
    /\ lock' = c
    /\ desired' = [desired EXCEPT ![c] =
                     [m \in Members |-> IF m \in Desired(c) THEN task[c].list[m] ELSE Unlisted]]
    /\ task' = [task EXCEPT ![c].previous = desired[c],
                            ![c].accepted = Desired(c),
                            ![c].todo = applied[c] \cup Desired(c)]
    /\ pc' = [pc EXCEPT ![c] = "members"]
    /\ UNCHANGED <<world, owner, applied, plan, notify, dir, cooldown, attempt, asked,
                   gens, boot, serving>>

Next1(c) == Min(task[c].todo)

RemoveMemberNow(c) ==   \* a mutant: the directory is changed member by member
    LET m == Next1(c)
    IN  /\ pc[c] = "members" /\ task[c].todo # {} /\ desired[c][m].node = 0
        /\ owner' = [owner EXCEPT ![m] = NoOwner]
        /\ keeper' = [keeper EXCEPT ![m] = IF @ = c THEN NoOwner ELSE @]
        /\ plan' = [plan EXCEPT ![m] = NoPlan]
        /\ notify' = [notify EXCEPT ![m] = "none"]
        /\ dir' = [dir EXCEPT ![m] = "absent"]
        /\ task' = [task EXCEPT ![c].todo = @ \ {m}]
        /\ UNCHANGED <<held, versions, pc, lock, desired, applied, cooldown, attempt,
                       asked, gens, saved, broken, boot, serving, restarts>>

(* A member that is no longer desired loses its owner, plan, NOTIFY policy *)
(* and cache at once, its place in the directory with the others.          *)
RemoveMember(c) ==
    LET m == Next1(c)
    IN  /\ pc[c] = "members" /\ task[c].todo # {} /\ desired[c][m].node = 0
        /\ owner' = [owner EXCEPT ![m] = NoOwner]
        /\ keeper' = [keeper EXCEPT ![m] = IF @ = c THEN NoOwner ELSE @]
        /\ plan' = [plan EXCEPT ![m] = NoPlan]
        /\ notify' = [notify EXCEPT ![m] = "none"]
        /\ saved' = IF plan[m] = NoPlan THEN saved ELSE saved \ {Identity(m, plan[m])}
        /\ task' = [task EXCEPT ![c].todo = @ \ {m}, ![c].removed = @ \cup {m}]
        /\ UNCHANGED <<held, versions, pc, lock, desired, applied, dir, cooldown,
                       attempt, asked, gens, broken, boot, serving, restarts>>

NodeChanged(c, m) ==
    task[c].previous[m].node \notin {0, desired[c][m].node}

(* insert_preserving_generation_if_unchanged: same_transfer_shape compares *)
(* the cache binding too, which a rotated token has changed.               *)
SameShape(c, m, p) == p.live /\ Identity(m, p) = Candidate(c, m, desired[c][m])

KeepMember(c) ==
    LET m == Next1(c)
        x == desired[c][m]
        renamed == NodeChanged(c, m)
        old == IF renamed THEN NoPlan ELSE plan[m]
        kept == IF renamed /\ plan[m] # NoPlan THEN saved \ {Identity(m, plan[m])} ELSE saved
        retained == x.ext = "malformed" /\ old # NoPlan
        same == retained \/ SameShape(c, m, old)
        new == IF same THEN old
               ELSE [catalog |-> c, node |-> x.node, policy |-> PolicyOf(x),
                     gen |-> gens + 1, live |-> TRUE]
        missing == renamed \/ dir[m] = "absent"
        restored == missing /\ ~renamed /\ Identity(m, new) \in saved /\ new.live
    IN  /\ pc[c] = "members" /\ task[c].todo # {} /\ x.node # 0
        /\ saved' = kept
        /\ plan' = [plan EXCEPT ![m] = new]
        /\ notify' = [notify EXCEPT ![m] = IF retained THEN @ ELSE PolicyOf(x)]
        /\ owner' = [owner EXCEPT ![m] = IF retained THEN @ ELSE c]
        /\ keeper' = [keeper EXCEPT ![m] = IF @ = NoOwner THEN c ELSE @]
        /\ gens' = IF same THEN gens ELSE gens + 1
        /\ dir' = [dir EXCEPT ![m] = IF ~restored THEN @
                                     ELSE IF Identity(m, new) \in broken THEN "revived"
                                     ELSE "active"]
        /\ task' = [task EXCEPT ![c].todo = @ \ {m},
                                ![c].removed = IF renamed THEN @ \cup {m} ELSE @,
                                ![c].loading = IF missing /\ ~restored THEN @ \cup {m} ELSE @,
                                ![c].changed = IF same THEN @ ELSE @ \cup {m},
                                ![c].refresh = IF (missing /\ ~restored) \/ ~same
                                               THEN @ \cup {<<m, new.gen>>} ELSE @]
        /\ UNCHANGED <<held, versions, pc, lock, desired, applied, cooldown, attempt,
                       asked, broken, boot, serving, restarts>>

(* The cache binding of the member cannot be had: it is not admitted, what *)
(* has been removed stays removed and what has not stays.                  *)
BindingUnavailable(c) ==
    LET m == Next1(c)
        renamed == NodeChanged(c, m)
    IN  /\ BindingFails
        /\ pc[c] = "members" /\ task[c].todo # {} /\ desired[c][m].node # 0
        /\ ~(Retains(m, desired[c][m]) /\ ~renamed)
        /\ saved' = IF renamed /\ plan[m] # NoPlan THEN saved \ {Identity(m, plan[m])} ELSE saved
        /\ plan' = [plan EXCEPT ![m] = IF renamed THEN NoPlan ELSE @]
        /\ notify' = [notify EXCEPT ![m] = IF renamed THEN "none" ELSE @]
        /\ task' = [task EXCEPT ![c].todo = @ \ {m}, ![c].accepted = @ \ {m},
                                ![c].removed = IF renamed THEN @ \cup {m} ELSE @]
        /\ UNCHANGED <<held, versions, pc, lock, owner, desired, applied, dir, cooldown,
                       attempt, asked, gens, broken, keeper, boot, serving, restarts>>

UpdatedRemoveLast(t, m) ==   \* a mutant: additions before removals
    IF m \in t.removed THEN "absent" ELSE IF m \in t.loading THEN "loading" ELSE dir[m]

(* apply_atomic_directory_update: removals first, then the new LOADING     *)
(* entries, in one publication.                                            *)
Updated(t, m) ==
    IF m \in t.loading /\ (m \in t.removed \/ dir[m] = "absent") THEN "loading"
    ELSE IF m \in t.removed THEN "absent" ELSE dir[m]

UpdateDirectory(c) ==
    /\ pc[c] = "members" /\ task[c].todo = {}
    /\ dir' = [m \in Members |-> Updated(task[c], m)]
    /\ pc' = [pc EXCEPT ![c] = "cooldowns"]
    /\ UNCHANGED <<world, task, lock, owner, desired, applied, plan, notify, cooldown,
                   attempt, asked, gens, boot, serving>>


(* reconcile_catalog_generations *)
KeptEntry(t, e) ==
    /\ e[1] \notin t.removed
    /\ e[1] \in t.changed => e[2] = plan[e[1]].gen

ReconcileCooldowns(c) ==
    /\ pc[c] = "cooldowns"
    /\ cooldown' = {e \in cooldown : KeptEntry(task[c], e)}
    /\ pc' = [pc EXCEPT ![c] = "unlock"]
    /\ UNCHANGED <<world, task, lock, owner, desired, applied, plan, notify, dir,
                   attempt, asked, gens, boot, serving>>

UnlockCandidates(c) ==   \* a mutant: the clashing members are recorded too
    /\ pc[c] = "unlock"
    /\ applied' = [applied EXCEPT ![c] = task[c].candidates]
    /\ lock' = NoOwner
    /\ pc' = [pc EXCEPT ![c] = "send"]
    /\ UNCHANGED <<world, task, owner, desired, plan, notify, dir, cooldown, attempt,
                   asked, gens, boot, serving>>

Unlock(c) ==
    /\ pc[c] = "unlock"
    /\ applied' = [applied EXCEPT ![c] = task[c].accepted]
    /\ lock' = NoOwner
    /\ pc' = [pc EXCEPT ![c] = "send"]
    /\ UNCHANGED <<world, task, owner, desired, plan, notify, dir, cooldown, attempt,
                   asked, gens, boot, serving>>

(* After the lock, one queued refresh after the other.  At start-up the    *)
(* queue is closed and the requests are dropped.                           *)
Send(c) ==
    /\ pc[c] = "send"
    /\ \/ /\ task[c].refresh # {} /\ serving
          /\ \E r \in task[c].refresh :
                /\ asked' = asked \cup {r}
                /\ task' = [task EXCEPT ![c].refresh = @ \ {r}]
          /\ pc' = pc
       \/ /\ task[c].refresh = {} \/ ~serving
          /\ task' = [task EXCEPT ![c] = NoTask]
          /\ pc' = [pc EXCEPT ![c] = "idle"]
          /\ asked' = asked
    /\ UNCHANGED <<world, lock, owner, desired, applied, plan, notify, dir, cooldown,
                   attempt, gens, boot, serving>>

-----------------------------------------------------------------------------
(* The transfers of the members, one at a time for each zone.              *)

Start(m) ==
    /\ serving /\ attempt[m] = 0 /\ plan[m] # NoPlan
    /\ attempt' = [attempt EXCEPT ![m] = plan[m].gen]
    /\ UNCHANGED <<world, pc, task, lock, owner, desired, applied, plan, notify, dir,
                   cooldown, asked, gens, boot, serving>>

RecordsAlways(m) == TRUE   \* a mutant: the plan is not looked at again

(* if_current_plan, evaluated under the lock of the plans.                 *)
Current(m) == plan[m] # NoPlan /\ plan[m].gen = attempt[m]

(* record_unsupported_if_current *)
Unsupported(m) ==
    /\ attempt[m] # 0 /\ Current(m)
    /\ cooldown' = cooldown \cup {<<m, attempt[m]>>}
    /\ UNCHANGED <<world, pc, task, lock, owner, desired, applied, plan, notify, dir,
                   attempt, asked, gens, boot, serving>>

(* The copy is saved and published only under the plan it was fetched for. *)
Finish(m) ==
    /\ attempt[m] # 0
    /\ attempt' = [attempt EXCEPT ![m] = 0]
    /\ LET publishes == Current(m) /\ dir[m] # "absent"
           i == Identity(m, plan[m])
       IN  /\ dir' = [dir EXCEPT ![m] = IF publishes THEN "active" ELSE @]
           /\ saved' = IF publishes /\ plan[m].live THEN saved \cup {i} ELSE saved
           /\ broken' = IF publishes /\ plan[m].live THEN broken \ {i} ELSE broken
    /\ UNCHANGED <<held, versions, pc, task, lock, owner, desired, applied, plan, notify,
                   cooldown, asked, gens, keeper, boot, serving, restarts>>

(* prune_expired_at *)
Prune ==
    /\ \E e \in cooldown : cooldown' = cooldown \ {e}
    /\ UNCHANGED <<world, pc, task, lock, owner, desired, applied, plan, notify, dir,
                   attempt, asked, gens, boot, serving>>

-----------------------------------------------------------------------------
(* A restart: what is in memory is lost, the catalogs and the caches are   *)
(* restored from disk.  A catalog that has expired meanwhile is restored   *)
(* EXPIRED.                                                                *)
Restart ==
    /\ restarts < MaxRestarts
    /\ restarts' = restarts + 1
    /\ \E late \in SUBSET {c \in Names : Expires /\ held[c].state = "active"} :
          held' = [c \in Names |-> IF c \in late THEN [held[c] EXCEPT !.state = "expired"]
                                   ELSE held[c]]
    /\ pc' = [c \in Names |-> "idle"]
    /\ task' = [c \in Names |-> NoTask]
    /\ lock' = NoOwner
    /\ owner' = [m \in Members |-> NoOwner]
    /\ desired' = [c \in Names |-> NoTask.list]
    /\ applied' = [c \in Names |-> {}]
    /\ plan' = [m \in Members |-> NoPlan]
    /\ notify' = [m \in Members |-> "none"]
    /\ dir' = [m \in Members |-> "absent"]
    /\ attempt' = [m \in Members |-> 0]
    /\ cooldown' = {} /\ asked' = {} /\ gens' = 0
    /\ boot' = Catalogs /\ serving' = FALSE
    /\ keeper' = [m \in Members |-> IF keeper[m] \in Names /\ m \in Accepted(Parsed(held[keeper[m]].list))
                                    THEN keeper[m] ELSE NoOwner]
    /\ UNCHANGED <<versions, saved, broken>>

SkipsAll(c) == TRUE   \* a mutant: nothing is reconciled at start-up

Skips(c) == held[c].state # "active"

(* ServerRuntime::run, before the listeners open: the restored catalogs    *)
(* that are ACTIVE are reconciled in configuration order.                  *)
BootNext ==
    /\ boot # << >> /\ \A c \in Names : pc[c] = "idle"
    /\ LET c == Head(boot)
       IN  IF Skips(c) THEN UNCHANGED <<pc, task>>
           ELSE /\ pc' = [pc EXCEPT ![c] = "filter"]
                /\ task' = [task EXCEPT ![c] = [NoTask EXCEPT !.list = held[c].list]]
    /\ boot' = Tail(boot)
    /\ UNCHANGED <<world, lock, owner, desired, applied, plan, notify, dir, cooldown,
                   attempt, asked, gens, serving>>

OpenConfigured ==   \* a mutant: only configured zones are refreshed at start
    /\ ~serving /\ boot = << >> /\ \A c \in Names : pc[c] = "idle"
    /\ serving' = TRUE
    /\ UNCHANGED <<world, pc, task, lock, owner, desired, applied, plan, notify, dir,
                   cooldown, attempt, asked, gens, boot>>

(* initial_origins: every plan is refreshed once.                          *)
Open ==
    /\ ~serving /\ boot = << >> /\ \A c \in Names : pc[c] = "idle"
    /\ serving' = TRUE
    /\ asked' = {<<m, plan[m].gen>> : m \in {n \in Members : plan[n] # NoPlan}}
    /\ UNCHANGED <<world, pc, task, lock, owner, desired, applied, plan, notify, dir,
                   cooldown, attempt, gens, boot>>

Init ==
    /\ held = [c \in Names |-> [list |-> NoTask.list, state |-> "none"]]
    /\ versions = [c \in Names |-> 0]
    /\ pc = [c \in Names |-> "idle"] /\ task = [c \in Names |-> NoTask]
    /\ lock = NoOwner
    /\ owner = [m \in Members |-> NoOwner] /\ keeper = [m \in Members |-> NoOwner]
    /\ desired = [c \in Names |-> NoTask.list] /\ applied = [c \in Names |-> {}]
    /\ plan = [m \in Members |-> NoPlan] /\ notify = [m \in Members |-> "none"]
    /\ dir = [m \in Members |-> "absent"] /\ attempt = [m \in Members |-> 0]
    /\ cooldown = {} /\ asked = {} /\ gens = 0 /\ saved = {} /\ broken = {}
    /\ boot = << >> /\ serving = TRUE /\ restarts = 0

ApplyStep(c) ==
    \/ Filter(c) \/ Lock(c) \/ RemoveMember(c) \/ KeepMember(c) \/ BindingUnavailable(c)
    \/ UpdateDirectory(c) \/ ReconcileCooldowns(c) \/ Unlock(c) \/ Send(c)

Next ==
    \/ \E c \in Names :
          \/ \E l \in Listings : Transfer(c, l)
          \/ Confirm(c) \/ Expire(c) \/ Prepare(c) \/ Abort(c) \/ Publish(c) \/ ApplyStep(c)
    \/ \E m \in Members : Start(m) \/ Unsupported(m) \/ Finish(m)
    \/ Prune \/ Restart \/ BootNext \/ Open

Spec == Init /\ [][Next]_vars

-----------------------------------------------------------------------------
(* Properties.                                                             *)

TypeOK ==
    /\ lock \in Names \cup {NoOwner}
    /\ \A c \in Names :
          /\ held[c].state \in {"none", "active", "expired"}
          /\ pc[c] \in {"idle", "prepare", "publish", "filter", "lock", "members",
                        "cooldowns", "unlock", "send"}
          /\ pc[c] \in {"members", "cooldowns", "unlock"} <=> lock = c
          /\ Cardinality(applied[c]) <= Cap
    /\ \A m \in Members :
          /\ owner[m] \in Names \cup {NoOwner}
          /\ dir[m] \in {"absent", "loading", "active", "revived"}
          /\ plan[m] # NoPlan => plan[m].gen \in 1..gens
          /\ m \in Static => owner[m] = NoOwner /\ plan[m] = NoPlan /\ dir[m] = "absent"

Settled(c) == serving /\ lock = NoOwner /\ pc[c] = "idle" /\ held[c].state = "active"

(* A catalog that is ACTIVE and has no reconciliation under way has been   *)
(* applied as it stands: every member it lists and may have is owned by it *)
(* (or, where the name was taken, by another catalog or by none), with a   *)
(* plan of the node that lists it, the NOTIFY policy of that plan and a    *)
(* place in the directory; and nothing it does not list is owned by it.    *)
AppliedAsHeld ==
    \A c \in Names : Settled(c) =>
        LET l == Parsed(held[c].list)
        IN  /\ applied[c] \subseteq Accepted(l)
            /\ \A m \in Members : owner[m] = c <=> m \in applied[c]
            /\ \A m \in Accepted(l) \ applied[c] :
                  desired[c][m].node = 0 /\ Cardinality(Names) > 1
            /\ \A m \in applied[c] :
                  /\ plan[m].catalog = c /\ plan[m].node = l[m].node
                  /\ notify[m] = plan[m].policy
                  /\ l[m].ext # "malformed" => plan[m].policy = PolicyOf(l[m])
                  /\ dir[m] # "absent"

(* Whenever no reconciliation holds the lock, plans, NOTIFY policies,      *)
(* owners and the directory name the same members: none is served without  *)
(* a plan to refresh it, none has a plan that no catalog answers for.      *)
RegistriesAgree ==
    lock = NoOwner =>
        \A m \in Members :
            /\ (plan[m] # NoPlan) <=> (owner[m] # NoOwner)
            /\ (plan[m] # NoPlan) <=> (dir[m] # "absent")
            /\ notify[m] = plan[m].policy
            /\ plan[m] # NoPlan => plan[m].catalog = owner[m]

(* No IXFR cooldown outlives the plan generation it was recorded for, even *)
(* when a transfer that began under the old plan reports while the plan is *)
(* being replaced: a leftover entry would never be looked up again and     *)
(* only leave by its deadline.                                             *)
NoStaleCooldown ==
    lock = NoOwner =>
        \A e \in cooldown : plan[e[1]] # NoPlan /\ e[2] = plan[e[1]].gen

(* A LOADING member has been asked for under the generation of its present *)
(* plan, or the reconciliation that made it so is about to: requests of an *)
(* older generation are dropped by the dispatcher, so a member without     *)
(* this one would never load.                                              *)
LoadingIsAsked ==
    serving => \A m \in Members :
        dir[m] = "loading" /\ lock = NoOwner =>
            \/ <<m, plan[m].gen>> \in asked
            \/ \E c \in Names : pc[c] = "send" /\ <<m, plan[m].gen>> \in task[c].refresh

(* A copy that is restored from disk belongs to the membership that the    *)
(* catalog lists now: removed or renamed meanwhile, in a version that was  *)
(* published, its cache is never used again.                               *)
NeverRevived == \A m \in Members : dir[m] # "revived"

(* While a server runs, the members that are in service change only as a   *)
(* whole, with the catalog's directory update: a reader sees the old       *)
(* membership or the new one.                                              *)
MembershipIsAtomic ==
    serving /\ serving' /\ Present' # Present =>
        \E c \in Names : pc[c] = "members" /\ pc'[c] = "cooldowns"

(* The instance of a member that was applied keeps its owner until the     *)
(* owner's catalog drops it: no other catalog takes it over.               *)
OwnerKeeps == \A m \in Members : owner[m] \in {NoOwner, keeper[m]}

(* What a catalog owns, the version of it that was last applied lists.     *)
RemovedIsGone ==
    \A c \in Names : Settled(c) =>
        \A m \in Members : owner[m] = c => m \in Listed(held[c].list)
=============================================================================
