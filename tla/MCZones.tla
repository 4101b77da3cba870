------------------------------ MODULE MCZones ------------------------------
(***************************************************************************)
(* Small instances of the zones a server has: CatalogReconcile, which      *)
(* decides what they are, and ZoneStore, the directory that holds them.    *)
(* A behaviour picks one of the instances in Parts and leaves the          *)
(* variables of the other component alone.                                 *)
(***************************************************************************)
EXTENDS Integers, Sequences, TLC

CONSTANTS
    Parts,     \* the instances that a run explores
    t1, t2     \* the transfers of the race

VARIABLES sel, dir,
    held, versions, pc, task, lock, owner, desired, applied, plan, notify, cooldown,
    attempt, asked, gens, saved, broken, keeper, boot, serving, restarts,
    ids, incs, prep, view, comp, ins, wanted, gone

CatalogOnly == <<held, versions, pc, task, lock, owner, desired, applied, plan, notify,
                 cooldown, attempt, asked, gens, saved, broken, keeper, boot, serving,
                 restarts>>
StoreOnly == <<ids, incs, prep, view, comp, ins, wanted, gone>>
vars == <<sel, dir, CatalogOnly, StoreOnly>>

-----------------------------------------------------------------------------
(* Catalogs: what a primary may publish.                                   *)

Node(n, e) == [node |-> n, ext |-> e]
Unlisted == Node(0, "absent")

(* Three names of which 1 is configured and at most one is taken: 3 comes  *)
(* in when 2 goes.                                                         *)
ThreeNames ==
    {[m \in 1..3 |-> Node(1, "absent")],
     [m \in 1..3 |-> IF m = 2 THEN Unlisted ELSE Node(1, "absent")],
     [m \in 1..3 |-> IF m = 1 THEN Unlisted ELSE Node(2, "valid")]}

(* One name: absent, listed by either node, with each kind of extension.   *)
OneName ==
    {[m \in {1} |-> x] : x \in {Unlisted, Node(1, "absent"), Node(1, "valid"),
                                Node(2, "malformed"), Node(1, "malformed"),
                                Node(1, "rejected")}}

(* One name, two nodes, no extensions.                                     *)
Plain == {[m \in {1} |-> x] : x \in {Unlisted, Node(1, "absent"), Node(2, "absent")}}

One == INSTANCE CatalogReconcile WITH
    Catalogs <- <<"c1">>, Members <- {1}, Static <- {}, Cap <- 1, Listings <- OneName,
    BindingFails <- FALSE, Expires <- FALSE, MaxVersions <- 3, MaxRestarts <- 1
Two == INSTANCE CatalogReconcile WITH
    Catalogs <- <<"c1", "c2">>, Members <- {1}, Static <- {}, Cap <- 1, Listings <- Plain,
    BindingFails <- FALSE, Expires <- FALSE, MaxVersions <- 3, MaxRestarts <- 0
Full == INSTANCE CatalogReconcile WITH
    Catalogs <- <<"c1">>, Members <- {1, 2, 3}, Static <- {1}, Cap <- 1,
    Listings <- ThreeNames, BindingFails <- TRUE, Expires <- TRUE,
    MaxVersions <- 3, MaxRestarts <- 1

(* The directory: the root, a zone and its child.                          *)
Origins == {<<>>, <<"a">>, <<"a", "b">>}
QNames == Origins \cup {<<"a", "b", "c">>, <<"d">>}

Nested == INSTANCE ZoneStore WITH
    Transfers <- {}, Serials <- 2, Copies <- {0}, SmallLimit <- 1, Sharding <- {FALSE},
    Retransfers <- {FALSE}, MaxIds <- 3
Race == INSTANCE ZoneStore WITH
    Origins <- {<<"a">>}, Transfers <- {t1, t2}, Serials <- 4, Copies <- 0 .. 3,
    SmallLimit <- 1, Sharding <- {FALSE}, Retransfers <- {TRUE}, MaxIds <- 3
Compact == INSTANCE ZoneStore WITH
    Origins <- {<<"a">>}, Transfers <- {"t1"}, Serials <- 4, Copies <- {0},
    SmallLimit <- 1, Sharding <- {TRUE}, Retransfers <- {FALSE}, MaxIds <- 4

ASSUME ParametersAreSound ==
    /\ One!Parameters /\ Two!Parameters /\ Full!Parameters
    /\ Nested!Parameters /\ Race!Parameters /\ Compact!Parameters

Symmetry == Permutations({t1, t2})

-----------------------------------------------------------------------------
CatalogOff ==
    /\ held = 0 /\ versions = 0 /\ pc = 0 /\ task = 0 /\ lock = 0 /\ owner = 0
    /\ desired = 0 /\ applied = 0 /\ plan = 0 /\ notify = 0 /\ cooldown = 0
    /\ attempt = 0 /\ asked = 0 /\ gens = 0 /\ saved = 0 /\ broken = 0 /\ keeper = 0
    /\ boot = 0 /\ serving = 0 /\ restarts = 0
StoreOff == /\ ids = 0 /\ incs = 0 /\ prep = 0 /\ view = 0 /\ comp = 0 /\ ins = 0
            /\ wanted = 0 /\ gone = 0

Init ==
    /\ sel \in Parts
    /\ \/ sel = "one" /\ One!Init /\ StoreOff
       \/ sel = "two" /\ Two!Init /\ StoreOff
       \/ sel = "full" /\ Full!Init /\ StoreOff
       \/ sel = "nested" /\ Nested!Init /\ CatalogOff
       \/ sel = "race" /\ Race!Init /\ CatalogOff
       \/ sel = "compact" /\ Compact!Init /\ CatalogOff

Next ==
    \/ sel = "one" /\ One!Next /\ UNCHANGED <<sel, StoreOnly>>
    \/ sel = "two" /\ Two!Next /\ UNCHANGED <<sel, StoreOnly>>
    \/ sel = "full" /\ Full!Next /\ UNCHANGED <<sel, StoreOnly>>
    \/ sel = "nested" /\ Nested!Next /\ UNCHANGED <<sel, CatalogOnly>>
    \/ sel = "race" /\ Race!Next /\ UNCHANGED <<sel, CatalogOnly>>
    \/ sel = "compact" /\ Compact!Next /\ UNCHANGED <<sel, CatalogOnly>>

Spec == Init /\ [][Next]_vars

-----------------------------------------------------------------------------
(* The type invariant of whichever component runs, and its bounds.         *)
TypeOK ==
    /\ sel = "two" => Two!TypeOK
    /\ sel = "full" => Full!TypeOK
    /\ sel = "nested" => Nested!TypeOK
    /\ sel = "race" => Race!TypeOK
    /\ sel = "compact" => Compact!TypeOK

(* apply_parsed_snapshot: outside of reconcile_lock the owners, plans,     *)
(* NOTIFY policies and the directory name the same members; a catalog at   *)
(* rest has been applied as it stands; an applied instance keeps its owner *)
(* until the owner drops it.                                               *)
AppliedAsHeld ==
    /\ sel = "one" => One!AppliedAsHeld /\ One!RegistriesAgree
    /\ sel = "two" => Two!AppliedAsHeld /\ Two!RegistriesAgree /\ Two!OwnerKeeps


(* Removal of members: what a catalog owns, the version of it that was     *)
(* last applied lists.                                                     *)
RemovedIsGone == sel = "full" => Full!RemovedIsGone


(* find_best_match_arc, find_parent_of_exact_match_ref: whatever came and  *)
(* went, the short list and the suffix index find the deepest zone that is *)
(* not hidden.                                                             *)
LookupIsLongestMatch == sel = "nested" => Nested!LookupIsLongestMatch

(* publish_prepared_zone, publish_compacted_base, remove_origin: although  *)
(* publications are built from older entries, the visibility decided last  *)
(* holds, a removed incarnation never comes back, and an image is that of  *)
(* the entry's own snapshot or of an earlier one of its incarnation.       *)
EntryIsRightful ==
    /\ sel = "race" => Race!HiddenStaysHidden
    /\ sel = "compact" => Compact!GoneIsGone /\ Compact!ImageBelongs
=============================================================================
