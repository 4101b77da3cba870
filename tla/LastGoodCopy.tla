---------------------------- MODULE LastGoodCopy ----------------------------
(***************************************************************************)
(* What last-good persistence promises for one zone, without files: the   *)
(* copy being served, and the copies that a restart may come back with.    *)
(* A copy that is published joins the saved ones before the older ones are *)
(* given up, so a restart returns the newest settled copy or a newer one,  *)
(* never an older one and never a mixture.                                 *)
(***************************************************************************)
CONSTANTS Copies, NoCopy

VARIABLES serving, saved

vars == <<serving, saved>>

Init == serving = NoCopy /\ saved = {NoCopy}

(* A transferred copy is published; until the directory is synced, the     *)
(* copies saved before may still be the ones that a crash brings back.     *)
Publish ==
    \E c \in Copies :
        /\ serving' = c
        /\ saved' = saved \cup {c}

(* The directory has been synced: only what is served survives.            *)
Settle ==
    /\ saved' = {serving}
    /\ UNCHANGED serving

(* The process (or the machine) stops and starts again with a saved copy.  *)
Restart ==
    \E c \in saved :
        /\ serving' = c
        /\ saved' \in {saved, {c}}

Next == Publish \/ Settle \/ Restart

Spec == Init /\ [][Next]_vars

=============================================================================
