---------------------------- MODULE MCNodeStore ----------------------------
(* One key that expires and three values: two dated versions of an object    *)
(* and a value of another owner without a date; the IPC thread and a pool    *)
(* thread.                                                                   *)
EXTENDS NodeStore, TLC

CONSTANTS old, new, alien, t1, t2

MCValues == {old, new, alien}
MCOwnerOf == (old :> 1) @@ (new :> 1) @@ (alien :> 2)
MCStampOf == (old :> 1) @@ (new :> 2) @@ (alien :> 0)
MCTermsOf == (old :> {t1}) @@ (new :> {t2}) @@ (alien :> {t2})
=============================================================================
