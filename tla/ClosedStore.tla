---------------------------- MODULE ClosedStore ----------------------------
(***************************************************************************)
(* What a directory service promises its readers, however its putters work *)
(* inside: directories are only ever added, and whenever a directory can   *)
(* be read, so can everything it points to.                                *)
(***************************************************************************)
EXTENDS Directories

VARIABLES dirs, stored

Init == stored = {}

(* Readers may see any closed set of new directories at once. *)
Grow ==
    /\ stored' \in SUBSET Digest
    /\ stored \subseteq stored'
    /\ Closed(dirs, stored')
    /\ UNCHANGED dirs

Spec == Init /\ [][Grow]_<<dirs, stored>>
=============================================================================
