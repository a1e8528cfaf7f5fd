-------------------------- MODULE EntryLifecycleMC --------------------------
(***************************************************************************)
(* EntryLifecycle for TLC: a rule that users change at will, beside one    *)
(* from an older version that lacks a hash, enabled or not, or cannot be   *)
(* used at all.  Two runtimes exist at a time at most: one that runs or    *)
(* ends, and the next.                                                     *)
(***************************************************************************)
EXTENDS EntryLifecycle

CONSTANTS changing, old

MCChoices == [r \in {changing, old} |->
                IF r = old THEN {"unhashed_off", "unhashed", "broken"}
                           ELSE {"absent", "off", "on"}]
=============================================================================
