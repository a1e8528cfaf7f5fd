---------------------------- MODULE ManagedStore ----------------------------
(***************************************************************************)
(* ManagedPatchStore.save (managed_source.py): the publication of a patch  *)
(* text under its digest, one system call that can fail or be interrupted  *)
(* after the other.  The callers hold the operation lock, so there is one  *)
(* save at a time.  A text is identified with its digest.                  *)
(*                                                                         *)
(* A revision that is linked and not durable can be lost with the power;   *)
(* one whose temporary name was left behind has two links, and the checked *)
(* read (safe_io.py) refuses it.                                           *)
(***************************************************************************)
EXTENDS Naturals

CONSTANTS Managed,   \* texts of managed patches
          NoText,
          Faults     \* which of FaultKinds this environment exhibits

StoreFaults == {"io_error", "unflushed_ancestor", "lost_revision"}

VARIABLES
  parents,    \* .hapatchy/patches: absent, created, durably linked
  revision,   \* the file named after each text
  doubled,    \* revisions a temporary name still leads to
  saver       \* the running save: step, text, and whether it made the link

storeState == <<parents, revision, doubled, saver>>

SaverSteps == {"idle", "open", "lookup", "resync", "write", "link", "unlink",
               "sync", "check", "saved", "failed"}

StoreTypeOK ==
  /\ parents \in {"absent", "created", "durable"}
  /\ revision \in [Managed -> {"absent", "linked", "durable"}]
  /\ doubled \subseteq Managed
  /\ saver \in [at : SaverSteps, text : Managed \cup {NoText}, linked : BOOLEAN]
  /\ saver.at # "idle" => saver.text \in Managed

IdleSaver == [at |-> "idle", text |-> NoText, linked |-> FALSE]

\* The revisions in keep were saved in the past.
StoreInit(keep) ==
  /\ parents = IF keep = {} THEN "absent" ELSE "durable"
  /\ revision = [s \in Managed |-> IF s \in keep THEN "durable" ELSE "absent"]
  /\ doubled = {}
  /\ saver = IdleSaver

\* _read: the file is there and has one link.
Present(s)  == revision[s] # "absent"
TwoLinks(s) == s \in doubled \/ (saver.at = "unlink" /\ saver.linked /\ saver.text = s)
Readable(s) == Present(s) /\ ~TwoLinks(s)

At(step) == saver.at = step
Go(step) == saver' = [saver EXCEPT !.at = step]
IoError  == "io_error" \in Faults /\ Go("failed")
Flushed  == revision' = [revision EXCEPT ![saver.text] = "durable"]

-----------------------------------------------------------------------------
StartSave(s) ==
  /\ saver' = [IdleSaver EXCEPT !.at = "open", !.text = s]
  /\ UNCHANGED <<parents, revision, doubled>>

\* GuardedDirectory with create: only the call that makes a directory flushes
\* its parent.
OpenParents ==
  /\ At("open")
  /\ \/ Go("lookup") /\ parents' = IF parents = "absent" THEN "durable" ELSE parents
     \/ IoError /\ UNCHANGED parents
     \/ /\ parents = "absent" /\ "unflushed_ancestor" \in Faults
        /\ parents' = "created" /\ Go("failed")
  /\ UNCHANGED <<revision, doubled>>

AfterLookupTrusted == IF Present(saver.text) THEN "saved" ELSE "write"
AfterLookup == IF Present(saver.text) THEN "resync" ELSE "write"

Lookup ==
  /\ At("lookup")
  /\ Go(IF TwoLinks(saver.text) THEN "failed" ELSE AfterLookup)
  /\ UNCHANGED <<parents, revision, doubled>>

\* What is there may be what a failed save could not flush.
Resync ==
  /\ At("resync")
  /\ \/ Go("saved") /\ IF Present(saver.text) THEN Flushed ELSE UNCHANGED revision
     \/ IoError /\ UNCHANGED revision
  /\ UNCHANGED <<parents, doubled>>

\* The temporary file is written and flushed before it is linked.
WriteTemporary ==
  /\ At("write")
  /\ Go("link") \/ IoError
  /\ UNCHANGED <<parents, revision, doubled>>

\* Somebody else may have put the file there meanwhile; it is never replaced.  It
\* is read here and once more at the end, which CheckRevision stands for.
LinkRevision ==
  /\ At("link")
  /\ \/ /\ ~Present(saver.text)
        /\ revision' = [revision EXCEPT ![saver.text] = "linked"]
        /\ saver' = [saver EXCEPT !.at = "unlink", !.linked = TRUE]
     \/ Present(saver.text) /\ Go("unlink") /\ UNCHANGED revision
     \/ IoError /\ UNCHANGED revision
  /\ UNCHANGED <<parents, doubled>>

UnlinkTemporary ==
  /\ At("unlink")
  /\ \/ Go("sync") /\ UNCHANGED doubled
     \/ /\ IoError
        /\ doubled' = IF saver.linked THEN doubled \cup {saver.text} ELSE doubled
  /\ UNCHANGED <<parents, revision>>

SyncDirectory ==
  /\ At("sync")
  /\ \/ Go("check") /\ IF Present(saver.text) THEN Flushed ELSE UNCHANGED revision
     \/ IoError /\ UNCHANGED revision
  /\ UNCHANGED <<parents, doubled>>

CheckRevision ==
  /\ At("check")
  /\ Go(IF Readable(saver.text) THEN "saved" ELSE "failed")
  /\ UNCHANGED <<parents, revision, doubled>>

StoreStep == OpenParents \/ Lookup \/ Resync \/ WriteTemporary \/ LinkRevision
               \/ UnlinkTemporary \/ SyncDirectory \/ CheckRevision

-----------------------------------------------------------------------------
(* Other programs and failures                                              *)

\* Somebody removes a revision, or restores it from a backup.
Remove(s) ==
  /\ "lost_revision" \in Faults /\ Present(s)
  /\ revision' = [revision EXCEPT ![s] = "absent"]
  /\ doubled' = doubled \ {s}
  /\ saver' = IF saver.text = s THEN [saver EXCEPT !.linked = FALSE] ELSE saver
  /\ UNCHANGED parents

Restore(s) ==
  /\ "lost_revision" \in Faults /\ ~Present(s) /\ parents # "absent"
  /\ revision' = [revision EXCEPT ![s] = "linked"]
  /\ UNCHANGED <<parents, doubled, saver>>

\* Between link and unlink the process leaves both names.
KilledSave ==
  /\ doubled' = {s \in Managed : TwoLinks(s)}
  /\ saver' = IdleSaver
  /\ UNCHANGED <<parents, revision>>

\* Names that were not flushed may be gone, and the removal of a temporary one
\* undone.
PowerLostSave ==
  /\ \E gone \in SUBSET {s \in Managed : revision[s] = "linked" \/ parents = "created"} :
     \E twice \in SUBSET {s \in Managed \ gone : revision[s] = "linked"} :
       /\ revision' = [s \in Managed |->
            IF s \in gone \/ ~Present(s) THEN "absent" ELSE "durable"]
       /\ doubled' = ({s \in Managed : TwoLinks(s)} \cup twice) \ gone
       /\ parents' = IF parents = "created" /\ \A s \in Managed : revision'[s] = "absent"
                     THEN "absent" ELSE "durable"
  /\ saver' = IdleSaver
=============================================================================
