-------------------------- MODULE ConfigFlowProofs --------------------------
(* Proofs about ConfigFlow, for any rules, flows, sources and faults.        *)
EXTENDS ConfigFlow, TLAPS

-----------------------------------------------------------------------------
(* The inductive invariant                                                  *)

\* Every form after the source has a complete definition.
DataGiven ==
  \A f \in Flows : flow[f].at \notin {"closed", "edit_file"} => flow[f].data \in Definition

\* A flow reconfigures a rule or makes a new one.
OriginKnown ==
  \A f \in Flows :
    \/ flow[f].original \in Definition /\ flow[f].own \in Rules
    \/ flow[f].original = NotCreated /\ flow[f].own = NoRule

\* What Enter found out stands until the lock is released.
LockedUnique ==
  \A f \in Flows : flow[f].at \in LockedSaves => ~DuplicateTarget(f)

OriginalHeld ==
  \A f \in Flows : flow[f].at \in LockedSaves /\ flow[f].original \in Definition =>
    rules[flow[f].own] \in {flow[f].original, Removed}

\* What CheckChange found out stands as well.
ChangeHeld ==
  \A f \in Flows :
    /\ flow[f].at \in LockedSaves \ {"checking"}
    /\ flow[f].original \in Definition
    /\ flow[f].data.source # flow[f].original.source
    => ~Applied(flow[f].original)

IInv ==
  /\ TypeOK
  /\ DataGiven
  /\ OriginKnown
  /\ LockIsOwned
  /\ LockedUnique
  /\ OriginalHeld
  /\ ChangeHeld
  /\ OneRulePerTarget

-----------------------------------------------------------------------------
(* Types                                                                    *)

LEMMA ClosedIsState == Closed \in FlowStates
BY DEF Closed, FlowStates, Vacant

\* The store's steps keep its types.
LEMMA StoreTypes ==
  ASSUME StoreTypeOK,
         \/ StoreStep
         \/ \E s \in Managed : StartSave(s) \/ Remove(s) \/ Restore(s)
         \/ KilledSave \/ PowerLostSave
  PROVE  StoreTypeOK'
<1> USE DEF StoreTypeOK, SaverSteps, IdleSaver, Go, At, IoError, Flushed
<1>1. CASE StoreStep
  <2>1. CASE OpenParents
    BY <2>1 DEF OpenParents
  <2>2. CASE Lookup
    BY <2>2 DEF Lookup, AfterLookup
  <2>3. CASE Resync
    BY <2>3 DEF Resync
  <2>4. CASE WriteTemporary
    BY <2>4 DEF WriteTemporary
  <2>5. CASE LinkRevision
    BY <2>5 DEF LinkRevision
  <2>6. CASE UnlinkTemporary
    BY <2>6 DEF UnlinkTemporary
  <2>7. CASE SyncDirectory
    BY <2>7 DEF SyncDirectory
  <2>8. CASE CheckRevision
    BY <2>8 DEF CheckRevision
  <2> QED
    BY <1>1, <2>1, <2>2, <2>3, <2>4, <2>5, <2>6, <2>7, <2>8 DEF StoreStep
<1>2. CASE \E s \in Managed : StartSave(s) \/ Remove(s) \/ Restore(s)
  <2>1. PICK s \in Managed : StartSave(s) \/ Remove(s) \/ Restore(s)
    BY <1>2
  <2>2. CASE StartSave(s)
    BY <2>2 DEF StartSave
  <2>3. CASE Remove(s)
    BY <2>3 DEF Remove
  <2>4. CASE Restore(s)
    BY <2>4 DEF Restore
  <2> QED  BY <2>1, <2>2, <2>3, <2>4
<1>3. CASE KilledSave
  BY <1>3 DEF KilledSave
<1>4. CASE PowerLostSave
  <2>1. PICK gone \in SUBSET {s \in Managed : revision[s] = "linked" \/ parents = "created"} :
        \E twice \in SUBSET {s \in Managed \ gone : revision[s] = "linked"} :
       /\ revision' = [s \in Managed |->
            IF s \in gone \/ ~Present(s) THEN "absent" ELSE "durable"]
       /\ doubled' = ({s \in Managed : TwoLinks(s)} \cup twice) \ gone
    BY <1>4 DEF PowerLostSave
  <2>2. revision' \in [Managed -> {"absent", "linked", "durable"}]
    BY <2>1
  <2>3. doubled' \subseteq Managed
    BY <2>1
  <2>4. parents' \in {"absent", "created", "durable"} /\ saver' = IdleSaver
    BY <1>4 DEF PowerLostSave
  <2> QED  BY <2>2, <2>3, <2>4
<1> QED  BY <1>1, <1>2, <1>3, <1>4

\* A flow that only moves stays a flow.
LEMMA MovedIsState ==
  ASSUME flow \in [Flows -> FlowStates], NEW f \in Flows, NEW step,
         step \in {"closed"} \cup Forms \cup Saving, Move(f, step)
  PROVE  flow' \in [Flows -> FlowStates]
BY DEF Move, FlowStates

LEMMA RefusedIsState ==
  ASSUME flow \in [Flows -> FlowStates], NEW f \in Flows, Refused(f)
  PROVE  flow' \in [Flows -> FlowStates]
<1> DEFINE form == IF Editing(f) THEN "edit_file" ELSE "options"
<1>1. form \in {"closed"} \cup Forms \cup Saving
  BY DEF Forms
<1>2. Move(f, form)
  BY DEF Refused
<1> QED  BY <1>1, <1>2, MovedIsState

LEMMA ClosedFlowIsState ==
  ASSUME flow \in [Flows -> FlowStates], NEW f \in Flows, Close(f)
  PROVE  flow' \in [Flows -> FlowStates]
BY ClosedIsState DEF Close

LEMMA WrittenIsState ==
  ASSUME flow \in [Flows -> FlowStates], NEW t
  PROVE  Written(t) \in [Flows -> FlowStates]
BY DEF Written, FlowStates

Types == StoreTypeOK /\ FlowTypeOK

\* A step of a flow that leaves everything but flow and lock alone.
LEMMA FlowOnly ==
  ASSUME Types, flow' \in [Flows -> FlowStates], lock' \in Flows \cup {"free"},
         UNCHANGED <<storeState, rules, content, lost>>
  PROVE  Types'
BY DEF Types, StoreTypeOK, FlowTypeOK, storeState

\* A flow starts from a saved definition or from nothing.
LEMMA OriginIsState ==
  ASSUME FlowTypeOK, NEW new \in Origins
  PROVE  /\ new \in FlowStates
         /\ \/ new.original \in Definition /\ new.own \in Rules
            \/ new.original = NotCreated /\ new.own = NoRule
<1>1. rules \in [Rules -> Definition \cup Vacant]
  BY DEF FlowTypeOK
<1>2. CASE new = Closed
  BY <1>2, ClosedIsState DEF Closed
<1>3. ASSUME NEW r \in Rules, Saved(r),
             new = [Closed EXCEPT !.own = r, !.original = rules[r]]
      PROVE  /\ new \in FlowStates
             /\ new.original \in Definition /\ new.own \in Rules
  <2>1. new \in FlowStates
    BY <1>1, <1>3, ClosedIsState DEF FlowStates
  <2>2. new.original = rules[r] /\ new.own = r
    BY <1>3, ClosedIsState DEF FlowStates
  <2> QED  BY <1>3, <2>1, <2>2 DEF Saved
<1> QED  BY <1>2, <1>3 DEF Origins

\* The forms fill in a flow's own record.
LEMMA FormTypes ==
  ASSUME Types, DataGiven, NEW f \in Flows,
         ChooseSource(f) \/ ChooseFile(f) \/ Submission(f)
  PROVE  Types'
<1> USE FlowAssumption
<1>1. flow \in [Flows -> FlowStates] /\ lock \in Flows \cup {"free"}
  BY DEF Types, FlowTypeOK
<1>2. UNCHANGED <<storeState, rules, content, lock, lost>>
  BY DEF ChooseSource, ChooseFile, Submission, SubmitEdit, SubmitOptions, Confirm, Cancel
<1>3. flow' \in [Flows -> FlowStates]
  <2>1. CASE ChooseSource(f)
    <3>1. PICK new \in Origins, s \in Sources :
            flow' = [flow EXCEPT ![f] = [new EXCEPT !.at = "options",
                                               !.data = [source |-> s, auto |-> TRUE]]]
      BY <2>1 DEF ChooseSource
    <3>2. new \in FlowStates
      BY OriginIsState DEF Types
    <3> QED  BY <1>1, <3>1, <3>2 DEF FlowStates, Definition, Forms
  <2>2. CASE ChooseFile(f)
    <3>1. PICK t \in Targets :
            flow' = [flow EXCEPT ![f] = [Closed EXCEPT !.at = "edit_file", !.seen = t]]
      BY <2>2 DEF ChooseFile
    <3>2. [Closed EXCEPT !.at = "edit_file", !.seen = t] \in FlowStates
      BY ClosedIsState DEF FlowStates, Forms
    <3> QED  BY <1>1, <3>1, <3>2
  <2>3. CASE SubmitEdit(f)
    BY <1>1, <2>3, ClosedIsState DEF SubmitEdit, Close, FlowStates, Saving, Definition, Sources
  <2>4. CASE SubmitOptions(f)
    <3>1. flow[f].data \in Definition
      BY <2>4 DEF SubmitOptions, Is, DataGiven
    <3>2. PICK auto \in Autos, next \in {"confirm", "waiting"} :
            flow' = [flow EXCEPT ![f].at = next, ![f].data.auto = auto]
      BY <2>4 DEF SubmitOptions
    <3>3. flow[f] \in FlowStates /\ auto \in BOOLEAN
      BY <1>1
    <3>4. [flow[f].data EXCEPT !.auto = auto] \in Definition
      BY <3>1, <3>3 DEF Definition
    <3>5. [[flow[f] EXCEPT !.at = next] EXCEPT !.data = [flow[f].data EXCEPT !.auto = auto]]
            \in FlowStates
      BY <3>3, <3>4 DEF FlowStates, Forms, Saving
    <3>6. flow' = [flow EXCEPT ![f] =
            [[flow[f] EXCEPT !.at = next] EXCEPT !.data = [flow[f].data EXCEPT !.auto = auto]]]
      BY <1>1, <3>2, <3>3 DEF FlowStates
    <3> QED  BY <1>1, <3>5, <3>6
  <2>5. CASE Confirm(f)
    BY <1>1, <2>5, MovedIsState DEF Confirm, Saving
  <2>6. CASE Cancel(f)
    BY <1>1, <2>6, ClosedFlowIsState DEF Cancel
  <2> QED  BY <2>1, <2>2, <2>3, <2>4, <2>5, <2>6 DEF Submission
<1> QED  BY <1>1, <1>2, <1>3, FlowOnly

\* The steps of a save.
LEMMA SaveTypes ==
  ASSUME Types, DataGiven, OriginKnown, NEW f \in Flows, Enter(f) \/ SaveStep(f)
  PROVE  Types'
<1> USE FlowAssumption
<1>1. flow \in [Flows -> FlowStates] /\ lock \in Flows \cup {"free"}
  BY DEF Types, FlowTypeOK
<1>2. CASE Enter(f)
  <2>1. flow' \in [Flows -> FlowStates] /\ lock' \in Flows \cup {"free"}
    BY <1>1, <1>2, MovedIsState, RefusedIsState DEF Enter, Saving, Refused, Release
  <2> QED  BY <1>2, <2>1, FlowOnly DEF Enter
<1>3. CASE CheckChange(f)
  <2>1. flow' \in [Flows -> FlowStates] /\ lock' \in Flows \cup {"free"}
    BY <1>1, <1>3, MovedIsState, RefusedIsState DEF CheckChange, Saving, Refused, Release
  <2> QED  BY <1>3, <2>1, FlowOnly DEF CheckChange
<1>4. CASE VerifyTarget(f)
  <2>1. flow' \in [Flows -> FlowStates] /\ lock' \in Flows \cup {"free"}
    BY <1>1, <1>4, MovedIsState, ClosedFlowIsState DEF VerifyTarget, Saving, Release
  <2>2. StoreTypeOK'
    BY <1>4, StoreTypes DEF VerifyTarget, Types, StoreTypeOK, storeState
  <2> QED  BY <1>4, <2>1, <2>2 DEF VerifyTarget, Types, FlowTypeOK
<1>5. CASE Published(f)
  <2>1. flow' \in [Flows -> FlowStates] /\ lock' \in Flows \cup {"free"}
    BY <1>1, <1>5, MovedIsState, RefusedIsState DEF Published, Saving, Refused, Release
  <2>2. StoreTypeOK'
    BY <1>5 DEF Published, Types, StoreTypeOK, IdleSaver, SaverSteps
  <2> QED  BY <1>5, <2>1, <2>2 DEF Published, Types, FlowTypeOK
<1>6. CASE ReverifyTarget(f)
  <2>1. flow' \in [Flows -> FlowStates] /\ lock' \in Flows \cup {"free"}
    BY <1>1, <1>6, MovedIsState, ClosedFlowIsState DEF ReverifyTarget, Saving, Release
  <2> QED  BY <1>6, <2>1, FlowOnly DEF ReverifyTarget
<1>7. CASE Denied(f)
  BY <1>1, <1>7, RefusedIsState, FlowOnly DEF Denied, Refused, Release
<1>8. CASE Commit(f)
  <2>1. flow[f].data \in Definition
    BY <1>8 DEF Commit, Is, DataGiven
  <2>2. rules' \in [Rules -> Definition \cup Vacant]
    BY <1>8, <2>1 DEF Commit, Types, FlowTypeOK
  <2>3. flow' \in [Flows -> FlowStates] /\ lock' \in Flows \cup {"free"}
    BY <1>1, <1>8, ClosedFlowIsState DEF Commit, Release
  <2> QED  BY <1>8, <2>2, <2>3 DEF Commit, Types, StoreTypeOK, FlowTypeOK, storeState
<1> QED  BY <1>2, <1>3, <1>4, <1>5, <1>6, <1>7, <1>8 DEF SaveStep

\* The store, the runtime, users, other programs and crashes.
LEMMA OutsideTypes ==
  ASSUME Types,
         \/ StoreSteps \/ RuntimeStep
         \/ \E r \in Rules : Delete(r)
         \/ \E t \in Targets : OutsideWrite(t)
         \/ \E s \in Managed : LoseRevision(s) \/ RestoreRevision(s)
         \/ Crash
  PROVE  Types'
<1> USE FlowAssumption
<1>1. /\ flow \in [Flows -> FlowStates] /\ lock \in Flows \cup {"free"}
      /\ rules \in [Rules -> Definition \cup Vacant] /\ content \in [Targets -> Contents]
      /\ lost \subseteq Managed
  BY DEF Types, FlowTypeOK
<1>2. CASE StoreSteps
  BY <1>2, StoreTypes DEF StoreSteps, Types, FlowTypeOK
<1>3. ASSUME NEW r \in Rules, Apply(r)  PROVE Types'
  <2>1. content' \in [Targets -> Contents]
    BY <1>1, <1>3 DEF Apply, Contents, Saved, Definition
  <2> QED  BY <1>1, <1>3, <2>1, WrittenIsState DEF Apply, Types, StoreTypeOK, FlowTypeOK, storeState
<1>4. ASSUME NEW r \in Rules, Revert(r)  PROVE Types'
  <2>1. content' \in [Targets -> Contents] /\ rules' \in [Rules -> Definition \cup Vacant]
    BY <1>1, <1>4 DEF Revert, Contents, Saved, Definition
  <2> QED  BY <1>1, <1>4, <2>1, WrittenIsState DEF Revert, Types, StoreTypeOK, FlowTypeOK, storeState
<1>5. ASSUME NEW r \in Rules, Delete(r)  PROVE Types'
  BY <1>1, <1>5 DEF Delete, Vacant, Types, StoreTypeOK, FlowTypeOK, storeState
<1>6. ASSUME NEW t \in Targets, OutsideWrite(t)  PROVE Types'
  <2>1. content' \in [Targets -> Contents]
    BY <1>1, <1>6 DEF OutsideWrite, Contents
  <2> QED
    BY <1>1, <1>6, <2>1, WrittenIsState DEF OutsideWrite, Types, StoreTypeOK, FlowTypeOK, storeState
<1>7. ASSUME NEW s \in Managed, LoseRevision(s) \/ RestoreRevision(s)  PROVE Types'
  BY <1>1, <1>7, StoreTypes DEF LoseRevision, RestoreRevision, Types, FlowTypeOK
<1>8. CASE Crash
  BY <1>1, <1>8, StoreTypes, ClosedIsState DEF Crash, Types, FlowTypeOK
<1> QED  BY <1>2, <1>3, <1>4, <1>5, <1>6, <1>7, <1>8 DEF RuntimeStep

LEMMA TypeStep == ASSUME TypeOK, DataGiven, OriginKnown, [Next]_vars  PROVE TypeOK'
<1> USE FlowAssumption
<1>1. events' \in 0 .. MaxEvents
  BY DEF TypeOK, Next, vars
<1>2. Types'
  <2>1. CASE UNCHANGED vars
    BY <2>1 DEF TypeOK, Types, StoreTypeOK, FlowTypeOK, vars, storeState
  <2>2. CASE Next
    BY <2>2, FormTypes, SaveTypes, OutsideTypes DEF Next, Event, TypeOK, Types
  <2> QED  BY <2>1, <2>2
<1> QED  BY <1>1, <1>2 DEF TypeOK, Types
-----------------------------------------------------------------------------
(* What the steps of a flow do, in a form the invariants can use            *)

\* A form changes the flow's own record, outside the locked section.
LEMMA FormEffect ==
  ASSUME TypeOK, DataGiven, OriginKnown, NEW f \in Flows,
         ChooseSource(f) \/ ChooseFile(f) \/ Submission(f)
  PROVE  /\ UNCHANGED <<rules, content, lock>>
         /\ \A g \in Flows \ {f} : flow'[g] = flow[g]
         /\ flow[f].at \notin LockedSaves /\ flow'[f].at \notin LockedSaves
         /\ flow'[f].at \notin {"closed", "edit_file"} => flow'[f].data \in Definition
         /\ \/ flow'[f].original \in Definition /\ flow'[f].own \in Rules
            \/ flow'[f].original = NotCreated /\ flow'[f].own = NoRule
<1> USE FlowAssumption DEF LockedSaves
<1>1. /\ flow \in [Flows -> FlowStates]
      /\ rules \in [Rules -> Definition \cup Vacant]
  BY DEF TypeOK, FlowTypeOK
<1>2. CASE ChooseSource(f)
  <2>1. PICK new \in Origins, s \in Sources :
            flow' = [flow EXCEPT ![f] = [new EXCEPT !.at = "options",
                                               !.data = [source |-> s, auto |-> TRUE]]]
    BY <1>2 DEF ChooseSource
  <2>2. \/ new.original \in Definition /\ new.own \in Rules
        \/ new.original = NotCreated /\ new.own = NoRule
    BY OriginIsState DEF TypeOK
  <2>3. new \in FlowStates
    BY OriginIsState DEF TypeOK
  <2>4. /\ flow'[f].at = "options" /\ flow'[f].data = [source |-> s, auto |-> TRUE]
        /\ flow'[f].original = new.original /\ flow'[f].own = new.own
    BY <1>1, <2>1, <2>3 DEF FlowStates
  <2>5. \A g \in Flows \ {f} : flow'[g] = flow[g]
    BY <1>1, <2>1
  <2>6. flow'[f].data \in Definition
    BY <2>4 DEF Definition
  <2>7. UNCHANGED <<rules, content, lock>> /\ flow[f].at = "closed"
    BY <1>2 DEF ChooseSource, Is
  <2> QED  BY <2>2, <2>4, <2>5, <2>6, <2>7
<1>3. CASE ChooseFile(f)
  <2>1. PICK t \in Targets :
          flow' = [flow EXCEPT ![f] = [Closed EXCEPT !.at = "edit_file", !.seen = t]]
    BY <1>3 DEF ChooseFile
  <2>2. \A g \in Flows \ {f} : flow'[g] = flow[g]
    BY <2>1
  <2>3. flow'[f].at = "edit_file" /\ flow'[f].original = NotCreated /\ flow'[f].own = NoRule
    BY <1>1, <2>1 DEF Closed
  <2>4. UNCHANGED <<rules, content, lock>> /\ flow[f].at = "closed"
    BY <1>3 DEF ChooseFile, Is
  <2> QED  BY <2>2, <2>3, <2>4
<1>4. CASE SubmitEdit(f)
  <2>1. CASE Close(f)
    BY <1>1, <1>4, <2>1 DEF SubmitEdit, Is, Close, Closed
  <2>2. ASSUME NEW s \in Managed,
               flow' = [flow EXCEPT ![f].at = "waiting",
                                    ![f].data = [source |-> s, auto |-> TRUE]]
        PROVE  /\ flow'[f].at = "waiting" /\ flow'[f].data \in Definition
               /\ flow'[f].original = flow[f].original /\ flow'[f].own = flow[f].own
               /\ \A g \in Flows \ {f} : flow'[g] = flow[g]
    BY <1>1, <2>2 DEF FlowStates, Definition, Sources
  <2> QED  BY <1>4, <2>1, <2>2 DEF SubmitEdit, Is, OriginKnown
<1>5. CASE SubmitOptions(f)
  <2>1. PICK auto \in Autos, next \in {"confirm", "waiting"} :
            flow' = [flow EXCEPT ![f].at = next, ![f].data.auto = auto]
    BY <1>5 DEF SubmitOptions
  <2>2. flow[f].data \in Definition /\ flow[f] \in FlowStates /\ auto \in BOOLEAN
    BY <1>1, <1>5 DEF SubmitOptions, Is, DataGiven
  <2>3. [flow[f].data EXCEPT !.auto = auto] \in Definition
    BY <2>2 DEF Definition
  <2>4. /\ flow'[f].at = next /\ flow'[f].data = [flow[f].data EXCEPT !.auto = auto]
        /\ flow'[f].original = flow[f].original /\ flow'[f].own = flow[f].own
        /\ \A g \in Flows \ {f} : flow'[g] = flow[g]
    BY <1>1, <2>1, <2>2 DEF FlowStates
  <2> QED  BY <1>5, <2>3, <2>4 DEF SubmitOptions, Is, OriginKnown
<1>6. CASE Confirm(f)
  BY <1>1, <1>6 DEF Confirm, Is, Move, FlowStates, DataGiven, OriginKnown
<1>7. CASE Cancel(f)
  BY <1>1, <1>7 DEF Cancel, Close, Closed, Forms
<1> QED  BY <1>2, <1>3, <1>4, <1>5, <1>6, <1>7 DEF Submission

\* A step of a save goes on under the lock, or leaves it and the locked section.
LEMMA SaveEffect ==
  ASSUME TypeOK, DataGiven, OriginKnown, LockIsOwned, NEW f \in Flows,
         Enter(f) \/ SaveStep(f)
  PROVE  /\ content' = content
         /\ \A g \in Flows \ {f} : flow'[g] = flow[g] /\ flow[g].at \notin LockedSaves
         /\ \/ /\ flow'[f].at \in LockedSaves /\ lock' = f /\ rules' = rules
               /\ flow'[f].data = flow[f].data /\ flow[f].data \in Definition
               /\ flow'[f].original = flow[f].original /\ flow'[f].own = flow[f].own
               /\ \/ flow[f].at \in LockedSaves
                  \/ OriginalStands(f) /\ ~DuplicateTarget(f)
               /\ \/ flow[f].at \in LockedSaves \ {"checking"}
                  \/ flow'[f].at = "checking"
                  \/ ChangeAllowed(flow[f].original, flow[f].data.source)
            \/ /\ flow'[f].at \in {"edit_file", "options"} /\ lock' = "free"
               /\ flow'[f].data = flow[f].data /\ flow[f].data \in Definition
               /\ flow'[f].original = flow[f].original /\ flow'[f].own = flow[f].own
               /\ rules' = rules
            \/ /\ flow'[f] = Closed /\ lock' = "free"
               /\ rules' = rules \/ Commit(f)
<1> USE FlowAssumption DEF LockedSaves
<1>1. flow \in [Flows -> FlowStates]
  BY DEF TypeOK, FlowTypeOK
<1>2. flow[f].at \notin {"closed", "edit_file"} /\ flow[f].data \in Definition
  BY DEF SaveStep, Enter, CheckChange, VerifyTarget, Published, ReverifyTarget, Denied,
         Commit, Is, DataGiven
<1>3. lock \in {"free", f}
  BY DEF SaveStep, Enter, CheckChange, VerifyTarget, Published, ReverifyTarget, Denied,
         Commit, Is, LockIsOwned
<1>4. \A g \in Flows \ {f} : flow[g].at \notin LockedSaves
  BY <1>3 DEF LockIsOwned
<1>5. /\ content' = content
      /\ \A g \in Flows \ {f} : flow'[g] = flow[g]
  BY <1>1 DEF SaveStep, Enter, CheckChange, VerifyTarget, Published, ReverifyTarget, Denied,
         Commit, Move, Close, Refused
<1>6. ASSUME NEW step, Move(f, step)
      PROVE  /\ flow'[f].at = step /\ flow'[f].data = flow[f].data
             /\ flow'[f].original = flow[f].original /\ flow'[f].own = flow[f].own
  BY <1>1, <1>6 DEF Move, FlowStates
<1>7. ASSUME Refused(f)
      PROVE  /\ flow'[f].at \in {"edit_file", "options"} /\ lock' = "free"
             /\ flow'[f].data = flow[f].data
             /\ flow'[f].original = flow[f].original /\ flow'[f].own = flow[f].own
  BY <1>6, <1>7 DEF Refused, Release
<1>8. Close(f) => flow'[f] = Closed
  BY <1>1 DEF Close
<1>9. flow[f].at \in LockedSaves => lock = f
  BY DEF LockIsOwned
<1>10. CASE Enter(f)
  BY <1>2, <1>4, <1>5, <1>6, <1>7, <1>10 DEF Enter
<1>11. CASE CheckChange(f)
  BY <1>2, <1>4, <1>5, <1>6, <1>7, <1>9, <1>11 DEF CheckChange, Is
<1>12. CASE VerifyTarget(f)
  BY <1>2, <1>4, <1>5, <1>6, <1>8, <1>9, <1>12 DEF VerifyTarget, Is, Release
<1>13. CASE Published(f)
  BY <1>2, <1>4, <1>5, <1>6, <1>7, <1>9, <1>13 DEF Published, Is
<1>14. CASE ReverifyTarget(f)
  BY <1>2, <1>4, <1>5, <1>6, <1>8, <1>9, <1>14 DEF ReverifyTarget, Is, Release
<1>15. CASE Denied(f)
  BY <1>2, <1>4, <1>5, <1>7, <1>15 DEF Denied
<1>16. CASE Commit(f)
  BY <1>2, <1>4, <1>5, <1>8, <1>16 DEF Commit, Release
<1> QED  BY <1>10, <1>11, <1>12, <1>13, <1>14, <1>15, <1>16 DEF SaveStep
-----------------------------------------------------------------------------
(* Preservation                                                             *)

Held == /\ DataGiven /\ OriginKnown /\ LockIsOwned /\ LockedUnique
        /\ OriginalHeld /\ ChangeHeld /\ OneRulePerTarget

\* The unlocked part of a flow is nobody else's concern.
LEMMA FormHeld ==
  ASSUME IInv, NEW f \in Flows, ChooseSource(f) \/ ChooseFile(f) \/ Submission(f)
  PROVE  Held'
<1>1. /\ UNCHANGED <<rules, content, lock>>
      /\ \A g \in Flows \ {f} : flow'[g] = flow[g]
      /\ flow[f].at \notin LockedSaves /\ flow'[f].at \notin LockedSaves
      /\ flow'[f].at \notin {"closed", "edit_file"} => flow'[f].data \in Definition
      /\ \/ flow'[f].original \in Definition /\ flow'[f].own \in Rules
         \/ flow'[f].original = NotCreated /\ flow'[f].own = NoRule
  BY FormEffect DEF IInv
<1>2. DataGiven' /\ OriginKnown'
  BY <1>1 DEF IInv, DataGiven, OriginKnown
<1>3. LockIsOwned'
  BY <1>1 DEF IInv, LockIsOwned
<1>4. \A g \in Flows : flow'[g].at \in LockedSaves => flow'[g] = flow[g]
  BY <1>1
<1>5. LockedUnique' /\ OriginalHeld' /\ ChangeHeld'
  BY <1>1, <1>4 DEF IInv, LockedUnique, OriginalHeld, ChangeHeld, DuplicateTarget,
       Saved, Applied, Target
<1>6. OneRulePerTarget'
  BY <1>1 DEF IInv, OneRulePerTarget, Saved, Target
<1> QED  BY <1>2, <1>3, <1>5, <1>6 DEF Held

\* A rule that is put on a target no other rule has leaves targets distinct.
LEMMA PutKeepsTargets ==
  ASSUME OneRulePerTarget, rules \in [Rules -> Definition \cup Vacant],
         NEW r \in Rules, NEW d, rules' = [rules EXCEPT ![r] = d],
         \A q \in Rules \ {r} : Saved(q) => Target(rules[q]) # Target(d)
  PROVE  OneRulePerTarget'
<1>1. rules'[r] = d /\ \A q \in Rules \ {r} : rules'[q] = rules[q]
  OBVIOUS
<1> QED  BY <1>1 DEF OneRulePerTarget, Saved, Target

\* What is found out under the lock stands until it is left, and makes what is
\* saved a rule on its own target.
LEMMA SaveHeld ==
  ASSUME IInv, NEW f \in Flows, Enter(f) \/ SaveStep(f)
  PROVE  Held'
<1> USE FlowAssumption
<1> DEFINE Others == \A g \in Flows \ {f} : flow'[g] = flow[g] /\ flow[g].at \notin LockedSaves
<1>1. content' = content /\ Others
  BY SaveEffect DEF IInv
<1>2. rules \in [Rules -> Definition \cup Vacant]
  BY DEF IInv, TypeOK, FlowTypeOK
<1>3. ASSUME flow'[f].at \in LockedSaves, lock' = f, rules' = rules,
             flow'[f].data = flow[f].data, flow[f].data \in Definition,
             flow'[f].original = flow[f].original, flow'[f].own = flow[f].own,
             \/ flow[f].at \in LockedSaves
             \/ OriginalStands(f) /\ ~DuplicateTarget(f),
             \/ flow[f].at \in LockedSaves \ {"checking"}
             \/ flow'[f].at = "checking"
             \/ ChangeAllowed(flow[f].original, flow[f].data.source)
      PROVE  Held'
  <2>1. DataGiven' /\ OriginKnown'
    BY <1>1, <1>3 DEF IInv, DataGiven, OriginKnown
  <2>2. LockIsOwned'
    BY <1>1, <1>3 DEF LockIsOwned
  <2>3. LockedUnique'
    BY <1>1, <1>3 DEF IInv, LockedUnique, DuplicateTarget, Saved, Target
  <2>4. OriginalHeld'
    BY <1>1, <1>3 DEF IInv, OriginalHeld, OriginalStands
  <2>5. ChangeHeld'
    BY <1>1, <1>3 DEF IInv, ChangeHeld, ChangeAllowed, Applied, Target, LockedSaves
  <2>6. OneRulePerTarget'
    BY <1>3 DEF IInv, OneRulePerTarget, Saved, Target
  <2> QED  BY <2>1, <2>2, <2>3, <2>4, <2>5, <2>6 DEF Held
<1>4. ASSUME flow'[f].at \notin LockedSaves, lock' = "free",
             flow'[f].at \in {"closed", "edit_file"} \/ flow'[f].data \in Definition,
             \/ flow'[f].original \in Definition /\ flow'[f].own \in Rules
             \/ flow'[f].original = NotCreated /\ flow'[f].own = NoRule,
             rules' = rules \/ Commit(f)
      PROVE  Held'
  <2>1. DataGiven' /\ OriginKnown'
    BY <1>1, <1>4 DEF IInv, DataGiven, OriginKnown
  <2>2. LockIsOwned'
    BY <1>1, <1>4 DEF LockIsOwned
  <2>3. \A g \in Flows : flow'[g].at \notin LockedSaves
    BY <1>1, <1>4
  <2>4. LockedUnique' /\ OriginalHeld' /\ ChangeHeld'
    BY <2>3 DEF LockedUnique, OriginalHeld, ChangeHeld
  <2>5. CASE rules' = rules
    BY <2>1, <2>2, <2>4, <2>5 DEF Held, IInv, OneRulePerTarget, Saved, Target
  <2>6. CASE Commit(f)
    <3>1. ~DuplicateTarget(f)
      BY <2>6 DEF IInv, LockedUnique, Commit, Is, LockedSaves
    <3>2. CASE rules' = rules
      BY <2>5, <3>2
    <3>3. OneRulePerTarget'
      <4>1. CASE flow[f].original \in Definition
        <5>1. flow[f].own \in Rules
          BY <4>1 DEF IInv, OriginKnown, Vacant
        <5>2. \/ rules' = rules
              \/ rules' = [rules EXCEPT ![flow[f].own] = flow[f].data]
          BY <2>6, <4>1 DEF Commit
        <5>3. CASE rules' = rules
          BY <3>2, <5>3 DEF Held
        <5>4. CASE rules' = [rules EXCEPT ![flow[f].own] = flow[f].data]
          <6>1. \A q \in Rules \ {flow[f].own} :
                  Saved(q) => Target(rules[q]) # Target(flow[f].data)
            BY <3>1 DEF DuplicateTarget
          <6> QED  BY <1>2, <5>1, <5>4, <6>1, PutKeepsTargets DEF IInv
        <5> QED  BY <5>2, <5>3, <5>4
      <4>2. CASE flow[f].original \notin Definition
        <5>1. PICK r \in Rules : rules' = [rules EXCEPT ![r] = flow[f].data]
          BY <2>6, <4>2 DEF Commit
        <5>2. flow[f].own = NoRule
          BY <4>2 DEF IInv, OriginKnown
        <5>3. \A q \in Rules : Saved(q) => Target(rules[q]) # Target(flow[f].data)
          BY <3>1, <5>2 DEF DuplicateTarget
        <5> QED  BY <1>2, <5>1, <5>3, PutKeepsTargets DEF IInv
      <4> QED  BY <4>1, <4>2
    <3> QED  BY <2>1, <2>2, <2>4, <3>3 DEF Held
  <2> QED  BY <1>4, <2>5, <2>6
<1>5. /\ Closed.at = "closed" /\ Closed.original = NotCreated /\ Closed.own = NoRule
      /\ "closed" \notin LockedSaves /\ "edit_file" \notin LockedSaves
      /\ "options" \notin LockedSaves
  BY DEF Closed, LockedSaves
<1>6. \/ flow[f].original \in Definition /\ flow[f].own \in Rules
      \/ flow[f].original = NotCreated /\ flow[f].own = NoRule
  BY DEF IInv, OriginKnown
<1> QED
  BY <1>3, <1>4, <1>5, <1>6, SaveEffect DEF IInv

\* The runtime needs the lock, deletions and other programs do not disturb what
\* a save relies on.
LEMMA OutsideHeld ==
  ASSUME IInv,
         \/ StoreSteps \/ RuntimeStep
         \/ \E r \in Rules : Delete(r)
         \/ \E t \in Targets : OutsideWrite(t)
         \/ \E s \in Managed : LoseRevision(s) \/ RestoreRevision(s)
         \/ Crash
  PROVE  Held'
<1> USE FlowAssumption
<1>1. /\ flow \in [Flows -> FlowStates]
      /\ rules \in [Rules -> Definition \cup Vacant] /\ content \in [Targets -> Contents]
  BY DEF IInv, TypeOK, FlowTypeOK
<1>2. ASSUME NEW t, flow' = Written(t)
      PROVE  \A g \in Flows : /\ flow'[g].at = flow[g].at /\ flow'[g].own = flow[g].own
                              /\ flow'[g].original = flow[g].original
                              /\ flow'[g].data = flow[g].data
  BY <1>1, <1>2 DEF Written, FlowStates
<1>3. ASSUME UNCHANGED <<rules, content, flow, lock>>  PROVE Held'
  BY <1>3 DEF IInv, Held, DataGiven, OriginKnown, LockIsOwned, LockedUnique, OriginalHeld,
       ChangeHeld, OneRulePerTarget, DuplicateTarget, Saved, Target, Applied
<1>4. ASSUME NEW t, flow' = Written(t), lock = "free", lock' = lock, OneRulePerTarget'
      PROVE  Held'
  <2>1. DataGiven' /\ OriginKnown' /\ LockIsOwned'
    BY <1>2, <1>4 DEF IInv, DataGiven, OriginKnown, LockIsOwned
  <2>2. \A g \in Flows : flow'[g].at \notin LockedSaves
    BY <1>2, <1>4 DEF IInv, LockIsOwned
  <2> QED  BY <1>4, <2>1, <2>2 DEF Held, LockedUnique, OriginalHeld, ChangeHeld
<1>5. ASSUME NEW r \in Rules, Apply(r)  PROVE Held'
  <2>1. OneRulePerTarget'
    BY <1>5 DEF Apply, IInv, OneRulePerTarget, Saved, Target
  <2> QED  BY <1>4, <1>5, <2>1 DEF Apply
<1>6. ASSUME NEW r \in Rules, Revert(r)  PROVE Held'
  <2>1. \A q \in Rules : (rules'[q] \in Definition => rules[q] \in Definition)
                           /\ rules'[q].source = rules[q].source
    BY <1>1, <1>6 DEF Revert, Saved, Definition
  <2>2. OneRulePerTarget'
    BY <2>1 DEF IInv, OneRulePerTarget, Saved, Target
  <2> QED  BY <1>4, <1>6, <2>2 DEF Revert
<1>7. ASSUME NEW r \in Rules, Delete(r)  PROVE Held'
  <2>1. /\ rules'[r] = Removed /\ Removed \notin Definition
        /\ \A q \in Rules \ {r} : rules'[q] = rules[q]
        /\ UNCHANGED <<content, flow, lock>>
    BY <1>1, <1>7 DEF Delete, Vacant
  <2>2. DataGiven' /\ OriginKnown' /\ LockIsOwned' /\ ChangeHeld'
    BY <2>1 DEF IInv, DataGiven, OriginKnown, LockIsOwned, ChangeHeld, Applied, Target
  <2>3. LockedUnique' /\ OneRulePerTarget'
    BY <2>1 DEF IInv, LockedUnique, OneRulePerTarget, DuplicateTarget, Saved, Target
  <2>4. OriginalHeld'
    <3>1. \A g \in Flows : flow[g].original \in Definition => flow[g].own \in Rules
      BY DEF IInv, OriginKnown, Vacant
    <3> QED  BY <2>1, <3>1 DEF IInv, OriginalHeld
  <2> QED  BY <2>2, <2>3, <2>4 DEF Held
<1>8. ASSUME NEW t \in Targets, OutsideWrite(t)  PROVE Held'
  <2>1. DataGiven' /\ OriginKnown' /\ LockIsOwned'
    BY <1>2, <1>8 DEF OutsideWrite, IInv, DataGiven, OriginKnown, LockIsOwned
  <2>2. LockedUnique' /\ OriginalHeld' /\ OneRulePerTarget'
    BY <1>2, <1>8 DEF OutsideWrite, IInv, LockedUnique, OriginalHeld, OneRulePerTarget,
         DuplicateTarget, Saved, Target
  <2>3. ASSUME NEW d \in Definition, ~Applied(d)  PROVE ~Applied(d)'
    BY <1>1, <1>8, <2>3 DEF OutsideWrite, Applied, Target, Definition
  <2>4. ChangeHeld'
    BY <1>2, <1>8, <2>3 DEF OutsideWrite, IInv, ChangeHeld
  <2> QED  BY <2>1, <2>2, <2>4 DEF Held
<1>9. CASE Crash
  <2>1. \A g \in Flows : /\ flow'[g].at = "closed" /\ flow'[g].original = NotCreated
                         /\ flow'[g].own = NoRule
    BY <1>9 DEF Crash, Closed
  <2>2. lock' = "free" /\ UNCHANGED <<rules, content>>
    BY <1>9 DEF Crash
  <2>3. DataGiven' /\ OriginKnown' /\ LockIsOwned'
    BY <2>1, <2>2 DEF DataGiven, OriginKnown, LockIsOwned, LockedSaves
  <2>4. LockedUnique' /\ OriginalHeld' /\ ChangeHeld'
    BY <2>1 DEF LockedUnique, OriginalHeld, ChangeHeld, LockedSaves
  <2>5. OneRulePerTarget'
    BY <2>2 DEF IInv, OneRulePerTarget, Saved, Target
  <2> QED  BY <2>3, <2>4, <2>5 DEF Held
<1> QED
  BY <1>3, <1>5, <1>6, <1>7, <1>8, <1>9
     DEF StoreSteps, RuntimeStep, LoseRevision, RestoreRevision

LEMMA InitHeld == Init => IInv
<1> SUFFICES ASSUME Init  PROVE IInv
  OBVIOUS
<1> USE FlowAssumption, ClosedIsState
<1>1. TypeOK
  <2>1. StoreTypeOK
    BY DEF Init, StoreInit, StoreTypeOK, IdleSaver, SaverSteps
  <2>2. flow \in [Flows -> FlowStates] /\ content \in [Targets -> Contents]
    BY DEF Init, Contents
  <2> QED  BY <2>1, <2>2 DEF Init, TypeOK, FlowTypeOK, Vacant
<1>2. \A f \in Flows : /\ flow[f].at = "closed" /\ flow[f].original = NotCreated
                       /\ flow[f].own = NoRule
  BY DEF Init, Closed
<1>3. DataGiven /\ OriginKnown /\ LockIsOwned
  BY <1>2 DEF Init, DataGiven, OriginKnown, LockIsOwned, LockedSaves
<1>4. LockedUnique /\ OriginalHeld /\ ChangeHeld
  BY <1>2 DEF LockedUnique, OriginalHeld, ChangeHeld, LockedSaves
<1>5. OneRulePerTarget
  BY DEF Init, OneRulePerTarget, Saved
<1> QED  BY <1>1, <1>3, <1>4, <1>5 DEF IInv

LEMMA StepHeld == IInv /\ [Next]_vars => IInv'
<1> SUFFICES ASSUME IInv, [Next]_vars  PROVE IInv'
  OBVIOUS
<1>1. TypeOK'
  BY TypeStep DEF IInv
<1>2. CASE Next
  BY <1>1, <1>2, FormHeld, SaveHeld, OutsideHeld DEF Next, Event, IInv, Held
<1>3. CASE UNCHANGED vars
  BY <1>1, <1>3 DEF vars, IInv, DataGiven, OriginKnown, LockIsOwned, LockedUnique,
       OriginalHeld, ChangeHeld, OneRulePerTarget, DuplicateTarget, Saved, Target, Applied
<1> QED  BY <1>2, <1>3

\* The inductive invariant holds of every behaviour.
THEOREM FlowInvariance == Spec => []IInv
BY InitHeld, StepHeld, PTL DEF Spec

\* Every variable keeps its type.
THEOREM FlowTypeCorrect == Spec => []TypeOK
<1>1. IInv => TypeOK
  BY DEF IInv
<1> QED  BY <1>1, FlowInvariance, PTL

\* However many flows there are and however a save ends, the operation lock is
\* held exactly by the save that works under it.
THEOREM LockOwnership == Spec => []LockIsOwned
<1>1. IInv => LockIsOwned
  BY DEF IInv
<1> QED  BY <1>1, FlowInvariance, PTL

\* Concurrent flows never leave two rules on one target.
THEOREM UniqueTargets == Spec => []OneRulePerTarget
<1>1. IInv => OneRulePerTarget
  BY DEF IInv
<1> QED  BY <1>1, FlowInvariance, PTL

-----------------------------------------------------------------------------
(* Action properties                                                        *)

\* A flow's commit is the step of the save that holds the lock.
LEMMA CommitOfSave ==
  ASSUME IInv, [Next]_vars, NEW r \in Rules, rules'[r] # rules[r],
         rules'[r] \in Definition
  PROVE  \/ \E f \in Flows : Commit(f)
         \/ /\ rules[r] \in Definition /\ rules'[r].source = rules[r].source
            /\ lock = "free"
<1> USE FlowAssumption
<1>1. rules \in [Rules -> Definition \cup Vacant]
  BY DEF IInv, TypeOK, FlowTypeOK
<1>2. ASSUME NEW q \in Rules, Revert(q)
      PROVE  /\ rules[r] \in Definition /\ rules'[r].source = rules[r].source
             /\ lock = "free"
  BY <1>1, <1>2 DEF Revert, Saved, Definition
<1>3. ASSUME NEW q \in Rules, Delete(q)  PROVE FALSE
  BY <1>1, <1>3 DEF Delete, Vacant
<1>4. CASE UNCHANGED rules
  BY <1>4
<1> QED
  BY <1>2, <1>3, <1>4 DEF Next, Event, vars, Submission, SubmitEdit, SubmitOptions, Confirm,
     Cancel, ChooseSource, ChooseFile, Enter, SaveStep, CheckChange, VerifyTarget, Published,
     ReverifyTarget, Denied, StoreSteps, RuntimeStep, Apply, OutsideWrite, LoseRevision,
     RestoreRevision, Crash

\* It replaces the definition its forms were filled with, or makes a rule.
LEMMA CommitReplaces ==
  ASSUME IInv, NEW f \in Flows, Commit(f), NEW r \in Rules, rules'[r] # rules[r]
  PROVE  /\ rules[r] = flow[f].original /\ rules'[r] = flow[f].data
         /\ Saved(r) => flow[f].original \in Definition
<1> USE FlowAssumption
<1>1. /\ rules \in [Rules -> Definition \cup Vacant]
      /\ flow[f].at \in LockedSaves
  BY DEF IInv, TypeOK, FlowTypeOK, Commit, Is, LockedSaves
<1>2. CASE flow[f].original \in Definition
  <2>1. rules[flow[f].own] \in {flow[f].original, Removed} /\ flow[f].own \in Rules
    BY <1>1, <1>2 DEF IInv, OriginalHeld, OriginKnown, Vacant
  <2>2. /\ Saved(flow[f].own)
        /\ rules' = [rules EXCEPT ![flow[f].own] = flow[f].data]
    BY <1>2 DEF Commit
  <2>3. r = flow[f].own /\ rules'[r] = flow[f].data
    BY <1>1, <2>1, <2>2
  <2> QED  BY <1>2, <2>1, <2>2, <2>3 DEF Saved, Vacant
<1>3. CASE flow[f].original \notin Definition
  <2>1. flow[f].original = NotCreated
    BY <1>3 DEF IInv, OriginKnown
  <2>2. PICK q \in Rules : rules[q] = NotCreated /\ rules' = [rules EXCEPT ![q] = flow[f].data]
    BY <1>3 DEF Commit
  <2>3. r = q /\ rules'[r] = flow[f].data
    BY <1>1, <2>2
  <2> QED  BY <2>1, <2>2, <2>3 DEF Saved, Vacant
<1> QED  BY <1>2, <1>3

\* What a flow saves replaces nothing its forms did not show, whatever the
\* runtime, other flows and deletions do between the form and the commit.
THEOREM NothingLost == Spec => NoLostUpdate
<1>1. ASSUME IInv, [Next]_vars, NEW r \in Rules, NEW f \in Flows,
             Is(f, "committing"), rules'[r] # rules[r], rules'[r] \in Definition
      PROVE  rules[r] = flow[f].original
  <2>1. lock = f /\ f # "free"
    BY <1>1, FlowAssumption DEF IInv, LockIsOwned, Is, LockedSaves
  <2>2. PICK g \in Flows : Commit(g)
    BY <1>1, <2>1, CommitOfSave
  <2>3. lock = g
    BY <1>1, <2>2 DEF IInv, LockIsOwned, Commit, Is, LockedSaves
  <2> QED  BY <1>1, <2>1, <2>2, <2>3, CommitReplaces
<1>2. IInv /\ [Next]_vars =>
        [\A r \in Rules, f \in Flows :
           Is(f, "committing") /\ flow'[f] = Closed /\ rules'[r] # rules[r]
             /\ rules'[r] \in Definition => rules[r] = flow[f].original]_vars
  BY <1>1
<1> QED  BY <1>2, FlowInvariance, PTL DEF Spec, NoLostUpdate

\* No flow takes the rule of an applied patch away from it: between the check
\* and the commit nobody applies the old patch again.
THEOREM PatchKept == Spec => PatchKeepsItsRule
<1>1. ASSUME IInv, [Next]_vars, NEW r \in Rules, Saved(r), rules'[r] \in Definition,
             rules'[r].source # rules[r].source
      PROVE  ~Applied(rules[r])
  <2>1. PICK f \in Flows : Commit(f)
    BY <1>1, CommitOfSave
  <2>2. /\ rules[r] = flow[f].original /\ rules'[r] = flow[f].data
        /\ flow[f].original \in Definition
    BY <1>1, <2>1, CommitReplaces
  <2>3. flow[f].at \in LockedSaves \ {"checking"}
    BY <2>1 DEF Commit, Is, LockedSaves
  <2> QED  BY <1>1, <2>2, <2>3 DEF IInv, ChangeHeld
<1>2. IInv /\ [Next]_vars =>
        [\A r \in Rules :
           Saved(r) /\ rules'[r] \in Definition /\ rules'[r].source # rules[r].source =>
             ~Applied(rules[r])]_vars
  BY <1>1
<1> QED  BY <1>2, FlowInvariance, PTL DEF Spec, PatchKeepsItsRule
-----------------------------------------------------------------------------
(* Edits are saved for the bytes that were shown                            *)

\* A flow w that edits a file holds a diff against its plain bytes, unless the
\* file was written since, and does not come to its commit then.
EditOf(w, files) ==
  /\ w.at \in {"options", "confirm"} => w.seen = NoTarget
  /\ w.seen # NoTarget /\ w.at \in Saving /\ ~w.stale => files[w.seen] = "plain"
  /\ w.seen # NoTarget /\ w.at = "committing" => ~w.stale

EditKept == \A f \in Flows : EditOf(flow[f], content)

\* Only the form of the editor takes an edit to be saved.
LEMMA FormEdit ==
  ASSUME IInv, EditKept, NEW f \in Flows,
         ChooseSource(f) \/ ChooseFile(f) \/ Submission(f)
  PROVE  EditKept'
<1> USE FlowAssumption
<1>1. flow \in [Flows -> FlowStates]
  BY DEF IInv, TypeOK, FlowTypeOK
<1>2. content' = content /\ \A g \in Flows \ {f} : flow'[g] = flow[g]
  BY FormEffect DEF IInv
<1>3. EditOf(flow'[f], content)
  <2>1. CASE ChooseSource(f)
    <3>1. PICK new \in Origins, s \in Sources :
            flow' = [flow EXCEPT ![f] = [new EXCEPT !.at = "options",
                                               !.data = [source |-> s, auto |-> TRUE]]]
      BY <2>1 DEF ChooseSource
    <3>2. new \in FlowStates
      BY OriginIsState DEF IInv, TypeOK
    <3>3. new.seen = NoTarget
      <4>1. CASE new = Closed
        BY <4>1 DEF Closed
      <4>2. ASSUME NEW r \in Rules, new = [Closed EXCEPT !.own = r, !.original = rules[r]]
            PROVE  new.seen = NoTarget
        BY <4>2 DEF Closed
      <4> QED  BY <4>1, <4>2 DEF Origins
    <3>4. flow'[f].at = "options" /\ flow'[f].seen = NoTarget
      BY <1>1, <3>1, <3>2, <3>3 DEF FlowStates
    <3> QED  BY <3>4 DEF EditOf
  <2>2. CASE ChooseFile(f)
    <3>1. PICK t \in Targets :
            flow' = [flow EXCEPT ![f] = [Closed EXCEPT !.at = "edit_file", !.seen = t]]
      BY <2>2 DEF ChooseFile
    <3>2. flow'[f].at = "edit_file"
      BY <1>1, <3>1, ClosedIsState DEF FlowStates
    <3> QED  BY <3>2 DEF EditOf, Saving
  <2>3. CASE SubmitEdit(f)
    <3>1. CASE Close(f)
      BY <1>1, <3>1 DEF Close, Closed, EditOf
    <3>2. ASSUME NEW s \in Managed, content[flow[f].seen] = "plain",
                 flow' = [flow EXCEPT ![f].at = "waiting",
                                      ![f].data = [source |-> s, auto |-> TRUE]]
          PROVE  EditOf(flow'[f], content)
      <4>1. flow'[f].at = "waiting" /\ flow'[f].seen = flow[f].seen
        BY <1>1, <3>2 DEF FlowStates
      <4> QED  BY <3>2, <4>1 DEF EditOf
    <3> QED  BY <2>3, <3>1, <3>2 DEF SubmitEdit
  <2>4. CASE SubmitOptions(f)
    <3>1. PICK auto \in Autos, next \in {"confirm", "waiting"} :
            flow' = [flow EXCEPT ![f].at = next, ![f].data.auto = auto]
      BY <2>4 DEF SubmitOptions
    <3>2. flow[f].seen = NoTarget
      BY <2>4 DEF SubmitOptions, Is, EditKept, EditOf
    <3>3. flow'[f].seen = flow[f].seen
      BY <1>1, <3>1 DEF FlowStates
    <3> QED  BY <3>2, <3>3 DEF EditOf
  <2>5. CASE Confirm(f)
    <3>1. flow[f].seen = NoTarget
      BY <2>5 DEF Confirm, Is, EditKept, EditOf
    <3>2. flow'[f].seen = flow[f].seen
      BY <1>1, <2>5 DEF Confirm, Move, FlowStates
    <3> QED  BY <3>1, <3>2 DEF EditOf
  <2>6. CASE Cancel(f)
    BY <1>1, <2>6 DEF Cancel, Close, Closed, EditOf
  <2> QED  BY <2>1, <2>2, <2>3, <2>4, <2>5, <2>6 DEF Submission
<1> QED  BY <1>2, <1>3 DEF EditKept

\* A save carries its edit to the next step, and to the commit only unwritten.
LEMMA SaveEdit ==
  ASSUME IInv, EditKept, NEW f \in Flows, Enter(f) \/ SaveStep(f)
  PROVE  EditKept'
<1>1. flow \in [Flows -> FlowStates]
  BY DEF IInv, TypeOK, FlowTypeOK
<1>2. content' = content /\ \A g \in Flows \ {f} : flow'[g] = flow[g]
  BY SaveEffect DEF IInv
<1> SUFFICES EditOf(flow'[f], content)
  BY <1>2 DEF EditKept
<1>3. Close(f) => EditOf(flow'[f], content)
  BY <1>1 DEF Close, Closed, EditOf
<1>4. ASSUME NEW step, Move(f, step)
      PROVE  flow'[f].at = step /\ flow'[f].seen = flow[f].seen
             /\ flow'[f].stale = flow[f].stale
  BY <1>1, <1>4 DEF Move, FlowStates
<1>5. Refused(f) => EditOf(flow'[f], content)
  BY <1>4 DEF Refused, Editing, EditOf, Saving
<1>6. ASSUME NEW step \in Saving, Move(f, step), flow[f].at \in Saving,
             step = "committing" => TargetStands(f)
      PROVE  EditOf(flow'[f], content)
  BY <1>4, <1>6 DEF EditKept, EditOf, TargetStands, Editing, Saving
<1>7. CASE Enter(f)
  BY <1>5, <1>6, <1>7 DEF Enter, Is, Saving
<1>8. CASE CheckChange(f)
  BY <1>5, <1>6, <1>8 DEF CheckChange, Is, Saving
<1>9. CASE VerifyTarget(f)
  BY <1>3, <1>6, <1>9 DEF VerifyTarget, Is, Saving
<1>10. CASE Published(f)
  BY <1>5, <1>6, <1>10 DEF Published, Is, Saving
<1>11. CASE ReverifyTarget(f)
  BY <1>3, <1>6, <1>11 DEF ReverifyTarget, Is, Saving
<1>12. CASE Denied(f) \/ Commit(f)
  BY <1>3, <1>5, <1>12 DEF Denied, Commit
<1> QED  BY <1>7, <1>8, <1>9, <1>10, <1>11, <1>12 DEF SaveStep

\* A write marks every edit of its file; while one is committed the runtime
\* waits for the lock, and nothing else writes the file.
LEMMA OutsideEdit ==
  ASSUME IInv, EditKept, "no_quiescence" \notin Faults,
         \/ StoreSteps \/ RuntimeStep
         \/ \E r \in Rules : Delete(r)
         \/ \E t \in Targets : OutsideWrite(t)
         \/ \E s \in Managed : LoseRevision(s) \/ RestoreRevision(s)
         \/ Crash
  PROVE  EditKept'
<1> USE FlowAssumption
<1>1. flow \in [Flows -> FlowStates] /\ content \in [Targets -> Contents]
  BY DEF IInv, TypeOK, FlowTypeOK
<1>2. ASSUME UNCHANGED <<content, flow>>  PROVE EditKept'
  BY <1>2 DEF EditKept
<1>3. ASSUME NEW t, NEW bytes, flow' = Written(t),
             content' = [content EXCEPT ![t] = bytes],
             \A f \in Flows : flow[f].at = "committing" => flow[f].seen # t
      PROVE  EditKept'
  <2>1. SUFFICES ASSUME NEW f \in Flows  PROVE EditOf(flow'[f], content')
    BY DEF EditKept
  <2>2. EditOf(flow[f], content)
    BY DEF EditKept
  <2>3. CASE flow[f].seen # t
    BY <1>1, <1>3, <2>2, <2>3 DEF Written, EditOf, FlowStates
  <2>4. CASE flow[f].seen = t
    <3>1. /\ flow'[f].at = flow[f].at /\ flow'[f].seen = t /\ flow'[f].stale
          /\ flow[f].at # "committing"
      BY <1>1, <1>3, <2>4 DEF Written, FlowStates
    <3> QED  BY <2>2, <2>4, <3>1 DEF EditOf
  <2> QED  BY <2>3, <2>4
<1>4. lock = "free" => \A f \in Flows : flow[f].at # "committing"
  BY DEF IInv, LockIsOwned, LockedSaves
<1>5. RuntimeStep => EditKept'
  BY <1>3, <1>4 DEF RuntimeStep, Apply, Revert
<1>6. ASSUME NEW t \in Targets, OutsideWrite(t)  PROVE EditKept'
  BY <1>3, <1>6 DEF OutsideWrite, Quiescent, Is
<1>7. CASE Crash
  BY <1>7 DEF Crash, Closed, EditKept, EditOf
<1> QED
  BY <1>2, <1>5, <1>6, <1>7 DEF StoreSteps, Delete, LoseRevision, RestoreRevision

\* An edit is never committed for a file that does not hold the bytes its
\* editor showed, when nothing outside writes during the commit itself.
THEOREM EditsOfShown ==
  ASSUME "no_quiescence" \notin Faults
  PROVE  Spec => EditOfShownBytes
<1>1. Init => EditKept
  BY DEF Init, Closed, EditKept, EditOf
<1>2. IInv /\ EditKept /\ [Next]_vars => EditKept'
  <2>1. UNCHANGED vars /\ EditKept => EditKept'
    BY DEF vars, EditKept
  <2> QED  BY <2>1, FormEdit, SaveEdit, OutsideEdit DEF Next, Event
<1>3. EditKept =>
        [\A f \in Flows :
           Is(f, "committing") /\ Editing(f) /\ rules' # rules /\ flow'[f] = Closed =>
             /\ ~flow[f].stale
             /\ content[flow[f].seen] = "plain"]_vars
  BY DEF EditKept, EditOf, Is, Editing, Saving
<1> QED  BY <1>1, <1>2, <1>3, FlowInvariance, PTL DEF Spec, EditOfShownBytes
-----------------------------------------------------------------------------
(* The patches of saved rules can be read                                   *)

\* A revision that no crash takes away or makes unreadable.
Safe(s) == revision[s] = "durable" /\ s \notin doubled

\* The text of s is safe unless somebody took it away.
Secured(s) == s \in Managed \ lost => Safe(s)

\* What the store leaves behind at any time.
StoreSound ==
  /\ parents # "created"
  /\ \A s \in doubled : Present(s)
  /\ saver.at \in {"open", "lookup", "resync", "write", "link"} => ~saver.linked
  /\ saver.at = "unlink" /\ saver.linked => revision[saver.text] = "linked"

\* What the running save has achieved for a text that nobody takes away.
SaverKept ==
  /\ saver.at \in {"resync", "write", "link", "unlink", "sync"} => saver.text \notin doubled
  /\ saver.at \in {"resync", "unlink", "sync"} /\ saver.text \notin lost =>
       Present(saver.text)
  /\ saver.at = "check" /\ saver.text \notin lost => revision[saver.text] = "durable"
  /\ saver.at = "saved" /\ saver.text \notin lost => Safe(saver.text)

RulesKept == \A r \in Rules : Saved(r) => Secured(rules[r].source)

\* A flow waits for the save of its own text, and goes on with a safe one.
FlowKept(w) ==
  /\ w.at = "publishing" => saver.at # "idle" /\ saver.text = w.data.source
  /\ w.at \in {"reverifying", "committing"} => Secured(w.data.source)

SavesKept == StoreSound /\ SaverKept /\ RulesKept /\ \A f \in Flows : FlowKept(flow[f])

\* A step of the store keeps what is safe, and its save goes on with its text.
LEMMA StoreKeeps ==
  ASSUME StoreTypeOK, StoreSound, SaverKept, "unflushed_ancestor" \notin Faults,
         StoreStep, lost' = lost
  PROVE  /\ StoreSound' /\ SaverKept'
         /\ \A s \in Managed : Safe(s) => Safe(s)'
         /\ saver'.at # "idle" /\ saver'.text = saver.text
<1> USE DEF StoreSound, SaverKept, Safe, Present
<1>1. /\ revision \in [Managed -> {"absent", "linked", "durable"}]
      /\ parents \in {"absent", "created", "durable"} /\ doubled \subseteq Managed
      /\ saver \in [at : SaverSteps, text : Managed \cup {NoText}, linked : BOOLEAN]
      /\ saver.at # "idle" => saver.text \in Managed
  BY DEF StoreTypeOK
<1>2. ASSUME NEW step, Go(step)
      PROVE  saver'.at = step /\ saver'.text = saver.text /\ saver'.linked = saver.linked
  BY <1>1, <1>2 DEF Go
<1>3. IoError => saver'.at = "failed" /\ saver'.text = saver.text
  BY <1>2 DEF IoError
<1>4. ASSUME saver.at \in {"resync", "sync"},
             IF Present(saver.text) THEN Flushed ELSE UNCHANGED revision
      PROVE  /\ \A s \in Managed \ {saver.text} : revision'[s] = revision[s]
             /\ revision[saver.text] # "absent" => revision'[saver.text] = "durable"
             /\ revision[saver.text] = "absent" => revision'[saver.text] = "absent"
  BY <1>1, <1>4 DEF Flushed
<1>5. CASE OpenParents
  BY <1>1, <1>2, <1>3, <1>5 DEF OpenParents, At
<1>6. CASE Lookup
  <2>1. CASE TwoLinks(saver.text)
    BY <1>1, <1>2, <1>6, <2>1 DEF Lookup, At
  <2>2. CASE ~TwoLinks(saver.text)
    BY <1>1, <1>2, <1>6, <2>2 DEF Lookup, At, AfterLookup, TwoLinks
  <2> QED  BY <2>1, <2>2
<1>7. CASE Resync
  <2>1. CASE UNCHANGED revision /\ IoError
    BY <1>1, <1>3, <1>7, <2>1 DEF Resync, At
  <2>2. CASE Go("saved") /\ IF Present(saver.text) THEN Flushed ELSE UNCHANGED revision
    BY <1>1, <1>2, <1>4, <1>7, <2>2 DEF Resync, At
  <2> QED  BY <1>7, <2>1, <2>2 DEF Resync
<1>8. CASE WriteTemporary
  BY <1>1, <1>2, <1>3, <1>8 DEF WriteTemporary, At
<1>9. CASE LinkRevision
  <2>1. CASE /\ ~Present(saver.text)
             /\ revision' = [revision EXCEPT ![saver.text] = "linked"]
             /\ saver' = [saver EXCEPT !.at = "unlink", !.linked = TRUE]
    <3>1. saver'.at = "unlink" /\ saver'.text = saver.text /\ saver'.linked
      BY <1>1, <2>1
    <3>2. /\ revision'[saver.text] = "linked" /\ revision[saver.text] = "absent"
          /\ \A s \in Managed \ {saver.text} : revision'[s] = revision[s]
      BY <1>1, <1>9, <2>1 DEF LinkRevision, At
    <3> QED  BY <1>1, <1>9, <3>1, <3>2 DEF LinkRevision, At
  <2>2. CASE Present(saver.text) /\ Go("unlink") /\ UNCHANGED revision
    BY <1>1, <1>2, <1>9, <2>2 DEF LinkRevision, At
  <2>3. CASE IoError /\ UNCHANGED revision
    BY <1>1, <1>3, <1>9, <2>3 DEF LinkRevision, At
  <2> QED  BY <1>9, <2>1, <2>2, <2>3 DEF LinkRevision
<1>10. CASE UnlinkTemporary
  <2>1. CASE Go("sync") /\ UNCHANGED doubled
    BY <1>1, <1>2, <1>10, <2>1 DEF UnlinkTemporary, At
  <2>2. CASE IoError /\ doubled' = IF saver.linked THEN doubled \cup {saver.text} ELSE doubled
    BY <1>1, <1>3, <1>10, <2>2 DEF UnlinkTemporary, At
  <2> QED  BY <1>10, <2>1, <2>2 DEF UnlinkTemporary
<1>11. CASE SyncDirectory
  <2>1. CASE UNCHANGED revision /\ IoError
    BY <1>1, <1>3, <1>11, <2>1 DEF SyncDirectory, At
  <2>2. CASE Go("check") /\ IF Present(saver.text) THEN Flushed ELSE UNCHANGED revision
    BY <1>1, <1>2, <1>4, <1>11, <2>2 DEF SyncDirectory, At
  <2> QED  BY <1>11, <2>1, <2>2 DEF SyncDirectory
<1>12. CASE CheckRevision
  <2>1. CASE Readable(saver.text)
    BY <1>1, <1>2, <1>12, <2>1 DEF CheckRevision, At, Readable, TwoLinks
  <2>2. CASE ~Readable(saver.text)
    BY <1>1, <1>2, <1>12, <2>2 DEF CheckRevision, At
  <2> QED  BY <2>1, <2>2
<1> QED
  BY <1>5, <1>6, <1>7, <1>8, <1>9, <1>10, <1>11, <1>12 DEF StoreStep

\* So do other programs, but for what they take away, and crashes.
LEMMA OutsideKeeps ==
  ASSUME StoreTypeOK, StoreSound, SaverKept,
         \/ \E s \in Managed : \/ Remove(s) /\ lost' = lost \cup {s}
                               \/ Restore(s) /\ lost' = lost
         \/ (KilledSave \/ PowerLostSave) /\ lost' = lost
  PROVE  /\ StoreSound' /\ SaverKept'
         /\ \A s \in Managed : Secured(s) => Secured(s)'
<1> USE DEF StoreSound, SaverKept, Safe, Present, Secured
<1>1. /\ revision \in [Managed -> {"absent", "linked", "durable"}]
      /\ parents \in {"absent", "created", "durable"} /\ doubled \subseteq Managed
      /\ saver \in [at : SaverSteps, text : Managed \cup {NoText}, linked : BOOLEAN]
      /\ saver.at # "idle" => saver.text \in Managed
  BY DEF StoreTypeOK
<1>2. ASSUME NEW s \in Managed, Remove(s), lost' = lost \cup {s}
      PROVE  /\ StoreSound' /\ SaverKept'
             /\ \A x \in Managed : Secured(x) => Secured(x)'
  <2>1. /\ parents' = parents /\ revision'[s] = "absent" /\ doubled' = doubled \ {s}
        /\ \A x \in Managed \ {s} : revision'[x] = revision[x]
    BY <1>1, <1>2 DEF Remove
  <2>2. /\ saver'.at = saver.at /\ saver'.text = saver.text
        /\ saver'.linked = (saver.linked /\ saver.text # s)
    BY <1>1, <1>2 DEF Remove
  <2>3. StoreSound'
    BY <1>1, <2>1, <2>2 DEF SaverSteps
  <2>4. SaverKept'
    BY <1>1, <1>2, <2>1, <2>2
  <2>5. \A x \in Managed : Secured(x) => Secured(x)'
    BY <1>1, <1>2, <2>1
  <2> QED  BY <2>3, <2>4, <2>5
<1>3. ASSUME NEW s \in Managed, Restore(s), lost' = lost
      PROVE  /\ StoreSound' /\ SaverKept'
             /\ \A x \in Managed : Secured(x) => Secured(x)'
  <2>1. /\ revision[s] = "absent" /\ revision'[s] = "linked"
        /\ \A x \in Managed \ {s} : revision'[x] = revision[x]
        /\ UNCHANGED <<parents, doubled, saver>>
    BY <1>1, <1>3 DEF Restore
  <2> QED  BY <1>1, <1>3, <2>1
<1>4. IdleSaver.at = "idle" /\ ~IdleSaver.linked
  BY DEF IdleSaver
<1>5. ASSUME KilledSave, lost' = lost
      PROVE  /\ StoreSound' /\ SaverKept'
             /\ \A x \in Managed : Secured(x) => Secured(x)'
  BY <1>1, <1>4, <1>5 DEF KilledSave, TwoLinks
<1>6. ASSUME PowerLostSave, lost' = lost
      PROVE  /\ StoreSound' /\ SaverKept'
             /\ \A x \in Managed : Secured(x) => Secured(x)'
  <2>1. PICK gone \in SUBSET {s \in Managed : revision[s] = "linked" \/ parents = "created"} :
        \E twice \in SUBSET {s \in Managed \ gone : revision[s] = "linked"} :
       /\ revision' = [s \in Managed |->
            IF s \in gone \/ ~Present(s) THEN "absent" ELSE "durable"]
       /\ doubled' = ({s \in Managed : TwoLinks(s)} \cup twice) \ gone
    BY <1>6 DEF PowerLostSave
  <2>2. PICK twice \in SUBSET {s \in Managed \ gone : revision[s] = "linked"} :
          doubled' = ({s \in Managed : TwoLinks(s)} \cup twice) \ gone
    BY <2>1
  <2>3. /\ \A s \in gone : revision[s] = "linked"
        /\ \A s \in twice : revision[s] = "linked" /\ s \in Managed \ gone
    BY <2>1, <2>2
  <2>4. \A s \in Managed : revision'[s] = IF s \in gone \/ ~Present(s) THEN "absent" ELSE "durable"
    BY <2>1
  <2>5. \A s \in Managed : TwoLinks(s) =>
          Present(s) /\ (s \in doubled \/ revision[s] = "linked")
    BY <1>1 DEF TwoLinks
  <2>6. parents' # "created" /\ saver' = IdleSaver
    BY <1>6 DEF PowerLostSave
  <2>7. \A s \in doubled' : Present(s)'
    BY <2>2, <2>3, <2>4, <2>5
  <2>8. \A s \in Managed : Safe(s) => Safe(s)'
    BY <2>2, <2>3, <2>4, <2>5
  <2> QED  BY <1>4, <1>6, <2>6, <2>7, <2>8
<1> QED  BY <1>2, <1>3, <1>5, <1>6
\* Forms leave the store and the rules alone.
LEMMA FormKeeps ==
  ASSUME IInv, SavesKept, NEW f \in Flows,
         ChooseSource(f) \/ ChooseFile(f) \/ Submission(f)
  PROVE  SavesKept'
<1>1. UNCHANGED <<storeState, rules, lost>>
  BY DEF ChooseSource, ChooseFile, Submission, SubmitEdit, SubmitOptions, Confirm, Cancel
<1>2. /\ flow'[f].at \notin LockedSaves
      /\ \A g \in Flows \ {f} : flow'[g] = flow[g]
  BY FormEffect DEF IInv
<1>3. \A g \in Flows : FlowKept(flow[g])'
  BY <1>1, <1>2 DEF SavesKept, FlowKept, Secured, Safe, storeState, LockedSaves
<1> QED
  BY <1>1, <1>3 DEF SavesKept, StoreSound, SaverKept, RulesKept, Secured, Safe, Present,
     Saved, storeState

\* A save commits what its publication made safe.
LEMMA SaveKeeps ==
  ASSUME IInv, SavesKept, NEW f \in Flows, Enter(f) \/ SaveStep(f)
  PROVE  SavesKept'
<1> USE FlowAssumption
<1>1. /\ flow \in [Flows -> FlowStates] /\ rules \in [Rules -> Definition \cup Vacant]
      /\ lost \subseteq Managed /\ StoreTypeOK
  BY DEF IInv, TypeOK, FlowTypeOK
<1>2. /\ \A g \in Flows \ {f} : flow'[g] = flow[g] /\ flow[g].at \notin LockedSaves
      /\ flow'[f].at \in LockedSaves => flow'[f].data = flow[f].data
      /\ flow[f].at \in LockedSaves => flow[f].data \in Definition
  BY SaveEffect DEF IInv, Closed, LockedSaves, DataGiven
<1>3. \A g \in Flows \ {f} : FlowKept(flow[g])'
  BY <1>2 DEF FlowKept, LockedSaves
<1>4. ASSUME UNCHANGED <<storeState, rules, lost>>,
             \/ flow'[f].at \notin {"publishing", "reverifying", "committing"}
             \/ flow'[f].at # "publishing" /\ flow[f].at = "reverifying"
      PROVE  SavesKept'
  <2>1. FlowKept(flow[f])'
    BY <1>2, <1>4 DEF SavesKept, FlowKept, Secured, Safe, storeState, LockedSaves
  <2> QED
    BY <1>3, <1>4, <2>1 DEF SavesKept, StoreSound, SaverKept, RulesKept, Secured, Safe,
       Present, Saved, storeState
<1>5. ASSUME NEW step, Move(f, step)  PROVE flow'[f].at = step
  BY <1>1, <1>5 DEF Move, FlowStates
<1>6. Refused(f) => flow'[f].at \in {"edit_file", "options"}
  BY <1>5 DEF Refused
<1>7. Close(f) => flow'[f].at = "closed"
  BY <1>1 DEF Close, Closed
<1>8. CASE Enter(f)
  BY <1>4, <1>5, <1>6, <1>8 DEF Enter
<1>9. CASE CheckChange(f)
  BY <1>4, <1>5, <1>6, <1>9 DEF CheckChange
<1>10. CASE ReverifyTarget(f)
  BY <1>4, <1>5, <1>7, <1>10 DEF ReverifyTarget, Is
<1>11. CASE Denied(f)
  BY <1>4, <1>6, <1>11 DEF Denied
<1>12. CASE VerifyTarget(f)
  <2>1. UNCHANGED <<rules, lost>> /\ flow[f].at = "verifying"
    BY <1>12 DEF VerifyTarget, Is
  <2>2. ASSUME flow[f].data.source \in Managed, StartSave(flow[f].data.source),
               Move(f, "publishing")
        PROVE  SavesKept'
    <3>1. /\ saver'.at = "open" /\ saver'.text = flow[f].data.source /\ ~saver'.linked
          /\ UNCHANGED <<parents, revision, doubled>>
      BY <2>2 DEF StartSave, IdleSaver
    <3>2. FlowKept(flow[f])'
      BY <1>2, <1>5, <2>1, <2>2, <3>1 DEF FlowKept, LockedSaves
    <3> QED
      BY <1>3, <2>1, <3>1, <3>2 DEF SavesKept, StoreSound, SaverKept, RulesKept, Secured,
         Safe, Present, Saved
  <2>3. ASSUME flow[f].data.source \in Linked, Move(f, "reverifying"), UNCHANGED storeState
        PROVE  SavesKept'
    <3>1. FlowKept(flow[f])'
      BY <1>2, <1>5, <2>1, <2>3 DEF FlowKept, Secured, LockedSaves
    <3> QED
      BY <1>3, <2>1, <2>3, <3>1 DEF SavesKept, StoreSound, SaverKept, RulesKept, Secured,
         Safe, Present, Saved, storeState
  <2>4. ASSUME Close(f), UNCHANGED storeState  PROVE SavesKept'
    BY <1>4, <1>7, <2>1, <2>4
  <2> QED  BY <1>12, <2>2, <2>3, <2>4 DEF VerifyTarget
<1>13. CASE Published(f)
  <2>1. /\ UNCHANGED <<parents, revision, doubled, rules>> /\ saver' = IdleSaver
        /\ saver.text = flow[f].data.source /\ flow[f].at = "publishing"
    BY <1>13 DEF Published, Is, SavesKept, FlowKept
  <2>2. saver.text \in Managed
    BY <1>1, <1>13 DEF Published, StoreTypeOK
  <2>3. \A s \in Managed : Secured(s) => Secured(s)'
    BY <1>13, <2>1, <2>2 DEF Published, Secured, Safe, Readable, TwoLinks
  <2>4. ASSUME saver.at = "saved", NEW s, s = saver.text  PROVE Secured(s)'
    <3>1. s \notin lost => Safe(s)
      BY <2>4 DEF SavesKept, SaverKept
    <3>2. Safe(s) => Safe(s)'
      BY <2>1 DEF Safe
    <3>3. s \notin lost' => s \notin lost \/ Safe(s)
      BY <1>13, <2>4 DEF Published, Safe, Readable, TwoLinks
    <3> QED  BY <3>1, <3>2, <3>3 DEF Secured
  <2>5. FlowKept(flow[f])'
    <3>1. CASE saver.at = "saved"
      <4>1. flow'[f].at = "reverifying"
        BY <1>5, <1>13, <3>1 DEF Published, At
      <4>2. flow'[f].data.source = saver.text
        BY <1>2, <2>1, <4>1 DEF LockedSaves
      <4>3. PICK s : s = saver.text
        OBVIOUS
      <4>4. Secured(s)' /\ flow'[f].data.source = s
        BY <2>4, <3>1, <4>2, <4>3
      <4> QED  BY <4>1, <4>4 DEF FlowKept, Secured, Safe
    <3>2. CASE saver.at # "saved"
      BY <1>6, <1>13, <3>2 DEF Published, At, FlowKept
    <3> QED  BY <3>1, <3>2
  <2>6. RulesKept'
    BY <1>1, <2>1, <2>3 DEF SavesKept, RulesKept, Saved, Secured
  <2>7. IdleSaver.at = "idle"
    BY DEF IdleSaver
  <2> QED
    BY <1>3, <2>1, <2>5, <2>6, <2>7 DEF SavesKept, StoreSound, SaverKept, Present
<1>14. CASE Commit(f)
  <2>1. UNCHANGED <<storeState, lost>> /\ flow'[f].at = "closed"
    BY <1>7, <1>14 DEF Commit
  <2>2. Secured(flow[f].data.source)
    BY <1>14 DEF Commit, Is, SavesKept, FlowKept
  <2>3. \A r \in Rules : rules'[r] = rules[r] \/ rules'[r] = flow[f].data
    BY <1>14, CommitReplaces
  <2>4. RulesKept'
    BY <2>1, <2>2, <2>3 DEF SavesKept, RulesKept, Saved, Secured, Safe, storeState
  <2>5. FlowKept(flow[f])'
    BY <2>1 DEF FlowKept
  <2> QED
    BY <1>3, <2>1, <2>4, <2>5 DEF SavesKept, StoreSound, SaverKept, Safe, Present, storeState
<1> QED
  BY <1>8, <1>9, <1>10, <1>11, <1>12, <1>13, <1>14 DEF SaveStep

\* The runtime keeps the source of a rule, and nothing else touches it.
LEMMA OthersKeep ==
  ASSUME IInv, SavesKept, "unflushed_ancestor" \notin Faults,
         \/ StoreSteps \/ RuntimeStep
         \/ \E r \in Rules : Delete(r)
         \/ \E t \in Targets : OutsideWrite(t)
         \/ \E s \in Managed : LoseRevision(s) \/ RestoreRevision(s)
         \/ Crash
  PROVE  SavesKept'
<1> USE FlowAssumption
<1>1. /\ flow \in [Flows -> FlowStates] /\ rules \in [Rules -> Definition \cup Vacant]
      /\ lost \subseteq Managed /\ StoreTypeOK
  BY DEF IInv, TypeOK, FlowTypeOK
<1>2. ASSUME NEW t, flow' = Written(t)
      PROVE  \A g \in Flows : flow'[g].at = flow[g].at /\ flow'[g].data = flow[g].data
  BY <1>1, <1>2 DEF Written, FlowStates
<1>3. ASSUME StoreSound', SaverKept', rules' = rules,
             \A s \in Managed : Secured(s) => Secured(s)',
             \A g \in Flows :
               /\ flow'[g].at \in {flow[g].at, "closed"}
               /\ flow'[g].at # "closed" =>
                    flow'[g].data = flow[g].data
               /\ flow'[g].at = "publishing" => saver'.at # "idle" /\ saver'.text = saver.text
      PROVE  SavesKept'
  <2>1. \A s : Secured(s) => Secured(s)'
    BY <1>3 DEF Secured
  <2>2. RulesKept'
    BY <1>3, <2>1 DEF SavesKept, RulesKept, Saved, Secured
  <2>3. ASSUME NEW g \in Flows  PROVE FlowKept(flow[g])'
    BY <1>3, <2>1 DEF SavesKept, FlowKept, Secured
  <2> QED  BY <1>3, <2>2, <2>3 DEF SavesKept
<1>4. ASSUME UNCHANGED <<storeState, lost>>,
             \A r \in Rules : rules'[r] \in Definition =>
               rules[r] \in Definition /\ rules'[r].source = rules[r].source,
             \A g \in Flows : flow'[g].at = flow[g].at /\ flow'[g].data = flow[g].data
      PROVE  SavesKept'
  <2>1. RulesKept'
    BY <1>4 DEF SavesKept, RulesKept, Saved, Secured, Safe, storeState
  <2>2. ASSUME NEW g \in Flows  PROVE FlowKept(flow[g])'
    BY <1>4 DEF SavesKept, FlowKept, Secured, Safe, storeState
  <2> QED
    BY <1>4, <2>1, <2>2 DEF SavesKept, StoreSound, SaverKept, Safe, Present, storeState
<1>5. CASE StoreSteps
  BY <1>1, <1>3, <1>5, StoreKeeps DEF StoreSteps, SavesKept, Secured
<1>6. ASSUME NEW r \in Rules, Apply(r)  PROVE SavesKept'
  BY <1>2, <1>4, <1>6 DEF Apply
<1>7. ASSUME NEW r \in Rules, Revert(r)  PROVE SavesKept'
  <2>1. \A q \in Rules : rules'[q] \in Definition =>
          rules[q] \in Definition /\ rules'[q].source = rules[q].source
    BY <1>1, <1>7 DEF Revert, Saved, Definition
  <2> QED  BY <1>2, <1>4, <1>7, <2>1 DEF Revert
<1>8. ASSUME NEW r \in Rules, Delete(r)  PROVE SavesKept'
  <2>1. \A q \in Rules : rules'[q] \in Definition => rules'[q] = rules[q]
    BY <1>1, <1>8 DEF Delete, Vacant
  <2> QED  BY <1>4, <1>8, <2>1 DEF Delete
<1>9. ASSUME NEW t \in Targets, OutsideWrite(t)  PROVE SavesKept'
  BY <1>2, <1>4, <1>9 DEF OutsideWrite
<1>10. ASSUME NEW s \in Managed, LoseRevision(s)  PROVE SavesKept'
  <2>1. /\ Remove(s) /\ lost' = lost \cup {s} /\ UNCHANGED <<rules, flow>>
    BY <1>10 DEF LoseRevision
  <2>2. saver'.at = saver.at /\ saver'.text = saver.text
    BY <1>1, <2>1 DEF Remove, StoreTypeOK
  <2>3. StoreSound' /\ SaverKept' /\ \A x \in Managed : Secured(x) => Secured(x)'
    BY <1>1, <2>1, OutsideKeeps DEF SavesKept
  <2> QED  BY <1>1, <1>3, <2>1, <2>2, <2>3 DEF SavesKept, FlowKept
<1>11. ASSUME NEW s \in Managed, RestoreRevision(s)  PROVE SavesKept'
  <2>1. Restore(s) /\ saver' = saver /\ UNCHANGED <<rules, flow, lost>>
    BY <1>11 DEF RestoreRevision, Restore
  <2>2. StoreSound' /\ SaverKept' /\ \A x \in Managed : Secured(x) => Secured(x)'
    BY <1>1, <2>1, OutsideKeeps DEF SavesKept
  <2> QED  BY <1>3, <2>1, <2>2 DEF SavesKept, FlowKept
<1>12. CASE Crash
  <2>1. \A g \in Flows : flow'[g].at = "closed"
    BY <1>12 DEF Crash, Closed
  <2>2. /\ KilledSave \/ PowerLostSave
        /\ UNCHANGED <<rules, lost>>
    BY <1>12 DEF Crash
  <2>3. StoreSound' /\ SaverKept' /\ \A x \in Managed : Secured(x) => Secured(x)'
    BY <1>1, <2>2, OutsideKeeps DEF SavesKept
  <2> QED  BY <1>3, <2>1, <2>2, <2>3
<1> QED
  BY <1>5, <1>6, <1>7, <1>8, <1>9, <1>10, <1>11, <1>12 DEF RuntimeStep

\* Whatever fails while patches are published and wherever power or process
\* stop, the text of a saved rule can be read, unless somebody took it away
\* since; the directories of the store are taken to be flushed when made.
THEOREM SavedReadable ==
  ASSUME "unflushed_ancestor" \notin Faults
  PROVE  Spec => []SavedIsReadable
<1>1. Init => SavesKept
  <2> SUFFICES ASSUME Init  PROVE SavesKept
    OBVIOUS
  <2> USE FlowAssumption
  <2>1. /\ parents # "created" /\ doubled = {} /\ saver.at = "idle"
        /\ \A s \in Used(rules) : revision[s] = "durable"
    BY DEF Init, StoreInit, IdleSaver, Used
  <2>2. RulesKept
    BY <2>1 DEF RulesKept, Saved, Used, Secured, Safe
  <2>3. \A f \in Flows : flow[f].at = "closed"
    BY DEF Init, Closed
  <2> QED  BY <2>1, <2>2, <2>3 DEF SavesKept, StoreSound, SaverKept, FlowKept
<1>2. IInv /\ SavesKept /\ [Next]_vars => SavesKept'
  <2>1. UNCHANGED vars /\ SavesKept => SavesKept'
    BY DEF vars, storeState, SavesKept, StoreSound, SaverKept, RulesKept, FlowKept,
       Secured, Safe, Present, Saved
  <2> QED  BY <2>1, FormKeeps, SaveKeeps, OthersKeep DEF Next, Event
<1>3. IInv /\ SavesKept => SavedIsReadable
  <2> SUFFICES ASSUME IInv, SavesKept, NEW r \in Rules, Saved(r),
                      rules[r].source \in Managed \ lost
               PROVE  Readable(rules[r].source)
    BY DEF SavedIsReadable
  <2>1. Safe(rules[r].source)
    BY DEF SavesKept, RulesKept, Secured
  <2> QED  BY <2>1 DEF SavesKept, StoreSound, Safe, Readable, TwoLinks, Present
<1> QED  BY <1>1, <1>2, <1>3, FlowInvariance, PTL DEF Spec
=============================================================================
