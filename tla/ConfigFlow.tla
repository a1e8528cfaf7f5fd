----------------------------- MODULE ConfigFlow -----------------------------
(***************************************************************************)
(* The flows that create and change patch rules (PatchSubentryFlow in      *)
(* config_flow.py, with validation.py) on top of ManagedStore, against the *)
(* runtime's actions, other flows, deletions, other programs and crashes.  *)
(*                                                                         *)
(* A source is a patch: the text of a managed one, or the address of a     *)
(* local or remote one, whose text stays the same.  Both headers of a diff *)
(* name its target, so a source determines the target of its rule.  The    *)
(* content of a target is "plain" (the diffs' old side), the source whose  *)
(* diff is applied to it, or "other".                                      *)
(*                                                                         *)
(* Forms hold nothing between their awaits that is not read again by       *)
(* _save, so the submission of a form is one step; _save, which waits for  *)
(* the operation lock and then for executor jobs, is one step per await.   *)
(* The runtime is represented by what RuleContract promises of it: under   *)
(* the lock, it writes a target through the rule that is saved.            *)
(***************************************************************************)
EXTENDS ManagedStore, FiniteSets

CONSTANTS Linked,       \* sources that are addresses
          TargetOf,     \* the target each source's headers name
          Rules,        \* subentry ids
          Flows,        \* flows that can be open at a time
          Autos,        \* what auto_apply is set to
          MaxEvents,    \* bound on flows opened, deletions, outside writes and crashes
          NotCreated, Removed, NoRule, NoTarget

Sources    == Managed \cup Linked
Targets    == {TargetOf[s] : s \in Sources}
Definition == [source : Sources, auto : BOOLEAN]
Vacant     == {NotCreated, Removed}

FaultKinds == StoreFaults \cup
  {"killed", "power_loss", "no_quiescence"}

ASSUME FlowAssumption ==
  /\ Managed \cap Linked = {} /\ {"plain", "other", NoText} \cap Sources = {}
  /\ TargetOf \in [Sources -> Targets] /\ NoTarget \notin Targets
  /\ NoRule \notin Rules /\ "free" \notin Flows
  /\ NotCreated # Removed /\ Vacant \cap Definition = {}
  /\ Autos \subseteq BOOLEAN /\ MaxEvents \in Nat
  /\ Faults \subseteq FaultKinds

Contents == {"plain", "other"} \cup Sources

Forms  == {"edit_file", "options", "confirm"}
Saving == {"waiting", "checking", "verifying", "publishing", "reverifying", "committing"}

\* own is the rule a flow reconfigures and original its definition then; seen
\* is the target whose snapshot the editor shows, stale when it was written since.
FlowStates ==
  [at : {"closed"} \cup Forms \cup Saving, own : Rules \cup {NoRule},
   original : Definition \cup Vacant, data : Definition \cup Vacant,
   seen : Targets \cup {NoTarget}, stale : BOOLEAN]

VARIABLES
  rules,      \* entry.subentries
  content,    \* the target files
  flow,       \* self of each PatchSubentryFlow, and where it is
  lock,       \* owner of the operation lock
  lost,       \* ghost: revisions removed by others since they were saved
  events      \* counts events, for the bound

vars == <<storeState, rules, content, flow, lock, lost, events>>

FlowTypeOK ==
  /\ rules \in [Rules -> Definition \cup Vacant]
  /\ content \in [Targets -> Contents]
  /\ flow \in [Flows -> FlowStates]
  /\ lock \in Flows \cup {"free"}
  /\ lost \subseteq Managed

TypeOK == StoreTypeOK /\ FlowTypeOK /\ events \in 0 .. MaxEvents

Closed == [at |-> "closed", own |-> NoRule, original |-> NotCreated,
           data |-> NotCreated, seen |-> NoTarget, stale |-> FALSE]

Saved(r) == rules[r] \in Definition
Target(d) == TargetOf[d.source]
Used(all) == {s \in Managed : \E r \in Rules : all[r] \in Definition /\ all[r].source = s}

Init ==
  /\ rules \in {f \in [Rules -> Definition \cup {NotCreated}] :
       \A r, q \in Rules :
         /\ f[r] \in Definition => f[r].auto
         /\ f[r] \in Definition /\ f[q] \in Definition /\ r # q =>
              Target(f[r]) # Target(f[q])}
  /\ StoreInit(Used(rules))
  /\ content = [t \in Targets |-> "plain"]
  /\ flow = [f \in Flows |-> Closed]
  /\ lock = "free"
  /\ lost = {}
  /\ events = 0

Is(f, step) == flow[f].at = step
Move(f, step) == flow' = [flow EXCEPT ![f].at = step]
Close(f) == flow' = [flow EXCEPT ![f] = Closed]
Editing(f) == flow[f].seen # NoTarget

-----------------------------------------------------------------------------
(* Checks                                                                   *)

\* PatchSourceClient.load; an address may be out of reach at any time.
Loadable(s) == s \in Managed => Readable(s)

DuplicateTarget(f) ==
  \E r \in Rules \ {flow[f].own} : Saved(r) /\ Target(rules[r]) = Target(flow[f].data)

\* _check_original_definition
OriginalIgnored(f) == TRUE
OriginalStands(f) ==
  flow[f].original \in Definition => rules[flow[f].own] = flow[f].original

Applied(d) == content[Target(d)] = d.source

\* _check_source_change: a change of source or target needs the old patch
\* inspected and found not to be applied.
ChangeAllowed(d, s) ==
  d \in Definition /\ s # d.source => Loadable(d.source) /\ ~Applied(d)

\* _verify_save_target: an edited file is still the one that was shown.
TargetStands(f) == Editing(f) => ~flow[f].stale

-----------------------------------------------------------------------------
(* Forms.  A submission that is refused shows its form again.               *)

\* Bound: there is an id for every rule that is being made.
RoomForNew ==
  Cardinality({r \in Rules : rules[r] = NotCreated}) >
    Cardinality({f \in Flows : ~Is(f, "closed") /\ flow[f].own = NoRule})

\* async_step_reconfigure takes the definition the forms are filled with; a new
\* rule has none.
Origins ==
  {[Closed EXCEPT !.own = r, !.original = rules[r]] : r \in {q \in Rules : Saved(q)}}
    \cup IF RoomForNew THEN {Closed} ELSE {}

\* The source forms: editor, upload or address, up to the options.
ChooseSource(f) ==
  /\ Is(f, "closed")
  /\ \E new \in Origins, s \in Sources :
       /\ s \in Managed => ChangeAllowed(new.original, s)
       /\ flow' = [flow EXCEPT ![f] = [new EXCEPT !.at = "options",
                                               !.data = [source |-> s, auto |-> TRUE]]]
  /\ UNCHANGED <<storeState, rules, content, lock, lost>>

\* edit_file is offered for a new rule and shows a snapshot of its target.
ChooseFile(f) ==
  /\ Is(f, "closed") /\ RoomForNew
  /\ \E t \in Targets : flow' =
       [flow EXCEPT ![f] = [Closed EXCEPT !.at = "edit_file", !.seen = t]]
  /\ UNCHANGED <<storeState, rules, content, lock, lost>>

\* The diff is built from the bytes shown; it takes a target whose old side
\* some modelled text has.
SubmitEdit(f) ==
  /\ Is(f, "edit_file")
  /\ \/ flow[f].stale /\ Close(f)
     \/ /\ ~flow[f].stale /\ content[flow[f].seen] = "plain"
        /\ \E s \in Managed : TargetOf[s] = flow[f].seen /\ flow' =
             [flow EXCEPT ![f].at = "waiting", ![f].data = [source |-> s, auto |-> TRUE]]
  /\ UNCHANGED <<storeState, rules, content, lock, lost>>

\* A conflict, a missing target or a disabled backup has to be confirmed.
SubmitOptions(f) ==
  /\ Is(f, "options")
  /\ ~DuplicateTarget(f) /\ ChangeAllowed(flow[f].original, flow[f].data.source)
  /\ \E auto \in Autos, next \in {"confirm", "waiting"} :
       /\ next = "waiting" =>
            content[Target(flow[f].data)] \in {"plain", flow[f].data.source}
       /\ flow' = [flow EXCEPT ![f].at = next, ![f].data.auto = auto]
  /\ UNCHANGED <<storeState, rules, content, lock, lost>>

Confirm(f) ==
  /\ Is(f, "confirm")
  /\ Move(f, "waiting")
  /\ UNCHANGED <<storeState, rules, content, lock, lost>>

Cancel(f) ==
  /\ flow[f].at \in Forms
  /\ Close(f)
  /\ UNCHANGED <<storeState, rules, content, lock, lost>>

-----------------------------------------------------------------------------
(* _save                                                                    *)

\* The guard is left; a PatchError shows the last form again with the reason.
ReleaseForgotten == lock' = lock
Release == lock' = "free"

Refused(f) ==
  /\ Release
  /\ Move(f, IF Editing(f) THEN "edit_file" ELSE "options")

EnterUnchecked(f) ==
  /\ Is(f, "waiting") /\ lock = "free"
  /\ \/ OriginalStands(f) /\ lock' = f /\ Move(f, "checking")
     \/ Refused(f)
  /\ UNCHANGED <<storeState, rules, content, lost>>

\* The guard refuses while the runtime is reloading.
Enter(f) ==
  /\ Is(f, "waiting") /\ lock = "free"
  /\ \/ /\ OriginalStands(f) /\ ~DuplicateTarget(f)
        /\ lock' = f /\ Move(f, "checking")
     \/ Refused(f)
  /\ UNCHANGED <<storeState, rules, content, lost>>

CheckTrusted(f) ==
  /\ Is(f, "checking")
  /\ Move(f, "verifying")
  /\ UNCHANGED <<storeState, rules, content, lock, lost>>

CheckChange(f) ==
  /\ Is(f, "checking")
  /\ IF ChangeAllowed(flow[f].original, flow[f].data.source)
     THEN Move(f, "verifying") /\ UNCHANGED lock
     ELSE Refused(f)
  /\ UNCHANGED <<storeState, rules, content, lost>>

\* editor_target_changed ends the flow.
VerifyTarget(f) ==
  /\ Is(f, "verifying")
  /\ \/ /\ TargetStands(f) /\ flow[f].data.source \in Managed
        /\ StartSave(flow[f].data.source) /\ Move(f, "publishing") /\ UNCHANGED lock
     \/ /\ TargetStands(f) /\ flow[f].data.source \in Linked
        /\ Move(f, "reverifying") /\ UNCHANGED <<storeState, lock>>
     \/ ~TargetStands(f) /\ Close(f) /\ Release /\ UNCHANGED storeState
  /\ UNCHANGED <<rules, content, lost>>

Published(f) ==
  /\ Is(f, "publishing") /\ saver.at \in {"saved", "failed"}
  /\ saver' = IdleSaver
  /\ IF At("saved") THEN Move(f, "reverifying") /\ UNCHANGED lock ELSE Refused(f)
  /\ lost' = IF At("saved") /\ Readable(saver.text) /\ revision[saver.text] = "durable"
             THEN lost \ {saver.text} ELSE lost
  /\ UNCHANGED <<parents, revision, doubled, rules, content>>

ReverifySkipped(f) ==
  /\ Is(f, "reverifying")
  /\ Move(f, "committing")
  /\ UNCHANGED <<storeState, rules, content, lock, lost>>

ReverifyTarget(f) ==
  /\ Is(f, "reverifying")
  /\ IF TargetStands(f) THEN Move(f, "committing") /\ UNCHANGED lock
                        ELSE Close(f) /\ Release
  /\ UNCHANGED <<storeState, rules, content, lost>>

\* Any of these steps can be denied by policy, or end in a closing runtime.
Denied(f) ==
  /\ flow[f].at \in {"checking", "verifying", "reverifying", "committing"}
  /\ Refused(f)
  /\ UNCHANGED <<storeState, rules, content, lost>>

\* _commit; a rule deleted meanwhile is not found and the flow ends.
Commit(f) ==
  /\ Is(f, "committing")
  /\ \/ /\ flow[f].original \in Definition
        /\ rules' = IF Saved(flow[f].own)
                    THEN [rules EXCEPT ![flow[f].own] = flow[f].data] ELSE rules
     \/ /\ flow[f].original \notin Definition
        /\ \E r \in Rules : rules[r] = NotCreated /\ rules' = [rules EXCEPT ![r] = flow[f].data]
  /\ Close(f) /\ Release
  /\ UNCHANGED <<storeState, content, lost>>

-----------------------------------------------------------------------------
(* The runtime, users and other programs                                    *)

Written(t) ==
  [f \in Flows |-> IF flow[f].seen = t THEN [flow[f] EXCEPT !.stale = TRUE] ELSE flow[f]]

\* With automatic application, or on request.
Apply(r) ==
  /\ Saved(r) /\ lock = "free" /\ Loadable(rules[r].source)
  /\ content[Target(rules[r])] = "plain"
  /\ content' = [content EXCEPT ![Target(rules[r])] = rules[r].source]
  /\ flow' = Written(Target(rules[r]))
  /\ UNCHANGED <<storeState, rules, lock, lost>>

\* A Revert also switches automatic application off.
Revert(r) ==
  /\ Saved(r) /\ lock = "free" /\ Loadable(rules[r].source)
  /\ Applied(rules[r])
  /\ content' = [content EXCEPT ![Target(rules[r])] = "plain"]
  /\ rules' = [rules EXCEPT ![r].auto = FALSE]
  /\ flow' = Written(Target(rules[r]))
  /\ UNCHANGED <<storeState, lock, lost>>

\* Home Assistant deletes a subentry without asking.
Delete(r) ==
  /\ Saved(r)
  /\ rules' = [rules EXCEPT ![r] = Removed]
  /\ UNCHANGED <<storeState, content, flow, lock, lost>>

\* Nothing is watched between the last verification and the commit.
Quiescent(t) ==
  \A f \in Flows : Is(f, "committing") /\ flow[f].seen = t => "no_quiescence" \in Faults

OutsideWrite(t) ==
  /\ Quiescent(t)
  /\ content' = [content EXCEPT ![t] = IF @ = "plain" THEN "other" ELSE "plain"]
  /\ flow' = Written(t)
  /\ UNCHANGED <<storeState, rules, lock, lost>>

LoseRevision(s) ==
  /\ Remove(s)
  /\ lost' = lost \cup {s}
  /\ UNCHANGED <<rules, content, flow, lock>>

RestoreRevision(s) ==
  /\ Restore(s)
  /\ UNCHANGED <<rules, content, flow, lock, lost>>

Crash ==
  /\ \/ "killed" \in Faults /\ KilledSave
     \/ "power_loss" \in Faults /\ PowerLostSave
  /\ flow' = [f \in Flows |-> Closed]
  /\ lock' = "free"
  /\ UNCHANGED <<rules, content, lost>>

-----------------------------------------------------------------------------
StoreSteps == StoreStep /\ UNCHANGED <<rules, content, flow, lock, lost>>

Submission(f) == SubmitEdit(f) \/ SubmitOptions(f) \/ Confirm(f) \/ Cancel(f)

SaveStep(f) == CheckChange(f) \/ VerifyTarget(f) \/ Published(f)
                 \/ ReverifyTarget(f) \/ Denied(f) \/ Commit(f)

RuntimeStep == \E r \in Rules : Apply(r) \/ Revert(r)

Event ==
  \/ \E f \in Flows : ChooseSource(f) \/ ChooseFile(f)
  \/ \E r \in Rules : Delete(r)
  \/ \E t \in Targets : OutsideWrite(t)
  \/ \E s \in Managed : LoseRevision(s) \/ RestoreRevision(s)
  \/ Crash

Next ==
  \/ /\ \/ \E f \in Flows : Submission(f) \/ Enter(f) \/ SaveStep(f)
        \/ StoreSteps \/ RuntimeStep
     /\ UNCHANGED events
  \/ events < MaxEvents /\ events' = events + 1 /\ Event

Spec == Init /\ [][Next]_vars

-----------------------------------------------------------------------------
(* Properties                                                               *)

\* A patch that is applied keeps the rule that can revert it: no flow gives a
\* rule another source or target while its old patch is in the target.
PatchKeepsItsRule ==
  [][\A r \in Rules :
       Saved(r) /\ rules'[r] \in Definition /\ rules'[r].source # rules[r].source =>
         ~Applied(rules[r])]_vars

\* What a flow saves replaces the definition its forms were filled with; the
\* bookkeeping of a Revert, or another flow, is never undone unseen.
NoLostUpdate ==
  [][\A r \in Rules, f \in Flows :
       Is(f, "committing") /\ flow'[f] = Closed /\ rules'[r] # rules[r]
         /\ rules'[r] \in Definition =>
         rules[r] = flow[f].original]_vars

\* Two rules never write one target, whichever flows saved them.
OneRulePerTarget ==
  \A r, q \in Rules :
    Saved(r) /\ Saved(q) /\ Target(rules[r]) = Target(rules[q]) => r = q

\* The patch of a saved managed rule can be read, before and after a crash,
\* unless somebody took it away since the rule was saved.
SavedIsReadable ==
  \A r \in Rules :
    Saved(r) /\ rules[r].source \in Managed \ lost => Readable(rules[r].source)

\* An edit is saved for the bytes the editor showed.
EditOfShownBytes ==
  [][\A f \in Flows :
       Is(f, "committing") /\ Editing(f) /\ rules' # rules /\ flow'[f] = Closed =>
         /\ ~flow[f].stale
         /\ content[flow[f].seen] = "plain"]_vars

\* The lock is held by the one save that works, and by nobody when it ended,
\* however it ended: a refusal, an aborted edit or a lost rule does not keep it.
LockedSaves == {"checking", "verifying", "publishing", "reverifying", "committing"}
LockIsOwned == \A f \in Flows : lock = f <=> flow[f].at \in LockedSaves
=============================================================================
