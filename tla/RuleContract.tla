---------------------------- MODULE RuleContract ----------------------------
(***************************************************************************)
(* What HAPatchY promises about patch rules and their targets, with no     *)
(* locks, queues, stored state or failures: one target is written at a     *)
(* time, through the rule that is saved at that moment, and unasked only   *)
(* while that rule says so.  A write is open until its outcome has been    *)
(* taken into account (writer); meanwhile no other write and no change of  *)
(* configuration happens.  PatchRuntime implements this specification.     *)
(***************************************************************************)
CONSTANTS Patches, Definition, NotCreated, Removed

Contents == {"orig", "patched", "other"}

VARIABLES rule,    \* the saved rule of each patch id
          target,  \* how the rule's diff relates to the target's content
          writer   \* on whose account HAPatchY has an open write

contractVars == <<rule, target, writer>>

Exists(p) == rule[p] \in Definition
Enabled(p) == Exists(p) /\ rule[p].enabled
NoOpenWrite == \A p \in Patches : writer[p] = "nobody"

Init ==
  /\ rule \in [Patches -> Definition \cup {NotCreated}]
  /\ target \in [Patches -> Contents]
  /\ writer = [p \in Patches |-> "nobody"]

Rewrite(p, from, to, who) ==
  /\ NoOpenWrite
  /\ target[p] = from
  /\ target' = [target EXCEPT ![p] = to]
  /\ writer' = [writer EXCEPT ![p] = who]
  /\ rule' = rule

\* A check applies the rule on its own account.
AutoApply(p) ==
  Enabled(p) /\ rule[p].auto /\ Rewrite(p, "orig", "patched", "check")

\* The two explicit actions.
ApplyOnRequest(p) == Enabled(p) /\ Rewrite(p, "orig", "patched", "request")
RevertOnRequest(p) == Enabled(p) /\ Rewrite(p, "patched", "orig", "request")

\* The outcome of a write is recorded, or lost with the process.
CloseWrite(p) ==
  /\ writer[p] # "nobody"
  /\ writer' = [writer EXCEPT ![p] = "nobody"]
  /\ UNCHANGED <<rule, target>>

\* A Revert turns automatic application off as its outcome is recorded.
TurnAutoOff(p) ==
  /\ Enabled(p)
  /\ rule' = [rule EXCEPT ![p] = [@ EXCEPT !.auto = FALSE]]
  /\ writer' = [writer EXCEPT ![p] = "nobody"]
  /\ target' = target

\* The user saves the rule, for a target that may relate to it in any way.
Configure(p) ==
  /\ NoOpenWrite
  /\ rule[p] # Removed
  /\ \E d \in Definition : rule' = [rule EXCEPT ![p] = d]
  /\ \E c \in Contents : target' = [target EXCEPT ![p] = c]
  /\ writer' = writer

\* A deletion takes effect between writes, or as one is closed.
Remove(p) ==
  /\ Exists(p)
  /\ rule' = [rule EXCEPT ![p] = Removed]
  /\ writer' = [writer EXCEPT ![p] = "nobody"]
  /\ target' = target

\* Someone else writes the target.
WriteOutside(p) ==
  /\ \E c \in Contents : target' = [target EXCEPT ![p] = c]
  /\ UNCHANGED <<rule, writer>>

Next ==
  \E p \in Patches :
    \/ AutoApply(p) \/ ApplyOnRequest(p) \/ RevertOnRequest(p)
    \/ CloseWrite(p) \/ TurnAutoOff(p) \/ Configure(p) \/ Remove(p)
    \/ WriteOutside(p)

Spec == Init /\ [][Next]_contractVars
=============================================================================
