------------------------- MODULE ReleaseAutomation -------------------------
(***************************************************************************)
(* What merges and publishes without a person: the coordinator that opts   *)
(* one Home Assistant update and its patch release into auto-merge         *)
(* (ha_update_github.py, ha_update_merge.py), and the Release workflow's   *)
(* helper that fills and publishes a draft (release_github.py,             *)
(* build_release.py, check_sonar_release.py).                              *)
(*                                                                         *)
(* Both are single processes (concurrency groups) that ask GitHub and      *)
(* Sonar one question at a time, while people merge and push, checks end,  *)
(* bots rewrite their pull requests and drafts are edited.  A commit of    *)
(* main is its place in the history, which only grows; an asset is the     *)
(* commit it was built from, because the archive is deterministic.         *)
(***************************************************************************)
EXTENDS Integers, Sequences, FiniteSets, FiniteSetsExt

CONSTANTS MaxMain,    \* commits of main (bound)
          MaxMishaps, \* extra pushes, edits of a draft and kills (bound)
          Faults      \* which of FaultKinds this environment exhibits

FaultKinds ==
  {"moved_after_decision", \* main after its second reading, a head once opted in
   "edited_late",          \* the draft changes after the helper's last look
   "scanned_twice"}        \* Sonar returns to a revision while it is judged

ASSUME ReleaseAssumption ==
  /\ MaxMain \in Nat \ {0} /\ MaxMishaps \in Nat
  /\ Faults \subseteq FaultKinds

Kinds   == {"update", "release"}
Commits == 1 .. MaxMain
Nothing == 0
Foreign == -1     \* a commit that is not in main, bytes that no commit builds
Partial == -2     \* an asset whose upload broke off: it has no digest

VARIABLES
  main,      \* commits: what they are, who merged them, what Sonar thinks
  pr,        \* the pull request of either kind
  co,        \* the coordinator: what this run has read
  draft,     \* the unpublished release
  tag,       \* the commit its tag points to
  run,       \* the Release workflow's run: step, candidate, assets listed
  published, \* releases
  scanned,   \* revision of Sonar's latest analysis of main
  scanning,  \* an analysis of the tip of main is under way
  mishaps

vars == <<main, pr, co, draft, tag, run, published, scanned, scanning,
          mishaps>>
publishVars == <<draft, tag, run, published>>
sonarVars   == <<scanned, scanning>>

Closed  == [open |-> FALSE, base |-> Nothing, extra |-> FALSE, serial |-> 0,
            green |-> FALSE, auto |-> FALSE]
Off     == [step |-> "off", round |-> 1, targets |-> {},
            main |-> Nothing, head |-> Closed]
NoDraft == [of |-> Nothing, target |-> Nothing, zip |-> Nothing, sum |-> Nothing]
NoRun   == [step |-> "off", sha |-> Nothing, zip |-> Nothing, sum |-> Nothing]

\* One release is out.
Init ==
  /\ main = <<[kind |-> "release", extra |-> FALSE, auto |-> FALSE, safe |-> TRUE]>>
  /\ pr = [k \in Kinds |-> Closed]
  /\ co = Off
  /\ draft = NoDraft /\ tag = Nothing /\ run = NoRun
  /\ published = {[of |-> 1, at |-> 1, zip |-> 1, sum |-> 1]}
  /\ scanned = 1 /\ scanning = FALSE
  /\ mishaps = 0

InMain(c) == c \in 1 .. Len(main)
Releases  == {c \in 1 .. Len(main) : main[c].kind = "release"}
Version(c) == Cardinality({r \in Releases : r <= c})

\* releases/latest
Latest == Max({r.at : r \in published})

\* What a sha stands for: a later push never has that of an earlier one.
HeadOf(k) == [pr[k] EXCEPT !.green = FALSE, !.auto = FALSE]

Mishap == mishaps < MaxMishaps /\ mishaps' = mishaps + 1

-----------------------------------------------------------------------------
(* GitHub, people and bots.                                                *)

\* The coordinator counts on main as it read it the second time, or GitHub on
\* its opt-in.
Decided == \/ co.round = 2 /\ co.step \in {"latest", "pull", "rest", "opt_in"}
           \/ \E k \in Kinds : pr[k].auto

Room == Len(main) < MaxMain

\* The pull requests that are left when a commit lands: with the last one of the
\* bound they are closed, nobody can push to or merge them any more.
Left(pulls) == IF Len(main) + 1 < MaxMain THEN pulls ELSE [k \in Kinds |-> Closed]

Land(commit) ==
  /\ Room
  /\ main' = Append(main, commit)
  /\ scanning' = TRUE
  /\ UNCHANGED <<publishVars, scanned>>

\* A squash merge of a pull request: checks and a current base are required.
Mergeable(k) == pr[k].open /\ pr[k].green /\ pr[k].base = Len(main)
Merge(k, auto) ==
  /\ Mergeable(k)
  /\ Land([kind |-> k, extra |-> pr[k].extra, auto |-> auto,
           safe |-> main[Len(main)].safe])
  /\ pr' = Left([pr EXCEPT ![k] = Closed])
  /\ UNCHANGED mishaps

Undisturbed == Decided => "moved_after_decision" \in Faults

MergeWork ==
  /\ Undisturbed
  /\ \E safe \in BOOLEAN :
       /\ Land([kind |-> "work", extra |-> FALSE, auto |-> FALSE, safe |-> safe])
       /\ IF safe THEN UNCHANGED mishaps ELSE Mishap
  /\ pr' = Left(pr)
  /\ UNCHANGED co

MergeByHand(k) == Undisturbed /\ Merge(k, FALSE) /\ UNCHANGED co
AutoMerge(k) == pr[k].auto /\ Merge(k, TRUE) /\ UNCHANGED co

\* A push with write access leaves auto-merge on.
PushHead(k, extra) ==
  /\ Room
  /\ pr[k].auto => "moved_after_decision" \in Faults
  /\ pr' = [pr EXCEPT ![k] = [open |-> TRUE, base |-> Len(main), extra |-> extra,
                              serial |-> mishaps', green |-> FALSE, auto |-> @.auto]]
  /\ UNCHANGED <<main, co, publishVars, sonarVars>>

Outdated(k) == ~pr[k].open \/ pr[k].base # Len(main) \/ pr[k].extra

\* The updater's proposal from the tip of main.
Propose == Outdated("update") /\ UNCHANGED mishaps /\ PushHead("update", FALSE)

\* Someone adds to a bot's branch.
PushExtra(k) == pr[k].open /\ Mishap /\ PushHead(k, TRUE)

\* Checks end, or are run again.
Check(k) ==
  /\ pr[k].open /\ Room
  /\ pr' = [pr EXCEPT ![k].green = ~@]
  /\ UNCHANGED <<main, co, publishVars, sonarVars, mishaps>>

\* Someone touches the draft or makes its tag.
EditDraft ==
  /\ draft # NoDraft /\ Mishap
  /\ run.step = "publish" => "edited_late" \in Faults
  /\ \/ \E c \in 1 .. Len(main) \cup {Foreign} : draft' = [draft EXCEPT !.target = c]
        /\ UNCHANGED tag
     \/ \E b \in {Nothing, Foreign} : \/ draft' = [draft EXCEPT !.zip = b]
                                      \/ draft' = [draft EXCEPT !.sum = b]
        /\ UNCHANGED tag
     \/ tag' \in 1 .. Len(main) \cup {Foreign} /\ UNCHANGED draft
  /\ UNCHANGED <<main, pr, co, run, published, sonarVars>>

\* Sonar analyses the tip of main after a push, or the draft's commit when asked
\* to; the later of two analyses cancels the other.
Scan(c) ==
  /\ run.step \in {"status", "again"} /\ c = run.sha => "scanned_twice" \in Faults
  /\ scanned' = c
  /\ scanning' = FALSE
  /\ UNCHANGED <<main, pr, co, publishVars, mishaps>>
ScanMain == scanning /\ Scan(Len(main))
ScanDraft == InMain(draft.target) /\ scanned # draft.target /\ Scan(draft.target)

-----------------------------------------------------------------------------
(* The coordinator: main() of ha_update_github.py, one call a step.  What it *)
(* reads is judged at once: a run that will refuse only reads on.           *)

Kind == IF "update" \in co.targets THEN "update" ELSE "release"
OpenTargets == {k \in Kinds : pr[k].open}

Coordinate(from, next) ==
  /\ co.step = from
  /\ co' = next
  /\ UNCHANGED <<main, pr, publishVars, sonarVars, mishaps>>

\* open_targets.  An update is compared with the checkout of this run.  (Once main
\* is at its bound, nothing a run decides can be merged any more.)
Start ==
  /\ OpenTargets # {} /\ Room
  /\ Coordinate("off", [Off EXCEPT
       !.step = "repo", !.targets = OpenTargets,
       !.main = IF "update" \in OpenTargets THEN Len(main) ELSE Nothing])

\* The second snapshot begins with the same question and must agree with the
\* first on everything but the checks.
Again ==
  /\ OpenTargets = co.targets
  /\ Coordinate("again", [co EXCEPT !.step = "repo"])

LoadBranch ==
  /\ co.main \in {Nothing, Len(main)}
  /\ Coordinate("repo", [co EXCEPT !.step = "latest", !.main = Len(main)])

\* The commits after the latest published release, up to main as it was read:
\* none beside an update, which must not meet a release either, and exactly one
\* update in a release.
Unreleased == Latest + 1 .. co.main
Isolated ==
  IF Kind = "update"
  THEN Unreleased = {} /\ "release" \notin co.targets
  ELSE Unreleased = {co.main} /\ main[co.main].kind = "update"
LoadRelease ==
  /\ Isolated
  /\ Coordinate("latest", [co EXCEPT !.step = "pull"])

LoadPull ==
  /\ pr[Kind].open /\ ~pr[Kind].auto /\ pr[Kind].base = co.main
  /\ co.head \in {Closed, HeadOf(Kind)}
  /\ Coordinate("pull", [co EXCEPT !.step = "rest", !.head = HeadOf(Kind)])

\* _required_results: of all required checks, run again or not.
ChecksGreen == pr[Kind].green

\* exact_update and version_only_release: nothing was added to what the bots
\* would have calculated.
AsCalculated == ~pr[Kind].extra

\* The rest of load_pr; when the head moved since LoadPull, the answers are about
\* a mixture of heads and may please or not.
Clean == HeadOf(Kind) = co.head => ChecksGreen /\ AsCalculated

Decide ==
  /\ Clean
  /\ Coordinate("rest", IF co.round = 1
                        THEN [co EXCEPT !.step = "again", !.round = 2]
                        ELSE [co EXCEPT !.step = "opt_in"])

\* Ineligible, changed, or a call that failed three times.
GiveUp ==
  /\ co.step # "off"
  /\ co' = Off
  /\ UNCHANGED <<main, pr, publishVars, sonarVars, mishaps>>

\* (A merge of whatever is there.)
AnyHead == TRUE

\* --match-head-commit
MatchesHead == HeadOf(Kind) = co.head

\* gh pr merge --auto: merged at once if nothing is in the way.
OptIn ==
  /\ co.step = "opt_in" /\ MatchesHead /\ pr[Kind].open
  /\ co' = Off
  /\ \/ Merge(Kind, TRUE)
     \/ /\ ~Mergeable(Kind)
        /\ pr' = [pr EXCEPT ![Kind].auto = TRUE]
        /\ UNCHANGED <<main, publishVars, sonarVars, mishaps>>

-----------------------------------------------------------------------------
(* The Release workflow: prepare, Sonar's gate, publish.                   *)

Advance(from, next) ==
  /\ run.step = from
  /\ run' = [run EXCEPT !.step = next]
  /\ UNCHANGED <<main, pr, co, tag, published, sonarVars, mishaps>>

Fails ==
  /\ run' = NoRun
  /\ UNCHANGED <<main, pr, co, draft, tag, published, sonarVars, mishaps>>

\* Release Please: a draft for a merged release, otherwise its pull request.
Untagged == {c \in Releases : \A r \in published : r.of # c}
CreateDraft ==
  /\ run.step = "off" /\ draft = NoDraft
  /\ \E c \in Untagged : draft' = [NoDraft EXCEPT !.of = c, !.target = c]
  /\ UNCHANGED <<main, pr, co, tag, run, published, sonarVars, mishaps>>
MaintainPull ==
  /\ run.step = "off" /\ draft = NoDraft /\ Untagged = {}
  /\ Latest < Len(main) /\ Outdated("release")
  /\ UNCHANGED mishaps
  /\ PushHead("release", FALSE)

\* _pending_release and inspect_release name the candidate.
Inspect ==
  /\ run.step = "off" /\ draft # NoDraft
  /\ run' = [NoRun EXCEPT !.step = "revision", !.sha = draft.target]
  /\ UNCHANGED <<main, pr, co, draft, tag, published, sonarVars, mishaps>>

\* check_analysis; a revision that is not the latest one times out.
ReadRevision == scanned = run.sha /\ Advance("revision", "status") /\ UNCHANGED draft
ReadStatus ==
  /\ InMain(scanned) /\ main[scanned].safe
  /\ Advance("status", "again") /\ UNCHANGED draft
ReadAgain == scanned = run.sha /\ Advance("again", "verify") /\ UNCHANGED draft
GateFails ==
  /\ \/ run.step \in {"revision", "again"} /\ scanned # run.sha
     \/ run.step = "status" /\ ~(InMain(scanned) /\ main[scanned].safe)
  /\ Fails

\* _verified_draft
SameDraft == draft.target = run.sha /\ tag \in {Nothing, run.sha}

\* verify_checkout and release_version; the archive is built.  The draft and its
\* tag are two calls, here and in Reread: an edit between them counts as one that
\* came after the look.
Verified == InMain(run.sha) /\ Version(run.sha) = Version(draft.of) /\ SameDraft
Verify ==
  /\ run.step = "verify" /\ Verified
  /\ run' = [run EXCEPT !.step = "zip", !.zip = draft.zip, !.sum = draft.sum]
  /\ UNCHANGED <<main, pr, co, draft, tag, published, sonarVars, mishaps>>

\* (An upload that wants its name to be free.)
UsableIfNew(listed) == listed = Nothing

\* _upload_artifact: a listed asset must have the digest of the local file.
Usable(listed) == listed \in {Nothing, run.sha}

\* GitHub refuses a second asset of one name.
Upload(name, next) ==
  /\ Usable(run[name])
  /\ IF run[name] = Nothing
     THEN draft[name] = Nothing /\ draft' = [draft EXCEPT ![name] = run.sha]
     ELSE UNCHANGED draft
  /\ Advance(name, next)

\* (A second look at the identity only.)
StandsAsBegun == SameDraft

\* The re-read before the publish step.
Stands == SameDraft /\ draft.zip = run.sha /\ draft.sum = run.sha
Reread == Stands /\ Advance("reread", "publish") /\ UNCHANGED draft

PublishFails ==
  /\ \/ run.step = "verify" /\ ~Verified
     \/ \E name \in {"zip", "sum"} :
          /\ run.step = name
          /\ \/ ~Usable(run[name])
             \/ run[name] = Nothing /\ draft[name] # Nothing
     \/ run.step = "reread" /\ ~Stands
  /\ Fails

\* GitHub makes the tag at the target if there is none.
Publish ==
  /\ run.step = "publish"
  /\ published' = published \cup
       {[of |-> draft.of, zip |-> draft.zip, sum |-> draft.sum,
         at |-> IF tag = Nothing THEN draft.target ELSE tag]}
  /\ draft' = NoDraft /\ tag' = Nothing /\ run' = NoRun
  /\ UNCHANGED <<main, pr, co, sonarVars, mishaps>>

\* A runner dies, perhaps during an upload.
Kill ==
  /\ run.step # "off" /\ Mishap
  /\ run' = NoRun
  /\ \/ UNCHANGED draft
     \/ /\ run.step \in {"zip", "sum"} /\ run[run.step] = Nothing
        /\ draft[run.step] = Nothing
        /\ draft' = [draft EXCEPT ![run.step] = Partial]
  /\ UNCHANGED <<main, pr, co, tag, published, sonarVars>>

-----------------------------------------------------------------------------
Others ==
  \/ MergeWork \/ Propose \/ EditDraft \/ Kill
  \/ \E k \in Kinds : MergeByHand(k) \/ AutoMerge(k) \/ PushExtra(k) \/ Check(k)
  \/ ScanMain

Coordinator ==
  \/ Start \/ Again \/ LoadBranch \/ LoadRelease \/ LoadPull
  \/ Decide \/ GiveUp \/ OptIn

Workflow ==
  \/ CreateDraft \/ Inspect
  \/ ReadRevision \/ ReadStatus \/ ReadAgain \/ GateFails
  \/ Verify \/ Upload("zip", "sum") \/ Upload("sum", "reread")
  \/ Reread \/ PublishFails \/ Publish

Next == Others \/ ScanDraft \/ Coordinator \/ Workflow \/ MaintainPull

\* A failed run is started again, a missing scan of the draft is requested
\* (docs/releasing.md, "If publication fails").
Fairness == WF_vars(Workflow) /\ WF_vars(ScanDraft)

Spec == Init /\ [][Next]_vars /\ Fairness

-----------------------------------------------------------------------------
(* Properties.                                                             *)

\* What was merged without a person is what the coordinator is for: an update
\* that is exactly the calculated one and the only commit since a published
\* release, or a release of nothing but one update, although every fact was read
\* at another moment, checks are run again, and main moves up to its second
\* reading and a head up to the opt-in (what moves later, moved_after_decision,
\* is described in the README only; ha_update_github.py:249-280, ha_update_merge.py:85-123).
AutoMergedAsDecided ==
  \A i \in 1 .. Len(main) : main[i].auto =>
    /\ ~main[i].extra
    /\ \/ main[i].kind = "update" /\ \E r \in published : r.at = i - 1
       \/ /\ main[i].kind = "release"
          /\ main[i - 1].kind = "update"
          /\ \E r \in published : r.at = i - 2

\* A published release stands for one commit of main that has its version and
\* no open security finding, and both assets are what this commit builds,
\* although drafts are edited and runs killed between any two steps
\* (release_github.py:136-152, check_sonar_release.py:32-61).
PublishedVerified ==
  \A r \in published :
    /\ InMain(r.at) /\ Version(r.at) = Version(r.of) /\ main[r.at].safe
    /\ r.zip = r.at /\ r.sum = r.at

Intact ==
  /\ draft # NoDraft /\ draft.target = draft.of /\ main[draft.of].safe
  /\ tag \in {Nothing, draft.of} /\ {draft.zip, draft.sum} \subseteq {Nothing, draft.of}

\* A publication that was interrupted is completed by those that follow: a
\* draft that nobody edited and no broken upload spoiled gets published, with
\* the assets it already has (release_github.py:124-133).
DraftResumable == Intact ~> ~Intact
=============================================================================
