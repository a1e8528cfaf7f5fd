---------------------- MODULE ReleaseAutomationProofs ----------------------
(* Proofs about ReleaseAutomation, for a history of any length, any number  *)
(* of mishaps and any faults but those that a theorem excludes.             *)
EXTENDS ReleaseAutomation, TLAPS

-----------------------------------------------------------------------------
(* What holds of every variable, whatever happens                           *)

CommitShape == [kind : Kinds \cup {"work"}, extra : BOOLEAN, auto : BOOLEAN, safe : BOOLEAN]
History == Seq(CommitShape)
Pulls   == [open : BOOLEAN, base : Nat, extra : BOOLEAN, serial : Nat,
            green : BOOLEAN, auto : BOOLEAN]
Drafts  == [of : Nat, target : Int, zip : Int, sum : Int]
Gate    == {"revision", "status", "again", "verify"}
Uploads == {"zip", "sum", "reread", "publish"}
Judging == {"latest", "pull", "rest", "opt_in"}

Shapes ==
  /\ main \in History /\ main # <<>>
  /\ pr \in [Kinds -> Pulls]
  /\ co \in [step : {"off", "again", "repo"} \cup Judging, round : Nat,
             targets : SUBSET Kinds, main : Nat, head : Pulls]
  /\ draft \in Drafts /\ tag \in Int
  /\ run \in [step : {"off"} \cup Gate \cup Uploads, sha : Int, zip : Int, sum : Int]
  /\ published \subseteq [of : Nat, at : Int, zip : Int, sum : Int]
  /\ scanned \in Int /\ mishaps \in Nat

\* Nobody knows a commit that is not there yet, or a serial that was not used.
Placed ==
  /\ \A k \in Kinds : pr[k].base <= Len(main) /\ pr[k].serial <= mishaps
  /\ co.main <= Len(main) /\ co.head.serial <= mishaps
  /\ co.step \in Judging => co.main # Nothing
  /\ draft.of <= Len(main) /\ draft.target <= Len(main) /\ tag <= Len(main)
  /\ draft # NoDraft => draft.of # Nothing
  /\ run.step # "off" => draft # NoDraft
  /\ \A r \in published : r.at <= Len(main) /\ r.of \in 1 .. Len(main)

LatestExists == \E r \in published : \A q \in published : q.at <= r.at

Common == Shapes /\ Placed /\ LatestExists

-----------------------------------------------------------------------------
(* What is merged without a person                                          *)

ReleasedAt(c) == \E r \in published : r.at = c

\* The coordinator is for a pull request of kind k on commit b.
Justified(k, b) ==
  \/ k = "update" /\ ReleasedAt(b)
  \/ k = "release" /\ main[b].kind = "update" /\ ReleasedAt(b - 1)

\* What the coordinator found out about main holds as long as main is what it
\* read, and it has judged the head that it names.
Aimed ==
  /\ co.step \in {"pull", "rest", "opt_in"} /\ co.main = Len(main) =>
       Justified(Kind, co.main)
  /\ co.step \in {"rest", "opt_in"} => co.head.base = co.main
  /\ co.step = "opt_in" /\ co.head.extra => HeadOf(Kind) # co.head

\* An opt-in that main has overtaken never comes to a merge.
OptedIn ==
  \A k \in Kinds : pr[k].auto /\ pr[k].base = Len(main) =>
    ~pr[k].extra /\ Justified(k, pr[k].base)

Merged ==
  \A i \in 1 .. Len(main) : main[i].auto =>
    i > 1 /\ ~main[i].extra /\ Justified(main[i].kind, i - 1)

Merging == Aimed /\ OptedIn /\ Merged

-----------------------------------------------------------------------------
(* What is published                                                        *)

SafeCommit(c) == InMain(c) /\ main[c].safe

\* Sonar's answer was about the candidate if it names it before and after.
Judged ==
  /\ run.step = "again" /\ scanned = run.sha => SafeCommit(run.sha)
  /\ run.step \in {"verify"} \cup Uploads => SafeCommit(run.sha)
  /\ run.step \in Uploads => Version(run.sha) = Version(draft.of)
  /\ run.step = "publish" => Stands

Publishing == Judged /\ PublishedVerified
-----------------------------------------------------------------------------
(* The history                                                              *)

LEMMA ClosedIsPull ==
  /\ Closed \in Pulls /\ ~Closed.open /\ ~Closed.extra /\ ~Closed.auto
  /\ Closed.base = 0 /\ Closed.serial = 0
BY DEF Closed, Pulls, Nothing

\* Pull requests that are left are as they were.
LEMMA LeftOver ==
  ASSUME NEW pulls \in [Kinds -> Pulls]
  PROVE  /\ Left(pulls) \in [Kinds -> Pulls]
         /\ \A k \in Kinds : Left(pulls)[k] \in {pulls[k], Closed}
BY ClosedIsPull DEF Left

\* So are those beside the merged one.
LEMMA MergedPulls ==
  ASSUME pr \in [Kinds -> Pulls], NEW k \in Kinds, pr' = Left([pr EXCEPT ![k] = Closed])
  PROVE  pr' \in [Kinds -> Pulls] /\ \A g \in Kinds : pr'[g] \in {pr[g], Closed}
<1> DEFINE rest == [pr EXCEPT ![k] = Closed]
<1>1. rest \in [Kinds -> Pulls] /\ \A g \in Kinds : rest[g] \in {pr[g], Closed}
  BY ClosedIsPull
<1>2. pr' = Left(rest)
  OBVIOUS
<1> HIDE DEF rest
<1> QED  BY <1>1, <1>2, LeftOver

\* A commit that lands is the last one and disturbs none before it.
LEMMA Landed ==
  ASSUME main \in History, NEW c \in CommitShape, main' = Append(main, c)
  PROVE  /\ main' \in History /\ main' # <<>> /\ Len(main') = Len(main) + 1
         /\ \A i \in 1 .. Len(main) : main'[i] = main[i]
         /\ main'[Len(main) + 1] = c
BY DEF History, CommitShape

\* Nothing that is said of a commit changes.
Grown == Len(main') >= Len(main) /\ \A i \in 1 .. Len(main) : main'[i] = main[i]

LEMMA VersionsStay ==
  ASSUME Grown, Len(main) \in Nat, Len(main') \in Nat, NEW c \in 1 .. Len(main)
  PROVE  Version(c)' = Version(c)
<1>1. {r \in Releases : r <= c}' = {r \in Releases : r <= c}
  BY DEF Grown, Releases
<1> QED  BY <1>1 DEF Version

-----------------------------------------------------------------------------
(* The common part                                                          *)

\* The steps that move main leave the rest of what is common alone.
LEMMA LandCommon ==
  ASSUME Common, NEW c \in CommitShape, Land(c),
         pr' \in [Kinds -> Pulls], \A k \in Kinds : pr'[k] \in {pr[k], Closed},
         co' = co \/ co' = Off,
         mishaps' \in Nat, mishaps' >= mishaps
  PROVE  Common'
<1>1. main' \in History /\ main' # <<>> /\ Len(main') = Len(main) + 1
  BY Landed DEF Land, Common, Shapes
<1>2. Len(main) \in Nat
  BY DEF Common, Shapes, History
<1>3. UNCHANGED <<draft, tag, run, published, scanned>>
  BY DEF Land, publishVars
<1>4. /\ pr' \in [Kinds -> Pulls]
      /\ \A k \in Kinds : pr'[k].base <= Len(main) /\ pr'[k].serial <= mishaps
  BY <1>2, ClosedIsPull DEF Common, Shapes, Placed
<1>5. Off \in [step : {"off"}, round : Nat, targets : SUBSET Kinds, main : Nat, head : Pulls]
      /\ Off.step = "off" /\ Off.main = 0 /\ Off.head = Closed
  BY ClosedIsPull DEF Off, Nothing
<1>6. Shapes'
  BY <1>1, <1>3, <1>4, <1>5 DEF Common, Shapes
<1>7. \A x \in Int : x <= Len(main) => x <= Len(main')
  BY <1>1, <1>2
<1>8. /\ co'.main <= Len(main') /\ co'.head.serial <= mishaps'
      /\ co'.step \in Judging => co'.main # Nothing
  BY <1>1, <1>2, <1>5, ClosedIsPull DEF Common, Shapes, Placed, Pulls, Judging
<1>9. Placed'
  <2>1. \A k \in Kinds : pr'[k].base <= Len(main') /\ pr'[k].serial <= mishaps'
    BY <1>1, <1>2, <1>4 DEF Common, Shapes, Pulls
  <2>2. draft'.of <= Len(main') /\ draft'.target <= Len(main') /\ tag' <= Len(main')
    BY <1>3, <1>7 DEF Common, Shapes, Placed, Drafts
  <2>3. \A r \in published' : r.at <= Len(main') /\ r.of \in 1 .. Len(main')
    BY <1>1, <1>2, <1>3 DEF Common, Shapes, Placed
  <2> QED  BY <1>3, <1>8, <2>1, <2>2, <2>3 DEF Common, Placed
<1>10. LatestExists'
  BY <1>3 DEF Common, LatestExists
<1> QED  BY <1>6, <1>9, <1>10 DEF Common

\* Those of pull requests, bots and checks but the merges.
LEMMA PullCommon ==
  ASSUME Common, NEW k \in Kinds,
         UNCHANGED <<main, publishVars, scanned>>, co' = co \/ co' = Off,
         mishaps' \in Nat, mishaps' >= mishaps,
         NEW p \in Pulls, pr' = [pr EXCEPT ![k] = p],
         p.base <= Len(main), p.serial <= mishaps'
  PROVE  Common'
<1>1. Len(main) \in Nat /\ mishaps \in Nat
  BY DEF Common, Shapes, History
<1>2. Off \in [step : {"off"}, round : Nat, targets : SUBSET Kinds, main : Nat, head : Pulls]
      /\ Off.step = "off" /\ Off.main = 0 /\ Off.head = Closed
  BY ClosedIsPull DEF Off, Nothing
<1>3. Shapes'
  BY <1>2 DEF Common, Shapes, publishVars
<1>4. \A g \in Kinds : pr'[g].base <= Len(main') /\ pr'[g].serial <= mishaps'
  BY <1>1 DEF Common, Shapes, Placed, Pulls
<1>5. /\ co'.main <= Len(main') /\ co'.head.serial <= mishaps'
      /\ co'.step \in Judging => co'.main # Nothing
  BY <1>1, <1>2, ClosedIsPull DEF Common, Shapes, Placed, Pulls, Judging
<1>6. Placed'
  BY <1>4, <1>5 DEF Common, Placed, publishVars
<1>7. LatestExists'
  BY DEF Common, LatestExists, publishVars
<1> QED  BY <1>3, <1>6, <1>7 DEF Common

\* Those of the publication.
LEMMA PublishCommon ==
  ASSUME Common, UNCHANGED <<main, pr, co>>, mishaps' \in Nat, mishaps' >= mishaps,
         scanned' \in Int, draft' \in Drafts, tag' \in Int,
         run' \in [step : {"off"} \cup Gate \cup Uploads, sha : Int, zip : Int, sum : Int],
         draft'.of <= Len(main), draft'.target <= Len(main), tag' <= Len(main),
         draft' # NoDraft => draft'.of # Nothing,
         run'.step # "off" => draft' # NoDraft,
         \/ published' = published
         \/ \E r \in [of : Nat, at : Int, zip : Int, sum : Int] :
              /\ published' = published \cup {r}
              /\ r.at <= Len(main) /\ r.of \in 1 .. Len(main)
  PROVE  Common'
<1>1. Len(main) \in Nat /\ mishaps \in Nat
  BY DEF Common, Shapes, History
<1>2. Shapes'
  BY DEF Common, Shapes
<1>3. /\ \A k \in Kinds : pr[k].serial \in Nat
      /\ co.head.serial \in Nat
  BY DEF Common, Shapes, Pulls
<1>4. Placed'
  BY <1>1, <1>3 DEF Common, Placed
<1>5. LatestExists'
  <2>1. PICK r \in published : \A q \in published : q.at <= r.at
    BY DEF Common, LatestExists
  <2>2. CASE published' = published
    BY <2>1, <2>2 DEF LatestExists
  <2>3. ASSUME NEW s \in [of : Nat, at : Int, zip : Int, sum : Int],
               published' = published \cup {s}
        PROVE  LatestExists'
    <3>1. \A q \in published : q.at \in Int
      BY DEF Common, Shapes
    <3>2. CASE s.at <= r.at
      BY <2>1, <2>3, <3>1, <3>2 DEF LatestExists
    <3>3. CASE ~(s.at <= r.at)
      <4>1. \A q \in published' : q.at <= s.at
        BY <2>1, <2>3, <3>1, <3>3
      <4> QED  BY <2>3, <4>1 DEF LatestExists
    <3> QED  BY <3>2, <3>3
  <2> QED  BY <2>2, <2>3
<1> QED  BY <1>2, <1>4, <1>5 DEF Common
\* A pull request becomes a commit of the same kind.
LEMMA MergeCommit ==
  ASSUME Shapes, NEW k \in Kinds, NEW auto \in BOOLEAN
  PROVE  [kind |-> k, extra |-> pr[k].extra, auto |-> auto, safe |-> main[Len(main)].safe]
           \in CommitShape
<1>1. Len(main) \in 1 .. Len(main)
  BY DEF Shapes, History
<1>2. main[Len(main)] \in CommitShape
  BY <1>1 DEF Shapes, History
<1>3. pr[k] \in Pulls
  BY DEF Shapes
<1>4. main[Len(main)].safe \in BOOLEAN /\ pr[k].extra \in BOOLEAN
  BY <1>2, <1>3 DEF CommitShape, Pulls
<1> QED  BY <1>4 DEF CommitShape

\* What the coordinator reads fits, whatever it finds.
LEMMA CoordinatorCommon ==
  ASSUME Common, Start \/ Again \/ LoadBranch \/ LoadRelease \/ LoadPull \/ Decide \/ GiveUp
  PROVE  Common'
<1> DEFINE CoShape == [step : {"off", "again", "repo"} \cup Judging, round : Nat,
                       targets : SUBSET Kinds, main : Nat, head : Pulls]
<1>1. UNCHANGED <<main, pr, publishVars, scanned, mishaps>>
  BY DEF Start, Again, LoadBranch, LoadRelease, LoadPull, Decide, GiveUp, Coordinate, sonarVars
<1>2. /\ co \in CoShape /\ pr \in [Kinds -> Pulls] /\ mishaps \in Nat
      /\ Len(main) \in Nat /\ Len(main) # 0
      /\ \A k \in Kinds : pr[k].base <= Len(main) /\ pr[k].serial <= mishaps
      /\ co.main <= Len(main) /\ co.head.serial <= mishaps
      /\ co.step \in Judging => co.main # Nothing
  BY DEF Common, Shapes, Placed, History
<1>3. /\ Off \in CoShape /\ Off.step = "off" /\ Off.main = 0
      /\ Off.head.serial = 0
  BY ClosedIsPull DEF Off, Nothing
<1>4. ASSUME co' \in CoShape, co'.main <= Len(main), co'.head.serial <= mishaps,
             co'.step \in Judging => co'.main # Nothing
      PROVE  Common'
  <2>1. Shapes'
    BY <1>1, <1>4 DEF Common, Shapes, publishVars
  <2>2. Placed'
    BY <1>1, <1>4 DEF Common, Placed, publishVars
  <2>3. LatestExists'
    BY <1>1 DEF Common, LatestExists, publishVars
  <2> QED  BY <2>1, <2>2, <2>3 DEF Common
<1>5. CASE Start
  <2>1. PICK c \in {Nothing, Len(main)} :
          co' = [Off EXCEPT !.step = "repo", !.targets = OpenTargets, !.main = c]
    BY <1>5 DEF Start, Coordinate
  <2>2. /\ co' \in CoShape /\ co'.main = c /\ co'.head = Off.head /\ co'.step = "repo"
    BY <1>2, <1>3, <2>1 DEF OpenTargets, Nothing
  <2> QED  BY <1>2, <1>3, <1>4, <2>1, <2>2 DEF Judging, Nothing
<1>6. CASE Again
  <2>1. co' = [co EXCEPT !.step = "repo"]
    BY <1>6 DEF Again, Coordinate
  <2> QED  BY <1>2, <1>4, <2>1 DEF Judging
<1>7. CASE LoadBranch
  <2>1. co' = [co EXCEPT !.step = "latest", !.main = Len(main)]
    BY <1>7 DEF LoadBranch, Coordinate
  <2>2. co' \in CoShape
    BY <1>2, <2>1 DEF Judging
  <2>3. co'.main = Len(main) /\ co'.head = co.head
    BY <1>2, <2>1
  <2> QED  BY <1>2, <1>4, <2>2, <2>3 DEF Nothing
<1>8. CASE LoadRelease
  <2>1. co' = [co EXCEPT !.step = "pull"] /\ co.step = "latest"
    BY <1>8 DEF LoadRelease, Coordinate
  <2> QED  BY <1>2, <1>4, <2>1 DEF Judging
<1>9. CASE LoadPull
  <2>1. co' = [co EXCEPT !.step = "rest", !.head = HeadOf(Kind)] /\ co.step = "pull"
    BY <1>9 DEF LoadPull, Coordinate
  <2>2. Kind \in Kinds
    BY DEF Kind, Kinds
  <2>3. HeadOf(Kind) \in Pulls /\ HeadOf(Kind).serial = pr[Kind].serial
    BY <1>2, <2>2 DEF HeadOf, Pulls
  <2>4. co' \in CoShape /\ co'.main = co.main /\ co'.head = HeadOf(Kind)
    BY <1>2, <2>1, <2>3 DEF Judging
  <2> QED  BY <1>2, <1>4, <2>1, <2>2, <2>3, <2>4 DEF Judging
<1>10. CASE Decide
  <2>1. /\ co.step = "rest"
        /\ \/ co' = [co EXCEPT !.step = "again", !.round = 2]
           \/ co' = [co EXCEPT !.step = "opt_in"]
    BY <1>10 DEF Decide, Coordinate
  <2>2. co' \in CoShape
    <3>1. CASE co' = [co EXCEPT !.step = "again", !.round = 2]
      BY <1>2, <3>1
    <3>2. CASE co' = [co EXCEPT !.step = "opt_in"]
      BY <1>2, <3>2 DEF Judging
    <3> QED  BY <2>1, <3>1, <3>2
  <2>3. co'.main = co.main /\ co'.head = co.head
    BY <1>2, <2>1
  <2> QED  BY <1>2, <1>4, <2>1, <2>2, <2>3 DEF Judging
<1>11. CASE GiveUp
  <2>1. co' = Off
    BY <1>11 DEF GiveUp
  <2> QED  BY <1>2, <1>3, <1>4, <2>1 DEF Judging
<1> QED  BY <1>5, <1>6, <1>7, <1>8, <1>9, <1>10, <1>11

\* Pushes, checks and merges.
LEMMA HeadCommon ==
  ASSUME Common,
         \/ MergeWork \/ Propose \/ MaintainPull \/ OptIn
         \/ \E k \in Kinds : MergeByHand(k) \/ AutoMerge(k) \/ PushExtra(k) \/ Check(k)
  PROVE  Common'
<1>1. /\ pr \in [Kinds -> Pulls] /\ mishaps \in Nat /\ Len(main) \in Nat
      /\ \A k \in Kinds : pr[k].base <= Len(main) /\ pr[k].serial <= mishaps
  BY DEF Common, Shapes, Placed, History
<1>2. ASSUME NEW k \in Kinds, NEW auto \in BOOLEAN, Merge(k, auto), co' = co \/ co' = Off
      PROVE  Common'
  <2>1. PICK c \in CommitShape : Land(c)
    BY <1>2, MergeCommit DEF Merge, Common
  <2>2. /\ pr' \in [Kinds -> Pulls] /\ \A g \in Kinds : pr'[g] \in {pr[g], Closed}
        /\ mishaps' = mishaps
    BY <1>1, <1>2, MergedPulls DEF Merge
  <2>3. mishaps' \in Nat /\ mishaps' >= mishaps
    BY <1>1, <2>2
  <2> QED  BY <1>2, <2>1, <2>2, <2>3, LandCommon
<1>3. ASSUME NEW k \in Kinds, NEW extra \in BOOLEAN, PushHead(k, extra),
             mishaps' \in {mishaps, mishaps + 1}
      PROVE  Common'
  <2> DEFINE p == [open |-> TRUE, base |-> Len(main), extra |-> extra,
                   serial |-> mishaps', green |-> FALSE, auto |-> pr[k].auto]
  <2>1. p \in Pulls
    BY <1>1, <1>3 DEF Pulls
  <2>2. pr' = [pr EXCEPT ![k] = p]
    BY <1>3 DEF PushHead
  <2>3. UNCHANGED <<main, co, publishVars, scanned>> /\ mishaps' \in Nat /\ mishaps' >= mishaps
    BY <1>1, <1>3 DEF PushHead, sonarVars
  <2>4. p.base <= Len(main) /\ p.serial <= mishaps'
    BY <1>1, <2>3
  <2> HIDE DEF p
  <2> QED  BY <2>1, <2>2, <2>3, <2>4, PullCommon
<1>4. CASE MergeWork
  <2>1. PICK safe \in BOOLEAN :
          /\ Land([kind |-> "work", extra |-> FALSE, auto |-> FALSE, safe |-> safe])
          /\ mishaps' = mishaps \/ mishaps' = mishaps + 1
    BY <1>4 DEF MergeWork, Mishap
  <2>2. [kind |-> "work", extra |-> FALSE, auto |-> FALSE, safe |-> safe] \in CommitShape
    BY DEF CommitShape
  <2>3. /\ pr' \in [Kinds -> Pulls] /\ \A g \in Kinds : pr'[g] \in {pr[g], Closed}
        /\ co' = co
    BY <1>1, <1>4, LeftOver DEF MergeWork
  <2> QED  BY <1>1, <2>1, <2>2, <2>3, LandCommon
<1>5. Propose => Common'
  BY <1>3 DEF Propose, Kinds
<1>6. MaintainPull => Common'
  BY <1>3 DEF MaintainPull, Kinds
<1>7. ASSUME NEW k \in Kinds, MergeByHand(k) \/ AutoMerge(k) \/ PushExtra(k)  PROVE Common'
  BY <1>2, <1>3, <1>7 DEF MergeByHand, AutoMerge, PushExtra, Mishap
<1>8. ASSUME NEW k \in Kinds, Check(k)  PROVE Common'
  <2>1. PICK p : p = [pr[k] EXCEPT !.green = ~@]
    OBVIOUS
  <2>2. p \in Pulls /\ p.base = pr[k].base /\ p.serial = pr[k].serial
    BY <1>1, <2>1 DEF Pulls
  <2>3. pr' = [pr EXCEPT ![k] = p]
    BY <1>8, <2>1 DEF Check
  <2>4. UNCHANGED <<main, co, publishVars, scanned, mishaps>>
    BY <1>8 DEF Check, sonarVars
  <2>5. /\ mishaps' \in Nat /\ mishaps' >= mishaps
        /\ p.base <= Len(main) /\ p.serial <= mishaps'
    BY <1>1, <2>2, <2>4
  <2> QED  BY <2>2, <2>3, <2>4, <2>5, PullCommon
<1>9. CASE OptIn
  <2>1. Kind \in Kinds
    BY DEF Kind, Kinds
  <2>2. CASE Merge(Kind, TRUE)
    BY <1>2, <1>9, <2>1, <2>2 DEF OptIn
  <2>3. CASE /\ pr' = [pr EXCEPT ![Kind].auto = TRUE]
             /\ UNCHANGED <<main, publishVars, sonarVars, mishaps>>
    <3>1. PICK p : p = [pr[Kind] EXCEPT !.auto = TRUE]
      OBVIOUS
    <3>2. p \in Pulls /\ p.base = pr[Kind].base /\ p.serial = pr[Kind].serial
      BY <1>1, <2>1, <3>1 DEF Pulls
    <3>3. pr' = [pr EXCEPT ![Kind] = p]
      BY <2>3, <3>1
    <3>4. UNCHANGED <<main, publishVars, scanned, mishaps>> /\ co' = Off
      BY <1>9, <2>3 DEF OptIn, sonarVars
    <3>5. /\ mishaps' \in Nat /\ mishaps' >= mishaps
          /\ p.base <= Len(main) /\ p.serial <= mishaps'
      BY <1>1, <2>1, <3>2, <3>4
    <3> QED  BY <2>1, <3>2, <3>3, <3>4, <3>5, PullCommon
  <2> QED  BY <1>9, <2>2, <2>3 DEF OptIn
<1> QED  BY <1>4, <1>5, <1>6, <1>7, <1>8, <1>9

\* Sonar, the workflow and those who meddle with its draft.
LEMMA DraftCommon ==
  ASSUME Common,
         \/ EditDraft \/ Kill \/ ScanMain \/ ScanDraft
         \/ CreateDraft \/ Inspect \/ ReadRevision \/ ReadStatus \/ ReadAgain \/ GateFails
         \/ Verify \/ Upload("zip", "sum") \/ Upload("sum", "reread")
         \/ Reread \/ PublishFails \/ Publish
  PROVE  Common'
<1> DEFINE RunShape == [step : {"off"} \cup Gate \cup Uploads, sha : Int, zip : Int, sum : Int]
<1> USE DEF Nothing, Foreign, Partial
<1>1. /\ draft \in Drafts /\ tag \in Int /\ scanned \in Int /\ mishaps \in Nat
      /\ run \in RunShape /\ Len(main) \in Nat /\ Len(main) # 0
      /\ draft.of <= Len(main) /\ draft.target <= Len(main) /\ tag <= Len(main)
      /\ draft # NoDraft => draft.of # 0
      /\ run.step # "off" => draft # NoDraft
  BY DEF Common, Shapes, Placed, History
<1>2. UNCHANGED <<main, pr, co>> /\ mishaps' \in Nat /\ mishaps' >= mishaps
  <2>1. UNCHANGED <<main, pr, co>> /\ (mishaps' = mishaps \/ mishaps' = mishaps + 1)
    BY DEF EditDraft, Kill, ScanMain, ScanDraft, Scan, CreateDraft, Inspect, ReadRevision,
       ReadStatus, ReadAgain, GateFails, Verify, Upload, Reread, PublishFails, Publish,
       Advance, Fails, Mishap
  <2> QED  BY <1>1, <2>1
<1>3. NoRun \in RunShape /\ NoRun.step = "off" /\ NoDraft \in Drafts
  BY DEF NoRun, NoDraft, Drafts
<1>4. ASSUME scanned' \in Int, draft' = draft, tag' = tag, published' = published,
             run' \in RunShape, run'.step # "off" => draft # NoDraft
      PROVE  Common'
  BY <1>1, <1>2, <1>4, PublishCommon
<1>5. ASSUME scanned' = scanned, published' = published, tag' \in Int, tag' <= Len(main),
             draft # NoDraft, draft' \in Drafts, draft'.of = draft.of,
             draft'.target <= Len(main), run' \in RunShape
      PROVE  Common'
  <2>1. draft' # NoDraft
    BY <1>1, <1>5 DEF NoDraft
  <2> QED  BY <1>1, <1>2, <1>5, <2>1, PublishCommon
<1>6. ASSUME NEW from, NEW next \in Gate \cup Uploads, Advance(from, next), from # "off"
      PROVE  /\ run' \in RunShape /\ draft # NoDraft
             /\ UNCHANGED <<tag, published, scanned>>
  BY <1>1, <1>6 DEF Advance, sonarVars
<1>7. Fails => Common'
  BY <1>1, <1>3, <1>4 DEF Fails, sonarVars
<1>8. CASE EditDraft
  <2>1. /\ draft # NoDraft /\ UNCHANGED <<run, published, scanned>>
    BY <1>8 DEF EditDraft, sonarVars
  <2>2. ASSUME NEW c \in 1 .. Len(main) \cup {-1}, draft' = [draft EXCEPT !.target = c],
               tag' = tag
        PROVE  Common'
    BY <1>1, <1>5, <2>1, <2>2 DEF Drafts
  <2>3. ASSUME NEW b \in {0, -1}, tag' = tag,
               draft' = [draft EXCEPT !.zip = b] \/ draft' = [draft EXCEPT !.sum = b]
        PROVE  Common'
    BY <1>1, <1>5, <2>1, <2>3 DEF Drafts
  <2>4. ASSUME tag' \in 1 .. Len(main) \cup {-1}, draft' = draft  PROVE Common'
    BY <1>1, <1>5, <2>1, <2>4
  <2> QED  BY <1>8, <2>2, <2>3, <2>4 DEF EditDraft
<1>9. CASE Kill
  <2>1. run' = NoRun /\ UNCHANGED <<tag, published, scanned>> /\ run.step # "off"
    BY <1>9 DEF Kill, sonarVars
  <2>2. \/ draft' = draft
        \/ draft' = [draft EXCEPT !.zip = -2] \/ draft' = [draft EXCEPT !.sum = -2]
    BY <1>9 DEF Kill
  <2>3. draft' \in Drafts /\ draft'.of = draft.of /\ draft'.target = draft.target
    BY <1>1, <2>2 DEF Drafts
  <2> QED  BY <1>1, <1>3, <1>5, <2>1, <2>3
<1>10. CASE ScanMain \/ ScanDraft
  <2>1. scanned' \in Int /\ UNCHANGED publishVars
    BY <1>1, <1>10 DEF ScanMain, ScanDraft, Scan, Drafts
  <2> QED  BY <1>1, <1>4, <2>1 DEF publishVars
<1>11. CASE CreateDraft
  <2>1. PICK c \in Untagged : draft' = [NoDraft EXCEPT !.of = c, !.target = c]
    BY <1>11 DEF CreateDraft
  <2>2. c \in 1 .. Len(main)
    BY <2>1 DEF Untagged, Releases
  <2>3. draft' \in Drafts /\ draft'.of = c /\ draft'.target = c
    <3>1. draft' = [of |-> c, target |-> c, zip |-> 0, sum |-> 0]
      BY <2>1 DEF NoDraft
    <3> QED  BY <1>1, <2>2, <3>1 DEF Drafts
  <2>4. UNCHANGED <<tag, run, published, scanned>> /\ run.step = "off"
    BY <1>11 DEF CreateDraft, sonarVars
  <2> QED  BY <1>1, <1>2, <2>2, <2>3, <2>4, PublishCommon
<1>12. CASE Inspect
  <2>1. run' = [NoRun EXCEPT !.step = "revision", !.sha = draft.target]
    BY <1>12 DEF Inspect
  <2>2. run' \in RunShape
    BY <1>1, <1>3, <2>1 DEF Gate, Drafts
  <2> QED  BY <1>1, <1>4, <1>12, <2>2 DEF Inspect, sonarVars
<1>13. CASE ReadRevision \/ ReadStatus \/ ReadAgain \/ Reread
  <2>1. /\ run' \in RunShape /\ draft # NoDraft /\ UNCHANGED <<tag, published, scanned, draft>>
    BY <1>6, <1>13 DEF ReadRevision, ReadStatus, ReadAgain, Reread, Gate, Uploads
  <2> QED  BY <1>1, <1>4, <2>1
<1>14. CASE GateFails \/ PublishFails
  BY <1>7, <1>14 DEF GateFails, PublishFails
<1>15. CASE Verify
  <2>1. /\ run' = [run EXCEPT !.step = "zip", !.zip = draft.zip, !.sum = draft.sum]
        /\ run.step = "verify" /\ UNCHANGED <<draft, tag, published, scanned>>
    BY <1>15 DEF Verify, sonarVars
  <2>2. run' \in RunShape
    BY <1>1, <2>1 DEF Uploads, Drafts
  <2> QED  BY <1>1, <1>4, <2>1, <2>2
<1>16. CASE Upload("zip", "sum") \/ Upload("sum", "reread")
  <2>1. /\ run' \in RunShape /\ draft # NoDraft /\ UNCHANGED <<tag, published, scanned>>
    BY <1>6, <1>16 DEF Upload, Uploads
  <2>2. \/ draft' = draft
        \/ draft' = [draft EXCEPT !.zip = run.sha] \/ draft' = [draft EXCEPT !.sum = run.sha]
    BY <1>16 DEF Upload
  <2>3. draft' \in Drafts /\ draft'.of = draft.of /\ draft'.target = draft.target
    BY <1>1, <2>2 DEF Drafts
  <2> QED  BY <1>1, <1>5, <2>1, <2>3
<1>17. CASE Publish
  <2>1. /\ draft' = NoDraft /\ tag' = 0 /\ run' = NoRun /\ scanned' = scanned
        /\ run.step = "publish"
    BY <1>17 DEF Publish, sonarVars
  <2>2. PICK c \in {draft.target, tag} :
          published' = published \cup
            {[of |-> draft.of, zip |-> draft.zip, sum |-> draft.sum, at |-> c]}
    BY <1>17 DEF Publish
  <2>3. draft.of \in 1 .. Len(main) /\ c \in Int /\ c <= Len(main)
    BY <1>1, <2>1 DEF Drafts
  <2>4. PICK r : r = [of |-> draft.of, at |-> c, zip |-> draft.zip, sum |-> draft.sum]
    OBVIOUS
  <2>5. /\ r \in [of : Nat, at : Int, zip : Int, sum : Int] /\ published' = published \cup {r}
        /\ r.at <= Len(main) /\ r.of \in 1 .. Len(main)
    BY <1>1, <2>2, <2>3, <2>4 DEF Drafts
  <2>6. NoDraft.of = 0 /\ NoDraft.target = 0
    BY DEF NoDraft
  <2> QED  BY <1>1, <1>2, <1>3, <2>1, <2>5, <2>6, PublishCommon
<1> QED
  BY <1>8, <1>9, <1>10, <1>11, <1>12, <1>13, <1>14, <1>15, <1>16, <1>17

LEMMA CommonInit == Init => Common
<1> SUFFICES ASSUME Init  PROVE Common
  OBVIOUS
<1> USE DEF Nothing
<1>1. main \in History /\ main # <<>> /\ Len(main) = 1
  BY DEF Init, History, CommitShape, Kinds
<1>2. /\ pr \in [Kinds -> Pulls] /\ \A k \in Kinds : pr[k] = Closed
  BY ClosedIsPull DEF Init
<1>3. published = {[of |-> 1, at |-> 1, zip |-> 1, sum |-> 1]}
  BY DEF Init
<1>4. Shapes
  BY <1>1, <1>2, <1>3, ClosedIsPull
     DEF Init, Shapes, Off, NoDraft, NoRun, Drafts
<1>5. Placed
  BY <1>1, <1>2, <1>3, ClosedIsPull DEF Init, Placed, Off, NoDraft, NoRun, Judging
<1>6. LatestExists
  BY <1>3 DEF LatestExists
<1> QED  BY <1>4, <1>5, <1>6 DEF Common

LEMMA CommonStep == Common /\ [Next]_vars => Common'
<1> SUFFICES ASSUME Common, [Next]_vars  PROVE Common'
  OBVIOUS
<1>1. UNCHANGED vars => Common'
  BY DEF vars, publishVars, Common, Shapes, Placed, LatestExists
<1> QED
  BY <1>1, HeadCommon, CoordinatorCommon, DraftCommon
     DEF Next, Others, Coordinator, Workflow
-----------------------------------------------------------------------------
(* Merges without a person                                                  *)

LEMMA Lengths == ASSUME Common  PROVE Len(main) \in Nat /\ Len(main) >= 1
BY DEF Common, Shapes, History

\* A release that is out stays out.
LEMMA JustifiedStays ==
  ASSUME \A i \in 1 .. Len(main) : main'[i] = main[i], published \subseteq published',
         NEW k, NEW b \in 1 .. Len(main), Justified(k, b)
  PROVE  Justified(k, b)'
BY DEF Justified, ReleasedAt

\* What a record of a head shows of its pull request.
LEMMA HeadShows ==
  ASSUME Shapes, NEW k \in Kinds
  PROVE  /\ HeadOf(k).extra = pr[k].extra /\ HeadOf(k).base = pr[k].base
         /\ HeadOf(k).serial = pr[k].serial
<1>1. pr[k] \in Pulls
  BY DEF Shapes
<1> QED  BY <1>1 DEF HeadOf, Pulls

LEMMA KindIsOne == Kind \in Kinds
BY DEF Kind, Kinds

\* Steps that leave main alone take nothing away from what was merged.
LEMMA MergedStays ==
  ASSUME Common, Merging, main' = main, published \subseteq published'
  PROVE  /\ Merged'
         /\ pr' = pr => OptedIn'
         /\ pr' = pr /\ co' = co => Aimed'
<1>1. Len(main) \in Nat /\ Len(main) >= 1
  BY Lengths
<1>2. ASSUME NEW k, NEW b \in 1 .. Len(main), Justified(k, b)  PROVE Justified(k, b)'
  BY <1>2, JustifiedStays
<1>3. Merged'
  <2>1. SUFFICES ASSUME NEW i \in 1 .. Len(main), main[i].auto
        PROVE  i > 1 /\ ~main[i].extra /\ Justified(main[i].kind, i - 1)'
    BY DEF Merged, Justified, ReleasedAt
  <2>2. i > 1 /\ ~main[i].extra /\ Justified(main[i].kind, i - 1)
    BY <2>1 DEF Merging, Merged
  <2>3. i - 1 \in 1 .. Len(main)
    BY <1>1, <2>2
  <2> QED  BY <1>2, <2>2, <2>3
<1>4. ASSUME pr' = pr  PROVE OptedIn'
  BY <1>1, <1>2, <1>4 DEF Merging, OptedIn, Justified, ReleasedAt
<1>5. ASSUME pr' = pr, co' = co  PROVE Aimed'
  BY <1>1, <1>2, <1>5 DEF Merging, Aimed, Justified, ReleasedAt, HeadOf, Kind
<1> QED  BY <1>3, <1>4, <1>5

\* A commit that lands overtakes whatever was decided on main as it was.
LEMMA LandMerging ==
  ASSUME Common, Merging, NEW c \in CommitShape, Land(c),
         pr' \in [Kinds -> Pulls], \A k \in Kinds : pr'[k] \in {pr[k], Closed},
         co' = co \/ co' = Off,
         c.auto => ~c.extra /\ Justified(c.kind, Len(main))
  PROVE  Merging'
<1>1. /\ Len(main) \in Nat /\ Len(main) >= 1 /\ pr \in [Kinds -> Pulls]
      /\ \A k \in Kinds : pr[k].base <= Len(main) /\ pr[k].base \in Nat
      /\ co.main <= Len(main) /\ co.main \in Nat
  BY Lengths DEF Common, Shapes, Placed, Pulls
<1>2. /\ Len(main') = Len(main) + 1 /\ main'[Len(main) + 1] = c
      /\ \A i \in 1 .. Len(main) : main'[i] = main[i]
  BY Landed DEF Land, Common, Shapes
<1>3. published' = published
  BY DEF Land, publishVars
<1>4. ASSUME NEW k, NEW b \in 1 .. Len(main), Justified(k, b)  PROVE Justified(k, b)'
  BY <1>2, <1>3, <1>4, JustifiedStays
<1>5. \A k \in Kinds : pr'[k] = pr[k] \/ pr'[k] = Closed
  OBVIOUS
<1>6. Off.step = "off"
  BY DEF Off
<1>7. Aimed'
  <2>1. CASE co' = Off
    BY <1>6, <2>1 DEF Aimed
  <2>2. CASE co' = co
    <3>1. co'.main # Len(main')
      BY <1>1, <1>2, <2>2
    <3>2. co.step = "opt_in" /\ co.head.extra => HeadOf(Kind)' # co.head
      <4>1. Kind' = Kind /\ Kind \in Kinds
        BY <2>2, KindIsOne DEF Kind
      <4>2. CASE pr'[Kind] = pr[Kind]
        BY <2>2, <4>1, <4>2 DEF Merging, Aimed, HeadOf
      <4>3. CASE pr'[Kind] = Closed
        <5>1. HeadOf(Kind)' = [Closed EXCEPT !.green = FALSE, !.auto = FALSE]
          BY <4>1, <4>3 DEF HeadOf
        <5>2. ~[Closed EXCEPT !.green = FALSE, !.auto = FALSE].extra
          BY DEF Closed
        <5> QED  BY <5>1, <5>2
      <4> QED  BY <1>5, <4>1, <4>2, <4>3
    <3> QED  BY <2>2, <3>1, <3>2 DEF Merging, Aimed
  <2> QED  BY <2>1, <2>2
<1>8. OptedIn'
  <2>1. \A k \in Kinds : pr'[k].base # Len(main')
    BY <1>1, <1>2, <1>5, ClosedIsPull
  <2> QED  BY <2>1 DEF OptedIn
<1>9. Merged'
  <2>1. SUFFICES ASSUME NEW i \in 1 .. Len(main'), main'[i].auto
        PROVE  i > 1 /\ ~main'[i].extra /\ Justified(main[i].kind, i - 1)'
    BY DEF Merged
  <2>2. CASE i \in 1 .. Len(main)
    <3>1. i > 1 /\ ~main[i].extra /\ Justified(main[i].kind, i - 1) /\ main'[i] = main[i]
      BY <1>2, <2>1, <2>2 DEF Merging, Merged
    <3>2. i - 1 \in 1 .. Len(main)
      BY <1>1, <2>2, <3>1
    <3>3. PICK k, b : k = main[i].kind /\ b = i - 1
      OBVIOUS
    <3>4. Justified(k, b)'
      BY <1>4, <3>1, <3>2, <3>3
    <3> QED  BY <3>1, <3>3, <3>4
  <2>3. CASE i = Len(main) + 1
    <3>1. ~c.extra /\ Justified(c.kind, Len(main)) /\ main'[i] = c
      BY <1>2, <2>1, <2>3
    <3>2. PICK k, b : k = c.kind /\ b = Len(main)
      OBVIOUS
    <3>3. Justified(k, b)'
      BY <1>1, <1>4, <3>1, <3>2
    <3>4. i > 1 /\ i - 1 = b
      BY <1>1, <2>3, <3>2
    <3> QED  BY <3>1, <3>2, <3>3, <3>4
  <2> QED  BY <1>1, <1>2, <2>1, <2>2, <2>3
<1> QED  BY <1>7, <1>8, <1>9 DEF Merging

\* The latest release is one that is out.
LEMMA LatestIsOut ==
  ASSUME Common
  PROVE  Latest \in Int /\ Latest <= Len(main) /\ ReleasedAt(Latest)
<1> DEFINE places == {r.at : r \in published}
<1>1. \A r \in published : r.at \in Int /\ r.at <= Len(main)
  BY DEF Common, Shapes, Placed
<1>2. \E x \in places : \A y \in places : x >= y
  <2>1. PICK r \in published : \A q \in published : q.at <= r.at
    BY DEF Common, LatestExists
  <2> QED  BY <1>1, <2>1
<1>3. Latest \in places
  BY <1>2 DEF Latest, Max
<1> QED  BY <1>1, <1>3 DEF ReleasedAt

\* Between two looks of the coordinator at main there is only what it looks at.
LEMMA CoordinatorMerging ==
  ASSUME Common, Merging,
         Start \/ Again \/ LoadBranch \/ LoadRelease \/ LoadPull \/ Decide \/ GiveUp
  PROVE  Merging'
<1>1. UNCHANGED <<main, pr, published>>
  BY DEF Start, Again, LoadBranch, LoadRelease, LoadPull, Decide, GiveUp, Coordinate,
     publishVars
<1>2. Merged' /\ OptedIn'
  BY <1>1, MergedStays
<1>3. /\ co \in [step : {"off", "again", "repo"} \cup Judging, round : Nat,
                 targets : SUBSET Kinds, main : Nat, head : Pulls]
      /\ Len(main) \in Nat /\ Kind \in Kinds
  BY Lengths, KindIsOne DEF Common, Shapes
<1>4. \A k, b : Justified(k, b)' <=> Justified(k, b)
  BY <1>1 DEF Justified, ReleasedAt
<1>5. CASE Start \/ Again \/ LoadBranch \/ GiveUp
  <2>1. co'.step \in {"repo", "latest", "off"}
    <3>1. Start => co'.step = "repo"
      <4>1. \A c, d : [Off EXCEPT !.step = "repo", !.targets = c, !.main = d].step = "repo"
        BY DEF Off
      <4> QED  BY <4>1 DEF Start, Coordinate
    <3>2. Again \/ LoadBranch => co'.step \in {"repo", "latest"}
      BY <1>3 DEF Again, LoadBranch, Coordinate
    <3>3. GiveUp => co'.step = "off"
      BY DEF GiveUp, Off
    <3> QED  BY <1>5, <3>1, <3>2, <3>3
  <2> QED  BY <1>2, <2>1 DEF Merging, Aimed
<1>6. CASE LoadRelease
  <2>1. co' = [co EXCEPT !.step = "pull"] /\ Isolated
    BY <1>6 DEF LoadRelease, Coordinate
  <2>2. co'.step = "pull" /\ co'.main = co.main /\ co'.targets = co.targets
    BY <1>3, <2>1
  <2>3. ASSUME co.main = Len(main)  PROVE Justified(Kind, co.main)
    <3>1. Latest \in Int /\ Latest <= co.main /\ co.main \in Nat /\ ReleasedAt(Latest)
      BY <1>3, <2>3, LatestIsOut
    <3>2. CASE Kind = "update"
      <4>1. Latest = co.main
        BY <2>1, <3>1, <3>2 DEF Isolated, Unreleased
      <4> QED  BY <3>1, <3>2, <4>1 DEF Justified
    <3>3. CASE Kind = "release"
      <4>1. Unreleased = {co.main} /\ main[co.main].kind = "update"
        BY <2>1, <3>3 DEF Isolated
      <4>2. co.main \in Latest + 1 .. co.main
        BY <4>1 DEF Unreleased
      <4>3. Latest + 1 \in Latest + 1 .. co.main
        BY <3>1, <4>2
      <4>4. Latest = co.main - 1
        BY <3>1, <4>1, <4>3 DEF Unreleased
      <4> QED  BY <3>1, <3>3, <4>1, <4>4 DEF Justified
    <3> QED  BY <1>3, <3>2, <3>3 DEF Kinds
  <2>4. Kind' = Kind
    BY <2>2 DEF Kind
  <2>5. Aimed'
    BY <1>1, <1>4, <2>2, <2>3, <2>4 DEF Aimed
  <2> QED  BY <1>2, <2>5 DEF Merging
<1>7. CASE LoadPull
  <2>1. /\ co' = [co EXCEPT !.step = "rest", !.head = HeadOf(Kind)] /\ co.step = "pull"
        /\ pr[Kind].base = co.main
    BY <1>7 DEF LoadPull, Coordinate
  <2>2. /\ co'.step = "rest" /\ co'.main = co.main /\ co'.targets = co.targets
        /\ co'.head = HeadOf(Kind)
    BY <1>3, <2>1
  <2>3. HeadOf(Kind).base = co.main
    BY <1>3, <2>1, HeadShows DEF Common
  <2>4. Kind' = Kind
    BY <2>2 DEF Kind
  <2>5. Aimed'
    BY <1>1, <1>4, <2>1, <2>2, <2>3, <2>4 DEF Merging, Aimed
  <2> QED  BY <1>2, <2>5 DEF Merging
<1>8. CASE Decide
  <2>1. /\ co.step = "rest" /\ Clean
        /\ \/ co' = [co EXCEPT !.step = "again", !.round = 2]
           \/ co' = [co EXCEPT !.step = "opt_in"]
    BY <1>8 DEF Decide, Coordinate
  <2>2. CASE co' = [co EXCEPT !.step = "again", !.round = 2]
    <3>1. co'.step = "again"
      BY <1>3, <2>2
    <3> QED  BY <1>2, <3>1 DEF Merging, Aimed
  <2>3. CASE co' = [co EXCEPT !.step = "opt_in"]
    <3>1. /\ co'.step = "opt_in" /\ co'.main = co.main /\ co'.targets = co.targets
          /\ co'.head = co.head
      BY <1>3, <2>3
    <3>2. co.head.extra => HeadOf(Kind) # co.head
      BY <1>3, <2>1, HeadShows DEF Clean, AsCalculated, Common
    <3>3. Kind' = Kind
      BY <3>1 DEF Kind
    <3>4. HeadOf(Kind)' = HeadOf(Kind)
      BY <1>1, <3>3 DEF HeadOf
    <3>5. Aimed'
      BY <1>1, <1>4, <2>1, <3>1, <3>2, <3>3, <3>4 DEF Merging, Aimed
    <3> QED  BY <1>2, <3>5 DEF Merging
  <2> QED  BY <2>1, <2>2, <2>3
<1> QED  BY <1>5, <1>6, <1>7, <1>8

\* The head that is opted in is the judged one, on main as it was read.
LEMMA OptInSound ==
  ASSUME Common, Aimed, co.step = "opt_in", MatchesHead, pr[Kind].base = Len(main)
  PROVE  ~pr[Kind].extra /\ Justified(Kind, Len(main))
<1>1. co.head.base = co.main /\ (co.head.extra => HeadOf(Kind) # co.head)
  BY DEF Aimed
<1>2. HeadOf(Kind).extra = pr[Kind].extra /\ HeadOf(Kind).base = pr[Kind].base
  BY HeadShows, KindIsOne DEF Common
<1>3. pr[Kind].extra \in BOOLEAN
  BY KindIsOne DEF Common, Shapes, Pulls
<1>4. co.main = Len(main)
  BY <1>1, <1>2 DEF MatchesHead
<1> QED  BY <1>1, <1>2, <1>3, <1>4 DEF MatchesHead, Aimed
\* Pushes come before an opt-in or with a head it does not name, and merges are
\* those that were opted in.
LEMMA HeadMerging ==
  ASSUME Common, Merging, "moved_after_decision" \notin Faults,
         \/ MergeWork \/ Propose \/ MaintainPull \/ OptIn
         \/ \E k \in Kinds : MergeByHand(k) \/ AutoMerge(k) \/ PushExtra(k) \/ Check(k)
  PROVE  Merging'
<1>1. /\ pr \in [Kinds -> Pulls] /\ mishaps \in Nat /\ Len(main) \in Nat /\ Shapes
      /\ co.head.serial \in Nat /\ co.head.serial <= mishaps
  BY Lengths DEF Common, Shapes, Placed, Pulls
<1>2. ASSUME NEW k \in Kinds, NEW auto \in BOOLEAN, Merge(k, auto), co' = co \/ co' = Off,
             auto => ~pr[k].extra /\ Justified(k, Len(main))
      PROVE  Merging'
  <2>1. PICK c : c = [kind |-> k, extra |-> pr[k].extra, auto |-> auto,
                      safe |-> main[Len(main)].safe]
    OBVIOUS
  <2>2. c \in CommitShape
    BY <1>1, <2>1, MergeCommit
  <2>3. /\ Land(c) /\ pr' \in [Kinds -> Pulls]
        /\ \A g \in Kinds : pr'[g] \in {pr[g], Closed}
    BY <1>1, <1>2, <2>1, MergedPulls DEF Merge
  <2>4. c.auto => ~c.extra /\ Justified(c.kind, Len(main))
    BY <1>2, <2>1
  <2> QED  BY <1>2, <2>2, <2>3, <2>4, LandMerging
<1>3. ASSUME UNCHANGED <<main, publishVars>>
      PROVE  /\ Merged'
             /\ \A k, b : Justified(k, b)' <=> Justified(k, b)
  BY <1>3, MergedStays DEF publishVars, Justified, ReleasedAt
<1>4. ASSUME NEW k \in Kinds, NEW extra \in BOOLEAN, PushHead(k, extra),
             mishaps' \in {mishaps, mishaps + 1}, extra => mishaps' = mishaps + 1
      PROVE  Merging'
  <2>1. UNCHANGED <<main, co, publishVars>> /\ ~pr[k].auto
    BY <1>4 DEF PushHead
  <2>2. /\ pr'[k].extra = extra /\ pr'[k].serial = mishaps' /\ ~pr'[k].auto
        /\ \A g \in Kinds \ {k} : pr'[g] = pr[g]
    BY <1>1, <1>4, <2>1 DEF PushHead
  <2>3. OptedIn'
    BY <1>3, <2>1, <2>2 DEF Merging, OptedIn
  <2>4. co.step = "opt_in" /\ co.head.extra => HeadOf(Kind)' # co.head
    <3>1. Kind' = Kind /\ Kind \in Kinds
      BY <2>1, KindIsOne DEF Kind
    <3>2. CASE Kind # k
      BY <2>1, <2>2, <3>1, <3>2 DEF Merging, Aimed, HeadOf
    <3>3. CASE Kind = k
      <4>1. HeadOf(k)'.extra = extra /\ HeadOf(k)'.serial = mishaps'
        BY <1>1, <1>4, <2>2 DEF HeadOf, PushHead
      <4>2. HeadOf(Kind)' = HeadOf(k)'
        BY <3>1, <3>3 DEF HeadOf
      <4> QED  BY <1>1, <1>4, <4>1, <4>2
    <3> QED  BY <3>2, <3>3
  <2>5. Aimed'
    <3>1. Kind' = Kind
      BY <2>1 DEF Kind
    <3> QED  BY <1>3, <2>1, <2>4, <3>1 DEF Merging, Aimed
  <2> QED  BY <1>3, <2>1, <2>3, <2>5 DEF Merging
<1>5. CASE MergeWork
  <2>1. PICK safe \in BOOLEAN :
          Land([kind |-> "work", extra |-> FALSE, auto |-> FALSE, safe |-> safe])
    BY <1>5 DEF MergeWork
  <2>2. [kind |-> "work", extra |-> FALSE, auto |-> FALSE, safe |-> safe] \in CommitShape
    BY DEF CommitShape
  <2>3. /\ pr' \in [Kinds -> Pulls] /\ \A g \in Kinds : pr'[g] \in {pr[g], Closed}
        /\ co' = co
    BY <1>1, <1>5, LeftOver DEF MergeWork
  <2> QED  BY <2>1, <2>2, <2>3, LandMerging
<1>6. Propose \/ MaintainPull => Merging'
  BY <1>4 DEF Propose, MaintainPull, Kinds
<1>7. ASSUME NEW k \in Kinds, MergeByHand(k) \/ AutoMerge(k)  PROVE Merging'
  <2>1. AutoMerge(k) => ~pr[k].extra /\ Justified(k, Len(main))
    BY DEF AutoMerge, Merge, Mergeable, Merging, OptedIn
  <2> QED  BY <1>2, <1>7, <2>1 DEF MergeByHand, AutoMerge
<1>8. ASSUME NEW k \in Kinds, PushExtra(k)  PROVE Merging'
  BY <1>4, <1>8 DEF PushExtra, Mishap
<1>9. ASSUME NEW k \in Kinds, Check(k)  PROVE Merging'
  <2>1. UNCHANGED <<main, co, publishVars>> /\ pr' = [pr EXCEPT ![k].green = ~@]
    BY <1>9 DEF Check
  <2>2. \A g \in Kinds : /\ pr'[g].auto = pr[g].auto /\ pr'[g].base = pr[g].base
                         /\ pr'[g].extra = pr[g].extra
    BY <1>1, <2>1 DEF Pulls
  <2>3. \A g \in Kinds : HeadOf(g)' = HeadOf(g)
    BY <1>1, <2>1 DEF HeadOf, Pulls
  <2>4. Kind' = Kind /\ HeadOf(Kind)' = HeadOf(Kind)
    BY <2>1, <2>3, KindIsOne DEF Kind, HeadOf
  <2> QED  BY <1>3, <2>1, <2>2, <2>4 DEF Merging, Aimed, OptedIn
<1>10. CASE OptIn
  <2>1. co.step = "opt_in" /\ MatchesHead /\ co' = Off /\ Kind \in Kinds
    BY <1>10, KindIsOne DEF OptIn
  <2>2. pr[Kind].base = Len(main) => ~pr[Kind].extra /\ Justified(Kind, Len(main))
    BY <2>1, OptInSound DEF Merging
  <2>3. CASE Merge(Kind, TRUE)
    BY <1>2, <2>1, <2>2, <2>3 DEF Merge, Mergeable
  <2>4. CASE pr' = [pr EXCEPT ![Kind].auto = TRUE] /\ UNCHANGED <<main, publishVars>>
    <3>1. \A g \in Kinds : /\ pr'[g].base = pr[g].base /\ pr'[g].extra = pr[g].extra
                           /\ g # Kind => pr'[g] = pr[g]
      BY <1>1, <2>1, <2>4 DEF Pulls
    <3>2. OptedIn'
      BY <1>3, <2>2, <2>4, <3>1 DEF Merging, OptedIn
    <3>3. Aimed'
      BY <2>1 DEF Aimed, Off
    <3> QED  BY <1>3, <2>4, <3>2, <3>3 DEF Merging
  <2> QED  BY <1>10, <2>3, <2>4 DEF OptIn
<1> QED  BY <1>5, <1>6, <1>7, <1>8, <1>9, <1>10

LEMMA MergingStep ==
  ASSUME "moved_after_decision" \notin Faults
  PROVE  Common /\ Merging /\ [Next]_vars => Merging'
<1> SUFFICES ASSUME Common, Merging, [Next]_vars  PROVE Merging'
  OBVIOUS
<1>1. ASSUME UNCHANGED <<main, pr, co>>, published \subseteq published'  PROVE Merging'
  BY <1>1, MergedStays DEF Merging
<1>2. UNCHANGED vars => Merging'
  BY <1>1 DEF vars, publishVars
<1>3. EditDraft \/ Kill \/ ScanMain \/ ScanDraft => Merging'
  BY <1>1 DEF EditDraft, Kill, ScanMain, ScanDraft, Scan, publishVars
<1>4. Workflow => Merging'
  BY <1>1 DEF Workflow, CreateDraft, Inspect, ReadRevision, ReadStatus, ReadAgain, GateFails,
     Verify, Upload, Reread, PublishFails, Publish, Advance, Fails
<1> QED
  BY <1>2, <1>3, <1>4, HeadMerging, CoordinatorMerging DEF Next, Others, Coordinator

LEMMA MergingInit == Init => Merging
<1> SUFFICES ASSUME Init  PROVE Merging
  OBVIOUS
<1>1. Len(main) = 1 /\ ~main[1].auto
  BY DEF Init
<1>2. \A k \in Kinds : ~pr[k].auto
  BY ClosedIsPull DEF Init
<1>3. co.step = "off"
  BY DEF Init, Off
<1> QED  BY <1>1, <1>2, <1>3 DEF Merging, Aimed, OptedIn, Merged

\* Nobody's consent is needed for exactly what the coordinator is for: however
\* its reads interleave with pushes, merges and checks, only a calculated update
\* on a published release and a release of one update are merged by themselves,
\* unless main moves after its second reading or a head after the opt-in.
THEOREM MergedAsDecided ==
  ASSUME "moved_after_decision" \notin Faults
  PROVE  Spec => []AutoMergedAsDecided
<1>1. Common /\ Merging => AutoMergedAsDecided
  <2> SUFFICES ASSUME Common, Merging, NEW i \in 1 .. Len(main), main[i].auto
               PROVE  /\ ~main[i].extra
                      /\ \/ main[i].kind = "update" /\ \E r \in published : r.at = i - 1
                         \/ /\ main[i].kind = "release"
                            /\ main[i - 1].kind = "update"
                            /\ \E r \in published : r.at = i - 2
    BY DEF AutoMergedAsDecided
  <2>1. ~main[i].extra /\ Justified(main[i].kind, i - 1)
    BY DEF Merging, Merged
  <2>2. (i - 1) - 1 = i - 2
    BY Lengths
  <2> QED  BY <2>1, <2>2 DEF Justified, ReleasedAt
<1> QED
  BY <1>1, CommonInit, CommonStep, MergingInit, MergingStep, PTL DEF Spec
-----------------------------------------------------------------------------
(* Publication                                                              *)

\* A release of r as PublishedVerified wants it.
Verifies(r) ==
  /\ SafeCommit(r.at) /\ Version(r.at) = Version(r.of)
  /\ r.zip = r.at /\ r.sum = r.at

\* The history keeps what was found out about its commits.
LEMMA CommitsStay ==
  ASSUME Common, Grown, Len(main') \in Nat
  PROVE  /\ \A c : SafeCommit(c) => SafeCommit(c)'
         /\ \A c, d \in 1 .. Len(main) : Version(c) = Version(d) => (Version(c) = Version(d))'
         /\ PublishedVerified => \A r \in published : Verifies(r)'
<1>1. Len(main) \in Nat
  BY Lengths
<1>2. \A c : SafeCommit(c) => SafeCommit(c)'
  BY <1>1 DEF SafeCommit, InMain, Grown
<1>3. ASSUME NEW c \in 1 .. Len(main), NEW d \in 1 .. Len(main), Version(c) = Version(d)
      PROVE  (Version(c) = Version(d))'
  BY <1>1, <1>3, VersionsStay
<1>4. ASSUME PublishedVerified, NEW r \in published  PROVE Verifies(r)'
  <2>1. /\ InMain(r.at) /\ Version(r.at) = Version(r.of) /\ main[r.at].safe
        /\ r.zip = r.at /\ r.sum = r.at
    BY <1>4 DEF PublishedVerified
  <2>2. r.of \in 1 .. Len(main) /\ r.at \in 1 .. Len(main)
    BY <2>1 DEF Common, Placed, InMain
  <2>3. PICK c, d : c = r.at /\ d = r.of
    OBVIOUS
  <2>4. SafeCommit(c)' /\ (Version(c) = Version(d))'
    BY <1>2, <1>3, <2>1, <2>2, <2>3 DEF SafeCommit
  <2> QED  BY <2>1, <2>3, <2>4 DEF Verifies
<1> QED  BY <1>2, <1>3, <1>4

\* Steps of others leave a run's findings as they are.
LEMMA OthersPublishing ==
  ASSUME Common, Publishing, Grown, Len(main') \in Nat, UNCHANGED <<publishVars, scanned>>
  PROVE  Publishing'
<1>1. PublishedVerified'
  <2>1. \A r \in published' : Verifies(r)'
    BY CommitsStay DEF Publishing, publishVars
  <2> QED  BY <2>1 DEF PublishedVerified, Verifies, SafeCommit
<1>2. Judged'
  <2>1. UNCHANGED <<run, draft, tag, scanned>>
    BY DEF publishVars
  <2>2. PICK c, d : c = run.sha /\ d = draft.of
    OBVIOUS
  <2>3. SafeCommit(c) => SafeCommit(c)'
    BY CommitsStay
  <2>4. run.step \in Uploads => (Version(c) = Version(d))'
    <3>1. SUFFICES ASSUME run.step \in Uploads  PROVE (Version(c) = Version(d))'
      OBVIOUS
    <3>2. SafeCommit(c) /\ Version(c) = Version(d)
      BY <2>2, <3>1 DEF Publishing, Judged
    <3>3. d \in 1 .. Len(main)
      BY <2>2, <3>1, Lengths DEF Common, Shapes, Placed, Drafts, Uploads, Nothing
    <3> QED  BY <3>2, <3>3, CommitsStay DEF SafeCommit, InMain
  <2>5. run.step = "publish" => Stands'
    BY <2>1 DEF Publishing, Judged, Stands, SameDraft
  <2> QED  BY <2>1, <2>2, <2>3, <2>4, <2>5 DEF Publishing, Judged
<1> QED  BY <1>1, <1>2 DEF Publishing

\* A run comes to its publish step with what Sonar, main and the draft say.
LEMMA WorkflowPublishing ==
  ASSUME Common, Publishing, {"edited_late", "scanned_twice"} \cap Faults = {},
         \/ EditDraft \/ Kill \/ ScanMain \/ ScanDraft
         \/ CreateDraft \/ Inspect \/ ReadRevision \/ ReadStatus \/ ReadAgain \/ GateFails
         \/ Verify \/ Upload("zip", "sum") \/ Upload("sum", "reread")
         \/ Reread \/ PublishFails \/ Publish
  PROVE  Publishing'
<1>1. /\ main' = main /\ draft \in Drafts /\ Len(main) \in Nat
      /\ run \in [step : {"off"} \cup Gate \cup Uploads, sha : Int, zip : Int, sum : Int]
  BY Lengths
     DEF EditDraft, Kill, ScanMain, ScanDraft, Scan, CreateDraft, Inspect, ReadRevision,
     ReadStatus, ReadAgain, GateFails, Verify, Upload, Reread, PublishFails, Publish,
     Advance, Fails, Common, Shapes
<1>2. \A c, d : /\ Version(c)' = Version(c) /\ SafeCommit(c)' = SafeCommit(c)
  BY <1>1 DEF Version, Releases, SafeCommit, InMain
<1>3. ASSUME published' = published  PROVE PublishedVerified'
  BY <1>1, <1>2, <1>3 DEF Publishing, PublishedVerified, Version, Releases, InMain
<1>4. ASSUME NEW from, NEW next, Advance(from, next)
      PROVE  /\ run.step = from /\ run'.step = next /\ run'.sha = run.sha
             /\ UNCHANGED <<published, scanned, tag>>
  BY <1>1, <1>4 DEF Advance, sonarVars
<1>5. ASSUME run' = NoRun, published' = published  PROVE Publishing'
  BY <1>3, <1>5 DEF Publishing, Judged, NoRun, Gate, Uploads
<1>6. CASE EditDraft
  <2>1. /\ UNCHANGED <<run, published, scanned>> /\ run.step # "publish"
        /\ draft'.of = draft.of
    BY <1>1, <1>6 DEF EditDraft, sonarVars, Drafts
  <2>2. Judged'
    BY <1>1, <2>1 DEF Publishing, Judged, SafeCommit, InMain, Version, Releases
  <2> QED  BY <1>3, <2>1, <2>2 DEF Publishing
<1>7. CASE Kill \/ GateFails \/ PublishFails
  BY <1>5, <1>7 DEF Kill, GateFails, PublishFails, Fails
<1>8. ASSUME NEW c, Scan(c)  PROVE Publishing'
  <2>1. UNCHANGED <<run, draft, tag, published>> /\ scanned' = c
    BY <1>8 DEF Scan, publishVars
  <2>2. run.step = "again" => c # run.sha
    BY <1>8 DEF Scan
  <2>3. Judged'
    BY <1>1, <2>1, <2>2
       DEF Publishing, Judged, SafeCommit, InMain, Version, Releases, Stands, SameDraft
  <2> QED  BY <1>3, <2>1, <2>3 DEF Publishing
<1>9. CASE CreateDraft \/ Inspect
  <2>1. published' = published /\ run'.step \in {"off", "revision"}
    <3>1. [NoRun EXCEPT !.step = "revision", !.sha = draft.target].step = "revision"
      BY DEF NoRun
    <3> QED  BY <1>9, <3>1 DEF CreateDraft, Inspect
  <2> QED  BY <1>3, <2>1 DEF Publishing, Judged, Uploads
<1>10. CASE ReadRevision
  BY <1>3, <1>4, <1>10 DEF ReadRevision, Publishing, Judged, Uploads
<1>11. CASE ReadStatus
  <2>1. /\ run'.step = "again" /\ SafeCommit(scanned)
        /\ UNCHANGED <<published, scanned>> /\ run'.sha = run.sha
    BY <1>4, <1>11 DEF ReadStatus, SafeCommit
  <2>2. Judged'
    BY <1>1, <2>1 DEF Judged, Uploads, SafeCommit, InMain
  <2> QED  BY <1>3, <2>1, <2>2 DEF Publishing
<1>12. CASE ReadAgain
  <2>1. /\ run.step = "again" /\ scanned = run.sha /\ run'.step = "verify"
        /\ UNCHANGED <<published, scanned>> /\ run'.sha = run.sha
    BY <1>4, <1>12 DEF ReadAgain
  <2>2. Judged'
    BY <1>1, <2>1 DEF Publishing, Judged, Uploads, SafeCommit, InMain
  <2> QED  BY <1>3, <2>1, <2>2 DEF Publishing
<1>13. CASE Verify
  <2>1. /\ run.step = "verify" /\ Version(run.sha) = Version(draft.of)
        /\ run'.step = "zip" /\ run'.sha = run.sha /\ UNCHANGED <<draft, published>>
    BY <1>1, <1>13 DEF Verify, Verified
  <2>2. Judged'
    BY <1>1, <2>1 DEF Publishing, Judged, Uploads, SafeCommit, InMain, Version, Releases
  <2> QED  BY <1>3, <2>1, <2>2 DEF Publishing
<1>14. CASE Upload("zip", "sum") \/ Upload("sum", "reread")
  <2>1. /\ run.step \in Uploads /\ run'.step \in {"sum", "reread"} /\ run'.sha = run.sha
        /\ published' = published
    BY <1>4, <1>14 DEF Upload, Uploads
  <2>2. draft'.of = draft.of
    BY <1>1, <1>14 DEF Upload, Drafts
  <2>3. Judged'
    BY <1>1, <2>1, <2>2
       DEF Publishing, Judged, Uploads, SafeCommit, InMain, Version, Releases
  <2> QED  BY <1>3, <2>1, <2>3 DEF Publishing
<1>15. CASE Reread
  <2>1. /\ run.step = "reread" /\ run'.step = "publish" /\ run'.sha = run.sha
        /\ UNCHANGED <<draft, tag, published>> /\ Stands
    BY <1>4, <1>15 DEF Reread
  <2>2. Judged'
    BY <1>1, <2>1
       DEF Publishing, Judged, Uploads, SafeCommit, InMain, Version, Releases, Stands, SameDraft
  <2> QED  BY <1>3, <2>1, <2>2 DEF Publishing
<1>16. CASE Publish
  <2>1. /\ run.step = "publish" /\ run' = NoRun
        /\ published' = published \cup
             {[of |-> draft.of, zip |-> draft.zip, sum |-> draft.sum,
               at |-> IF tag = Nothing THEN draft.target ELSE tag]}
    BY <1>16 DEF Publish
  <2>2. SafeCommit(run.sha) /\ Version(run.sha) = Version(draft.of) /\ Stands
    BY <2>1 DEF Publishing, Judged, Uploads
  <2>3. PICK r : r = [of |-> draft.of, zip |-> draft.zip, sum |-> draft.sum, at |-> run.sha]
    OBVIOUS
  <2>4. published' = published \cup {r}
    BY <2>1, <2>2, <2>3 DEF Stands, SameDraft
  <2>5. Verifies(r)
    BY <2>2, <2>3 DEF Verifies, Stands
  <2>6. \A q \in published' : Verifies(q)
    BY <2>4, <2>5 DEF Publishing, PublishedVerified, Verifies, SafeCommit
  <2>7. PublishedVerified'
    BY <1>1, <2>6 DEF PublishedVerified, Verifies, SafeCommit, InMain, Version, Releases
  <2>8. Judged'
    BY <2>1 DEF Judged, NoRun, Uploads
  <2> QED  BY <2>7, <2>8 DEF Publishing
<1> QED
  BY <1>6, <1>7, <1>8, <1>9, <1>10, <1>11, <1>12, <1>13, <1>14, <1>15, <1>16
     DEF ScanMain, ScanDraft

\* The rest lets main grow and publishes nothing.
LEMMA MainGrows ==
  ASSUME Common,
         \/ MergeWork \/ Propose \/ MaintainPull \/ OptIn
         \/ \E k \in Kinds : MergeByHand(k) \/ AutoMerge(k) \/ PushExtra(k) \/ Check(k)
         \/ Start \/ Again \/ LoadBranch \/ LoadRelease \/ LoadPull \/ Decide \/ GiveUp
  PROVE  UNCHANGED <<publishVars, scanned>> /\ Grown /\ Len(main') \in Nat
<1>1. main \in History /\ Len(main) \in Nat
  BY Lengths DEF Common, Shapes
<1>2. ASSUME NEW c \in CommitShape, Land(c)
      PROVE  UNCHANGED <<publishVars, scanned>> /\ Grown /\ Len(main') \in Nat
  BY <1>1, <1>2, Landed DEF Land, Grown
<1>3. ASSUME main' = main, UNCHANGED <<publishVars, scanned>>
      PROVE  UNCHANGED <<publishVars, scanned>> /\ Grown /\ Len(main') \in Nat
  BY <1>1, <1>3 DEF Grown
<1>4. ASSUME NEW k \in Kinds, NEW auto \in BOOLEAN, Merge(k, auto)
      PROVE  UNCHANGED <<publishVars, scanned>> /\ Grown /\ Len(main') \in Nat
  BY <1>2, <1>4, MergeCommit DEF Merge, Common
<1>5. ASSUME NEW safe \in BOOLEAN
      PROVE  [kind |-> "work", extra |-> FALSE, auto |-> FALSE, safe |-> safe] \in CommitShape
  BY DEF CommitShape
<1>6. MergeWork => UNCHANGED <<publishVars, scanned>> /\ Grown /\ Len(main') \in Nat
  BY <1>2, <1>5 DEF MergeWork
<1>7. OptIn => UNCHANGED <<publishVars, scanned>> /\ Grown /\ Len(main') \in Nat
  BY <1>3, <1>4, KindIsOne DEF OptIn, sonarVars
<1>8. ASSUME NEW k \in Kinds, MergeByHand(k) \/ AutoMerge(k) \/ PushExtra(k) \/ Check(k)
      PROVE  UNCHANGED <<publishVars, scanned>> /\ Grown /\ Len(main') \in Nat
  BY <1>3, <1>4, <1>8 DEF MergeByHand, AutoMerge, PushExtra, PushHead, Check, sonarVars
<1>9. \/ Propose \/ MaintainPull
      \/ Start \/ Again \/ LoadBranch \/ LoadRelease \/ LoadPull \/ Decide \/ GiveUp
      => UNCHANGED <<publishVars, scanned>> /\ Grown /\ Len(main') \in Nat
  BY <1>3 DEF Propose, MaintainPull, PushHead, Start, Again, LoadBranch, LoadRelease, LoadPull,
     Decide, GiveUp, Coordinate, sonarVars
<1> QED  BY <1>6, <1>7, <1>8, <1>9

LEMMA PublishingStep ==
  ASSUME {"edited_late", "scanned_twice"} \cap Faults = {}
  PROVE  Common /\ Publishing /\ [Next]_vars => Publishing'
<1> SUFFICES ASSUME Common, Publishing, [Next]_vars  PROVE Publishing'
  OBVIOUS
<1>1. CASE UNCHANGED vars
  BY <1>1, Lengths, OthersPublishing DEF vars, publishVars, Grown
<1>2. CASE Next
  BY <1>2, MainGrows, OthersPublishing, WorkflowPublishing
     DEF Next, Others, Coordinator, Workflow
<1> QED  BY <1>1, <1>2

LEMMA PublishingInit == Init => Publishing
<1> SUFFICES ASSUME Init  PROVE Publishing
  OBVIOUS
<1>1. Judged
  BY DEF Init, Judged, NoRun, Uploads
<1>2. PublishedVerified
  BY DEF Init, PublishedVerified, InMain
<1> QED  BY <1>1, <1>2 DEF Publishing

\* However a draft is edited and runs are killed, what is published stands for
\* a commit of main with its version, no open finding, and its own two assets.
THEOREM ReleasesVerified ==
  ASSUME {"edited_late", "scanned_twice"} \cap Faults = {}
  PROVE  Spec => []PublishedVerified
<1>1. Publishing => PublishedVerified
  BY DEF Publishing
<1> QED
  BY <1>1, CommonInit, CommonStep, PublishingInit, PublishingStep, PTL DEF Spec
=============================================================================
