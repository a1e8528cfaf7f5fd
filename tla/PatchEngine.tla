---------------------------- MODULE PatchEngine ----------------------------
(***************************************************************************)
(* The exact matching of UnifiedDiffEngine (patch_engine.py) and the diff  *)
(* that build_patch (patch_builder.py) derives from an edited file, put to *)
(* use: a rule is drafted in the editor or given as an explicit patch, and *)
(* its target is applied and reverted as inspect allows.                   *)
(*                                                                         *)
(* A text is a sequence of bytes in which NL ends a line and one glyph     *)
(* stands for the rest of it: two glyphs in a row are lines glued          *)
(* together, a glyph at the end is a line without a final newline.  Line   *)
(* endings are a property of the whole text, as _text makes them.          *)
(***************************************************************************)
EXTENDS Naturals, Sequences, SequencesExt, FiniteSets

CONSTANTS Glyphs,         \* what a line may consist of
          NL,             \* the newline
          MaxLines,       \* bound on the lines of a target
          MaxPatchLines,  \* bound on the old and new lines of an explicit patch
          MaxScript,      \* bound on the lines of an edit
          MaxTarget,      \* MAX_TARGET_BYTES
          FirstContext    \* lines of context build_patch begins with

ASSUME EngineAssumption ==
  /\ NL \notin Glyphs
  /\ {MaxLines, MaxPatchLines, MaxScript, MaxTarget} \subseteq Nat
  /\ MaxTarget >= 2 * MaxScript          \* MAX_EDITOR_BYTES is the smaller limit
  /\ FirstContext \in Nat \ {0}

VARIABLES
  phase,     \* "drafting" in the editor, "refused", or a "rule"
  script,    \* the edit as difflib aligns it: kept, removed and added lines
  context,   \* lines of context of the current candidate
  hunks,     \* the rule's parsed patch
  raw,       \* the target's bytes
  was        \* ghost: what the last step applied the patch to

vars == <<phase, script, context, hunks, raw, was>>

-----------------------------------------------------------------------------
(* Texts                                                                    *)

Terminated(lines) == FlattenSeq([i \in DOMAIN lines |-> <<lines[i], NL>>])

\* At most n lines; only the last can lack its newline.
TextsUpTo(n) ==
  {Terminated(l) : l \in BoundedSeq(Glyphs, n)} \cup
  {Front(Terminated(l)) : l \in BoundedSeq(Glyphs, n) \ {<<>>}}

Newlines(text) == Cardinality({i \in DOMAIN text : text[i] = NL})
NumLines(text) ==
  Newlines(text) + IF text = <<>> \/ Last(text) = NL THEN 0 ELSE 1

\* Uniform endings of a text, LF when it has none.
Ended(text, ends) == [text |-> text, ends |-> IF Newlines(text) = 0 THEN "lf" ELSE ends]
Raws ==
  {r \in [text : TextsUpTo(MaxLines), ends : {"lf", "crlf"}] :
     Newlines(r.text) = 0 => r.ends = "lf"} \cup
  {r \in [text : TextsUpTo(2), ends : {"mixed"}] : Newlines(r.text) = 2}
NoRaw == [text |-> <<>>, ends |-> "none"]

Size(r) == Len(r.text) + IF r.ends = "crlf" THEN Newlines(r.text) ELSE 0

\* What parse accepts as a hunk with at most n lines a side: lines on both
\* sides, at most the last of each without its newline, and a change.
HunksUpTo(n) ==
  LET sides == TextsUpTo(n) \ {<<>>}
  IN {h \in [before : sides, after : sides] : h.before # h.after}
LinesOf(patch) ==
  FoldLeft(LAMBDA n, h : n + NumLines(h.before) + NumLines(h.after), 0, patch)

-----------------------------------------------------------------------------
(* UnifiedDiffEngine                                                        *)

\* _unique_location: whole-line matches of part in text.
Places(part, text) ==
  {i \in 1 .. Len(text) + 1 - Len(part) :
     /\ SubSeq(text, i, i + Len(part) - 1) = part
     /\ i = 1 \/ text[i - 1] = NL
     /\ Last(part) = NL \/ i + Len(part) = Len(text) + 1}

Old(h, reverse) == IF reverse THEN h.after ELSE h.before
New(h, reverse) == IF reverse THEN h.before ELSE h.after

Begin(h, text, reverse) == CHOOSE i \in Places(Old(h, reverse), text) : TRUE
End(h, text, reverse)   == Begin(h, text, reverse) + Len(Old(h, reverse))

\* _direction: every hunk has one place, and the places come in order.
InOrderNot(patch, text, reverse) == TRUE
InOrder(patch, text, reverse) ==
  \A k \in 2 .. Len(patch) :
    Begin(patch[k], text, reverse) >= End(patch[k - 1], text, reverse)

UniqueEnough(part, text) == Places(part, text) # {}
Unique(part, text) == Cardinality(Places(part, text)) = 1

Placed(patch, text, reverse) ==
  /\ \A k \in DOMAIN patch : Unique(Old(patch[k], reverse), text)
  /\ InOrder(patch, text, reverse)

Rewritten(patch, text, reverse) ==
  LET Cut(k) == IF k = 0 THEN 1 ELSE End(patch[k], text, reverse)
      Piece(k) == SubSeq(text, Cut(k - 1), Begin(patch[k], text, reverse) - 1)
                    \o New(patch[k], reverse)
  IN FlattenSeq([k \in DOMAIN patch |-> Piece(k)])
       \o SubSeq(text, Cut(Len(patch)), Len(text))

\* inspect: status and the bytes the one possible direction would write.
Refused(status) == [status |-> status, output |-> NoRaw]
WouldWrite(status, r) ==
  IF Size(r) > MaxTarget THEN Refused("invalid_patch")
                         ELSE [status |-> status, output |-> r]

Inspect(patch, r) ==
  LET forward == Placed(patch, r.text, FALSE)
      reverse == Placed(patch, r.text, TRUE)
      Output(back) == Ended(Rewritten(patch, r.text, back), r.ends)
  IN CASE r.ends = "mixed" \/ Size(r) > MaxTarget -> Refused("invalid_patch")
       [] forward /\ reverse -> Refused("invalid_patch")
       [] ~forward /\ ~reverse -> Refused("conflict")
       [] OTHER -> IF forward THEN WouldWrite("applicable", Output(FALSE))
                              ELSE WouldWrite("applied", Output(TRUE))

-----------------------------------------------------------------------------
(* build_patch                                                              *)

Line == [tag : {"keep", "remove", "add"}, glyph : Glyphs]
Side(lines, other) ==
  FlattenSeq([i \in DOMAIN lines |->
    IF lines[i].tag = other THEN <<>> ELSE <<lines[i].glyph, NL>>])

Original == Side(script, "add")
Edited   == Side(script, "remove")

\* The editor's text is never empty, and an unchanged one is refused before.
Scripts ==
  {s \in BoundedSeq(Line, MaxScript) :
     /\ Side(s, "add") # <<>> /\ Side(s, "remove") # <<>>
     /\ Side(s, "add") # Side(s, "remove")}

\* unified_diff with n lines of context: the lines within n of a change, cut
\* into a hunk wherever lines are left out.
Kept(n) ==
  {i \in DOMAIN script : \E j \in DOMAIN script :
     script[j].tag # "keep" /\ i <= j + n /\ j <= i + n}
RunEnd(n, i) == Max({j \in DOMAIN script : i .. j \subseteq Kept(n)})
HunkFrom(n, i) ==
  LET lines == SubSeq(script, i, RunEnd(n, i))
  IN [before |-> Side(lines, "add"), after |-> Side(lines, "remove")]
Candidate(n) ==
  FlattenSeq([i \in DOMAIN script |->
    IF i \in Kept(n) /\ i - 1 \notin Kept(n) THEN <<HunkFrom(n, i)>> ELSE <<>>])

\* parse refuses a hunk without old or without new lines.
Anchored(patch) == \A k \in DOMAIN patch : patch[k].before # <<>> /\ patch[k].after # <<>>

AppliesOnly(patch) ==
  /\ Anchored(patch)
  /\ Inspect(patch, Ended(Original, "lf")) =
       [status |-> "applicable", output |-> Ended(Edited, "lf")]
RoundTrip(patch) ==
  /\ Anchored(patch)
  /\ Inspect(patch, Ended(Original, "lf")) =
       [status |-> "applicable", output |-> Ended(Edited, "lf")]
  /\ Inspect(patch, Ended(Edited, "lf")) =
       [status |-> "applied", output |-> Ended(Original, "lf")]

Longer(a, b) == IF a > b THEN a ELSE b
Maximum == Longer(NumLines(Original), NumLines(Edited))

ExhaustedEarly(n) == 2 * n >= Maximum
Exhausted(n) == n >= Maximum

Widen ==
  /\ phase = "drafting"
  /\ ~RoundTrip(Candidate(context))
  /\ ~Exhausted(context)
  /\ context' = IF 2 * context > Maximum THEN Maximum ELSE 2 * context
  /\ UNCHANGED <<phase, script, hunks, raw, was>>

Refuse ==
  /\ phase = "drafting"
  /\ ~RoundTrip(Candidate(context))
  /\ Exhausted(context)
  /\ phase' = "refused"
  /\ UNCHANGED <<script, context, hunks, raw, was>>

\* The edited file itself is the rule's target.
Accept ==
  /\ phase = "drafting"
  /\ RoundTrip(Candidate(context))
  /\ phase' = "rule"
  /\ hunks' = Candidate(context)
  /\ UNCHANGED <<script, context, raw, was>>

-----------------------------------------------------------------------------
(* Use of a rule (_output_for_action)                                       *)

Apply ==
  /\ phase = "rule"
  /\ Inspect(hunks, raw).status = "applicable"
  /\ raw' = Inspect(hunks, raw).output
  /\ was' = raw
  /\ UNCHANGED <<phase, script, context, hunks>>

Revert ==
  /\ phase = "rule"
  /\ Inspect(hunks, raw).status = "applied"
  /\ raw' = Inspect(hunks, raw).output
  /\ was' = NoRaw
  /\ UNCHANGED <<phase, script, context, hunks>>

\* Explicit patches meet any target; an edit starts from its own original.
ExplicitPatches ==
  {p \in UNION {[1 .. n -> HunksUpTo(MaxPatchLines + 1 - 2 * n)] : n \in 1 .. 3} :
     LinesOf(p) <= MaxPatchLines}

Init ==
  /\ was = NoRaw
  /\ context = FirstContext
  /\ \/ /\ phase = "rule" /\ script = <<>>
        /\ hunks \in ExplicitPatches
        /\ raw \in Raws
     \/ /\ phase = "drafting" /\ hunks = <<>>
        /\ script \in Scripts
        /\ raw = Ended(Original, "lf")

Next == Widen \/ Refuse \/ Accept \/ Apply \/ Revert

Spec == Init /\ [][Next]_vars

-----------------------------------------------------------------------------
(* Properties                                                               *)

\* Reference: every way to read text as unchanged bytes around the hunks' old
\* sides, in order and on whole lines, and what the new sides make of it.
Readings(patch, text, reverse) ==
  {at \in [DOMAIN patch -> 1 .. Len(text) + 1] :
     /\ \A k \in DOMAIN patch : at[k] \in Places(Old(patch[k], reverse), text)
     /\ \A k \in 2 .. Len(patch) : at[k] >= at[k - 1] + Len(Old(patch[k - 1], reverse))}

\* What is written is the only thing the diff can mean for this target: it can
\* be read in one direction only and in one way only.
OnlyReading ==
  phase = "rule" =>
    LET seen == Inspect(hunks, raw)  back == seen.status = "applied" IN
    seen.output # NoRaw =>
      /\ Cardinality(Readings(hunks, raw.text, back)) = 1
      /\ ~Placed(hunks, raw.text, ~back)

\* A patch is not applied to its own result: with automatic application each
\* check would write, and wake, the next one.
ReconcileIdempotent == was # NoRaw => Inspect(hunks, raw).status # "applicable"

\* A new side without its newline, put where the target goes on: its line and
\* the next one become one.
Glued(patch, text) ==
  \E k \in DOMAIN patch :
    Last(patch[k].after) # NL /\ End(patch[k], text, FALSE) # Len(text) + 1

\* When the result of an Apply that glued no lines counts as applied, a Revert
\* restores the bytes there were; only a result without any newline has
\* forgotten a CRLF.
RevertRestores ==
  LET seen == Inspect(hunks, raw) IN
  was # NoRaw /\ ~Glued(hunks, was.text) /\ seen.status = "applied" =>
    /\ seen.output.text = was.text
    /\ Newlines(raw.text) > 0 => seen.output.ends = was.ends

\* A rule made in the editor can always be reverted after it was applied.
EditReverts ==
  was # NoRaw /\ script # <<>> => Inspect(hunks, raw) = [status |-> "applied", output |-> was]

\* The editor only refuses an edit when one of the two texts is found, once, in
\* the other.
RefusedForCause ==
  phase = "refused" => Unique(Original, Edited) \/ Unique(Edited, Original)
=============================================================================
