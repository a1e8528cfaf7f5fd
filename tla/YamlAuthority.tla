---------------------------- MODULE YamlAuthority ----------------------------
(***************************************************************************)
(* The grants that HAPatchY takes from YAML (yaml_policy.py, path_policy.py*)
(* and yaml_source_graph.py).  They are frozen when Home Assistant starts, *)
(* if two scans of the files around a reading of them agree with each      *)
(* other, and the reading with what Home Assistant booted with.  Every     *)
(* later check scans the files again and denies if the files that define   *)
(* grants, or the structure of includes, are not the frozen ones.          *)
(*                                                                         *)
(* A scan reads one file after the other while others write them; the      *)
(* version of a file stands for its identity, times and hash.  Of the      *)
(* bounds of a scan only the depth of includes is modelled.                *)
(***************************************************************************)
EXTENDS YamlFiles

CONSTANTS
  Starts,      \* what the disk may hold when Home Assistant boots
  Targets,     \* paths that a rule can have as its target
  DirOf,       \* the allowlist entry that covers each of them
  MaxWrites,   \* bound on writes by others
  Faults       \* which of FaultKinds this environment exhibits

FaultKinds == {"flicker"}

ASSUME AuthorityAssumption ==
  /\ \A d \in Starts : d = [f \in Files |-> d[f]] /\ \A f \in Files : d[f] \in Drafts[f]
  /\ MaxWrites \in Nat /\ Faults \subseteq FaultKinds

VARIABLES
  disk,      \* the YAML files
  version,   \* of each, counting its writes
  boot,      \* the document Home Assistant booted with
  phase,     \* of load_yaml_policy, then of the last check
  scan,      \* the running _Scanner: what is still to visit, what was found
  graph,     \* the first, then the frozen SourceGraph
  raw,       \* raw_document, then the frozen grants
  agreed,    \* ghost: the files said what was frozen at some moment of the check
  stood,     \* ghost: what was in the files all through the check
  calm,      \* ghost: nothing was written during the check
  mattered   \* ghost: something that bears on grants or structure was written

vars == <<disk, version, boot, phase, scan, graph, raw, agreed, stood, calm, mattered>>
ghosts == <<agreed, stood, calm, mattered>>

Loading == {"first", "raw", "main", "second"}
Frozen  == {"idle", "checking", "passed", "refused"}
Phases  == Loading \cup Frozen \cup {"denied"}
Scanning == phase \in {"first", "second", "checking"}

NoGraph == [sources |-> {}, listings |-> {}, secrets |-> {}, grants |-> {}]
NoDocument == [files |-> {}, dirs |-> {}, packaged |-> FALSE]

\* _load(("configuration.yaml",), 0, ()); above is the scanner's stack.
Fresh ==
  [todo |-> <<[kind |-> "file", of |-> Root, at |-> <<>>, above |-> {}, depth |-> 0]>>,
   got |-> NoGraph]

\* Types, and no scan holds one file in two versions.
TypeOK ==
  /\ \A f \in Files : disk[f] \in Drafts[f] /\ version[f] \in Nat
  /\ phase \in Phases
  /\ \A n \in DOMAIN scan.todo :
       LET i == scan.todo[n] IN
         /\ i.kind \in {"file", "secret", "folder"}
         /\ i.above \subseteq Files /\ i.depth \in 0 .. MaxDepth + 1
  /\ \A g \in {graph, scan.got} :
       /\ g.sources \subseteq [file : Files, version : Nat]
       /\ \A s, q \in g.sources : s.file = q.file => s = q
       /\ g.grants \subseteq {s.file : s \in g.sources}
       /\ g.secrets \subseteq Secrets
  /\ stood = [f \in Files |-> stood[f]] /\ {agreed, calm, mattered} \subseteq BOOLEAN

Init ==
  /\ disk \in Starts
  /\ Loads(disk)
  /\ version = [f \in Files |-> 0]
  /\ boot = Document(disk)
  /\ phase = "first"
  /\ scan = Fresh
  /\ graph = NoGraph /\ raw = NoDocument
  /\ agreed = FALSE /\ stood = [f \in Files |-> Absent] /\ calm = TRUE /\ mattered = FALSE

-----------------------------------------------------------------------------
(* The scanner                                                              *)

\* _defines_grants
DefinesGrants(at) ==
  \/ at = <<>>
  \/ at[1] = "hapatchy"
  \/ /\ at[1] = "homeassistant"
     /\ \/ Len(at) = 1
        \/ at[2] \in {"allowlist_external_dirs", "packages"}

Item(kind, of, at, i, depth) ==
  [kind |-> kind, of |-> of, at |-> at, above |-> i.above \cup {i.of}, depth |-> depth]

\* _visit_tag: what one leaf of a file makes the scanner visit.
VisitForgettingSecrets(i, l) ==
  CASE l.tag = "plain"  -> <<>>
    [] l.tag = "secret" -> [n \in DOMAIN SecretsOf[i.of] |->
                              Item("secret", SecretsOf[i.of][n], <<"secret">>, i, 0)]
    [] OTHER -> <<Item(IF l.tag = "include" THEN "file" ELSE "folder",
                       l.of, i.at \o l.at, i, i.depth + 1)>>

Visit(i, l) ==
  CASE l.tag = "plain"  -> <<>>
    [] l.tag = "secret" -> [n \in DOMAIN SecretsOf[i.of] |->
                              Item("secret", SecretsOf[i.of][n], i.at \o l.at, i, 0)]
    [] OTHER -> <<Item(IF l.tag = "include" THEN "file" ELSE "folder",
                       l.of, i.at \o l.at, i, i.depth + 1)>>

Visits(i) == FlattenSeq([n \in DOMAIN disk[i.of] |-> Visit(i, disk[i.of][n])])

Next1 == Head(scan.todo)
Rest(found) == [todo |-> Tail(scan.todo), got |-> found]

\* Too deep, a cycle, or a file that was read before and is another one now.
Inadmissible(i) ==
  \/ i.depth > MaxDepth \/ i.of \in i.above
  \/ \E s \in scan.got.sources : s.file = i.of /\ s.version # version[i.of]

Relisted(i) ==
  \E s \in scan.got.listings : s.folder = i.of /\ s.files # Listing(disk, i.of)

\* _load
LoadSource ==
  /\ Scanning /\ scan.todo # <<>>
  /\ LET i == Next1 IN
       /\ i.kind # "folder" /\ disk[i.of] \notin Missing /\ ~Inadmissible(i)
       /\ scan' =
            [todo |-> Visits(i) \o Tail(scan.todo),
             got |-> [scan.got EXCEPT
               !.sources = @ \cup {[file |-> i.of, version |-> version[i.of]]},
               !.grants  = IF DefinesGrants(i.at) THEN @ \cup {i.of} ELSE @,
               !.secrets = IF i.kind = "secret" THEN @ \cup {i.of} ELSE @]]
  /\ UNCHANGED <<disk, version, boot, phase, graph, raw, ghosts>>

\* _secret_candidates: a secrets.yaml that is not there may come.
NoSecrets ==
  /\ Scanning /\ scan.todo # <<>>
  /\ LET i == Next1 IN
       /\ i.kind = "secret" /\ disk[i.of] = Absent /\ i.of \notin i.above
       /\ scan' = Rest([scan.got EXCEPT !.secrets = @ \cup {i.of}])
  /\ UNCHANGED <<disk, version, boot, phase, graph, raw, ghosts>>

\* _include_directory: first the inventory, then the files in any order.
ListFolder ==
  /\ Scanning /\ scan.todo # <<>>
  /\ LET i == Next1
         files == Listing(disk, i.of) IN
       /\ i.kind = "folder" /\ ~Relisted(i)
       /\ \E order \in SetToSeqs(files) :
            scan' =
              [todo |-> [n \in DOMAIN order |-> [i EXCEPT !.kind = "file", !.of = order[n]]]
                          \o Tail(scan.todo),
               got |-> [scan.got EXCEPT
                 !.listings = @ \cup {[folder |-> i.of, files |-> files]}]]
  /\ UNCHANGED <<disk, version, boot, phase, graph, raw, ghosts>>

\* Whatever is not understood denies: at the start for good, later this check.
Deny == phase' = (IF phase \in Loading THEN "denied" ELSE "refused")

ScanDenied ==
  /\ Scanning /\ scan.todo # <<>>
  /\ LET i == Next1 IN
       IF i.kind = "folder" THEN Relisted(i)
       ELSE \/ i.depth > MaxDepth \/ i.of \in i.above
            \/ disk[i.of] = Unsafe
            \/ i.kind = "file" /\ disk[i.of] = Absent
            \/ disk[i.of] # Absent /\ Inadmissible(i)
  /\ Deny /\ scan' = Fresh
  /\ UNCHANGED <<disk, version, boot, graph, raw, ghosts>>

Scanned == Scanning /\ scan.todo = <<>>

-----------------------------------------------------------------------------
(* load_yaml_policy                                                         *)

FirstScanned ==
  /\ Scanned /\ phase = "first"
  /\ graph' = scan.got /\ scan' = Fresh /\ phase' = "raw"
  /\ mattered' = FALSE
  /\ UNCHANGED <<disk, version, boot, raw, agreed, stood, calm>>

LoadRaw ==
  /\ phase = "raw"
  /\ IF Loads(disk) THEN raw' = Document(disk) /\ phase' = "main"
                    ELSE Deny /\ UNCHANGED raw
  /\ UNCHANGED <<disk, version, boot, scan, graph, ghosts>>

\* _validate_main_root: the section is a literal, or one file that is literal.
MainSection == {l \in Leaves(disk, Root) : l.at # <<>> /\ l.at[1] = "hapatchy"}
Literal(leaves) == \A l \in leaves : l.tag = "plain"
MainValid ==
  /\ disk[Root] \notin Missing
  /\ \/ Literal(MainSection)
     \/ \E l \in MainSection :
          /\ MainSection = {l} /\ l.tag = "include" /\ l.at = <<"hapatchy">>
          /\ Leaves(disk, l.of) # {} /\ Literal(Leaves(disk, l.of))

MatchesUnchecked == TRUE
Matches ==
  /\ ~raw.packaged /\ ~boot.packaged
  /\ (MainSection # {}) = (raw.files # {}) /\ (MainSection # {}) = (boot.files # {})
  /\ raw.files = boot.files /\ raw.dirs = boot.dirs

ValidateMain ==
  /\ phase = "main"
  /\ IF MainValid /\ Matches THEN phase' = "second" ELSE Deny
  /\ UNCHANGED <<disk, version, boot, scan, graph, raw, ghosts>>

SecondScanned ==
  /\ Scanned /\ phase = "second"
  /\ IF scan.got = graph THEN phase' = "idle" ELSE Deny
  /\ scan' = Fresh
  /\ UNCHANGED <<disk, version, boot, graph, raw, ghosts>>

-----------------------------------------------------------------------------
(* check_current and the decision on a path                                 *)

FilesOf(g) == {s.file : s \in g.sources}

\* same_authority_as
SameContent(now) == now = graph
SamePaths(now) == FilesOf(now) = FilesOf(graph)
SameAuthority(now) ==
  /\ FilesOf(now) = FilesOf(graph) /\ now.listings = graph.listings
  /\ now.secrets = graph.secrets /\ now.grants = graph.grants
  /\ \A s \in now.sources : s.file \in now.grants => s \in graph.sources

ProtectsAuthority(t) == t \in graph.grants \cup graph.secrets
Protects(t) ==
  \/ t \in FilesOf(graph) \cup graph.secrets
  \/ \E s \in graph.listings : t \in Below[s.folder]

\* _check_path of a target, after a check of the files that passed.
Authorized == {t \in Targets : ~Protects(t) /\ t \in raw.files /\ DirOf[t] \in raw.dirs}

BeginCheck ==
  /\ phase \in {"idle", "passed", "refused"}
  /\ phase' = "checking" /\ scan' = Fresh
  /\ agreed' = (Document(disk) = boot) /\ stood' = disk /\ calm' = TRUE
  /\ UNCHANGED <<disk, version, boot, graph, raw, mattered>>

CheckScanned ==
  /\ Scanned /\ phase = "checking"
  /\ IF SameAuthority(scan.got) THEN phase' = "passed" ELSE Deny
  /\ scan' = Fresh
  /\ UNCHANGED <<disk, version, boot, graph, raw, ghosts>>

-----------------------------------------------------------------------------
(* Users and other programs                                                 *)

\* What has to do with structure: everything but plain values.
Leading(draft) == {l \in ToSet(draft) : l.tag # "plain"}
SameShape(was, is) ==
  IF {was, is} \cap Missing # {} THEN was = is ELSE Leading(was) = Leading(is)

\* A write that could bear on authority: it changes the structure of what Home
\* Assistant reads, or anything in a file that grants may stand in.
Bears(f, now) ==
  /\ f \in ReadByHA(disk) \cup ReadByHA(now)
  /\ ~SameShape(disk[f], now[f]) \/ f \in GrantSources(disk)

\* Files come and go between scans only.
Steady(f, draft) ==
  (phase \in Loading \cup {"checking"} /\ "flicker" \notin Faults) =>
    (draft = Absent) = (disk[f] = Absent)

\* What is still there; a leaf that is gone leads nowhere.
Standing(was, is) ==
  IF Absent \in {was, is} THEN Absent
  ELSE IF Unsafe \in {was, is} THEN Unsafe
  ELSE [n \in DOMAIN was |-> IF was[n] \in ToSet(is) THEN was[n]
                             ELSE [was[n] EXCEPT !.tag = "plain"]]

Write(f) ==
  /\ FoldFunction(+, 0, version) < MaxWrites
  /\ \E draft \in Drafts[f] :
       /\ Steady(f, draft)
       /\ disk' = [disk EXCEPT ![f] = draft]
       /\ mattered' = (mattered \/ Bears(f, disk'))
  /\ version' = [version EXCEPT ![f] = @ + 1]
  /\ agreed' = (agreed \/ Document(disk') = boot)
  /\ stood' = [stood EXCEPT ![f] = Standing(@, disk'[f])]
  /\ calm' = FALSE
  /\ UNCHANGED <<boot, phase, scan, graph, raw>>

-----------------------------------------------------------------------------
ScanStep == LoadSource \/ NoSecrets \/ ListFolder \/ ScanDenied

LoadStep == FirstScanned \/ LoadRaw \/ ValidateMain \/ SecondScanned

Next ==
  \/ ScanStep \/ LoadStep
  \/ BeginCheck \/ CheckScanned
  \/ \E f \in Files : Write(f)

Spec == Init /\ [][Next]_vars

-----------------------------------------------------------------------------
(* Properties                                                               *)

PinsHold ==
  /\ \A s \in graph.sources :
       disk[s.file] \notin Missing /\ (s.file \in graph.grants => s.version = version[s.file])
  /\ \A s \in graph.listings : s.files = Listing(disk, s.folder)
  /\ \A s \in graph.secrets : disk[s] # Absent <=> s \in FilesOf(graph)

\* What is pinned is enough: as long as the grant sources, the listings and the
\* places for secrets are as they were frozen, whatever was written to the other
\* files, Home Assistant would read the grants that it booted with.
PinsSuffice == (phase \in Frozen /\ PinsHold) => Document(disk) = boot

\* A check that passes was right at some moment while it ran, although it reads
\* one file after the other and others write meanwhile.
PassedCheckAgreed == phase = "passed" => agreed

\* No file is authorized that Home Assistant would read along includes and
\* secrets that stood all through the check, not even if it is granted by name
\* and has another extension (yaml_source_graph.py:100-110).
SourcesProtected == phase = "passed" => Authorized \cap ReadByHA(stood) = {}

\* An edit that has nothing to do with grants or includes revokes nothing.
OrdinaryEditsTolerated == (phase = "refused" /\ calm) => mattered
=============================================================================
