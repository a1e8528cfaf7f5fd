------------------------------ MODULE YamlFiles ------------------------------
(***************************************************************************)
(* Home Assistant's YAML configuration as it is on disk, and what Home     *)
(* Assistant reads from it.  A file holds leaves under the keys that lead  *)
(* to them: a plain value, an include of a file or of the files below a    *)
(* folder, or the name of a secret.  Included leaves stand under the keys  *)
(* of their include; secrets are looked up from the file's directory up.   *)
(***************************************************************************)
EXTENDS Naturals, Sequences, FiniteSets, SequencesExt

CONSTANTS
  Files,       \* files that can be read as YAML
  Root,        \* configuration.yaml
  Folders,     \* directories that can be included
  Below,       \* what each folder contains, files and others
  SecretsOf,   \* the secrets.yaml files for each file, nearest first
  Drafts,      \* what each file may hold
  MaxDepth,    \* of includes
  Absent,      \* no such file
  Unsafe       \* a link, no regular file, too large, or no YAML

Tags     == {"plain", "include", "folder", "secret"}
Missing  == {Absent, Unsafe}
Secrets  == UNION {ToSet(SecretsOf[f]) : f \in Files}

Leaf(l) ==
  /\ l \in [at : Seq(STRING), tag : Tags, of : {l.of}]
  /\ l.tag = "include" => l.of \in Files
  /\ l.tag = "folder" => l.of \in Folders
Written(draft) ==
  /\ draft \in Seq({draft[n] : n \in DOMAIN draft})
  /\ \A n \in DOMAIN draft : Leaf(draft[n])

ASSUME FilesAssumption ==
  /\ IsFiniteSet(Files) /\ Root \in Files /\ MaxDepth \in Nat /\ Absent # Unsafe
  /\ SecretsOf \in [Files -> Seq(Files)]
  /\ \A f \in Files : \A d \in Drafts[f] \ Missing :
       Written(d) /\ (f \in Secrets => \A n \in DOMAIN d : d[n].tag = "plain")

Leaves(disk, f) == IF disk[f] \in Missing THEN {} ELSE ToSet(disk[f])
Tagged(disk, f, tag) == {l \in Leaves(disk, f) : l.tag = tag}

\* The YAML files an include of folder d reads; secrets.yaml is left out.
Listing(disk, d) == {f \in (Below[d] \cap Files) \ Secrets : disk[f] # Absent}

\* A place is a file with the keys it is included under.
IncludedAt(disk, p) ==
  LET At(l, f) == [file |-> f, at |-> p.at \o l.at] IN
    {At(l, l.of) : l \in Tagged(disk, p.file, "include")} \cup
    UNION {{At(l, f) : f \in Listing(disk, l.of)} : l \in Tagged(disk, p.file, "folder")}

RootPlace == [file |-> Root, at |-> <<>>]
ReachedIn(disk) ==
  LET places[n \in 0 .. MaxDepth + 1] ==
        IF n = 0 THEN {RootPlace}
        ELSE places[n - 1] \cup UNION {IncludedAt(disk, p) : p \in places[n - 1]}
  IN places
Reached(disk) == ReachedIn(disk)[MaxDepth + 1]

\* The nearest of the secrets.yaml files that name it.
Named(disk, s, name) == {l \in Leaves(disk, s) : l.at = <<name>>}
Nearest(disk, f, name) ==
  {n \in DOMAIN SecretsOf[f] :
     \A m \in 1 .. n - 1 : Named(disk, SecretsOf[f][m], name) = {}}
SecretValues(disk, f, name) ==
  {l.of : l \in UNION {Named(disk, SecretsOf[f][n], name) : n \in Nearest(disk, f, name)}}

Values(disk) ==
  UNION {{[at |-> p.at \o l.at, of |-> l.of] : l \in Tagged(disk, p.file, "plain")} \cup
         UNION {{[at |-> p.at \o l.at, of |-> v] : v \in SecretValues(disk, p.file, l.of)} :
                  l \in Tagged(disk, p.file, "secret")} :
         p \in Reached(disk)}

\* Home Assistant can load it.
Loads(disk) ==
  \A p \in Reached(disk) :
    /\ disk[p.file] \notin Missing
    /\ \A l \in Tagged(disk, p.file, "secret") : SecretValues(disk, p.file, l.of) # {}

\* What it says of authority: HAPatchY's files, Home Assistant's allowlist, and
\* whether a package has a hapatchy section (the package's own key is left out).
Document(disk) ==
  [files |-> {v.of : v \in {x \in Values(disk) : x.at = <<"hapatchy", "allowed_files">>}},
   dirs  |-> {v.of : v \in {x \in Values(disk) :
                              x.at = <<"homeassistant", "allowlist_external_dirs">>}},
   packaged |-> \E v \in Values(disk) :
                  IsPrefix(<<"homeassistant", "packages", "hapatchy">>, v.at)]

\* The keys that authority is read from, and the files whose contents stand under
\* one of them, or above one and might have it.
AuthorityKeys ==
  {<<"hapatchy">>, <<"homeassistant", "allowlist_external_dirs">>,
   <<"homeassistant", "packages">>}
MayGrant(at) == \E k \in AuthorityKeys : IsPrefix(k, at) \/ IsPrefix(at, k)
GrantSources(disk) ==
  {p.file : p \in {q \in Reached(disk) : MayGrant(q.at)}} \cup
  UNION {ToSet(SecretsOf[p.file]) :
           p \in {q \in Reached(disk) : \E l \in Tagged(disk, q.file, "secret") :
                                         MayGrant(q.at \o l.at)}}

\* Everything it reads.
ReadByHA(disk) ==
  {p.file : p \in {q \in Reached(disk) : disk[q.file] # Absent}} \cup
  UNION {{s \in ToSet(SecretsOf[p.file]) : disk[s] # Absent} :
           p \in {q \in Reached(disk) : Tagged(disk, q.file, "secret") # {}}}
=============================================================================
