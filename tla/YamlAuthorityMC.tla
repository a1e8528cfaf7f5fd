--------------------------- MODULE YamlAuthorityMC ---------------------------
(* A small configuration: grants in configuration.yaml or in a file of their *)
(* own, an allowlist that is literal or secret, a folder of packages, and     *)
(* automations that anybody edits.                                            *)
EXTENDS YamlAuthority

CONSTANTS conf, ha, auto, grants, pack, secrets, packages, t, u, d, e

Plain(at, v) == [at |-> at, tag |-> "plain", of |-> v]
Tag(at, tag, of) == [at |-> at, tag |-> tag, of |-> of]

AllowedFiles == <<"hapatchy", "allowed_files">>
Include == Tag(<<"homeassistant">>, "include", ha)
Automations == Tag(<<"automation">>, "include", auto)
Packages == Tag(<<"packages">>, "folder", packages)
Dirs(tag, of) == Tag(<<"allowlist_external_dirs">>, tag, of)

Literal1 == <<Plain(AllowedFiles, t), Plain(AllowedFiles, auto), Include, Automations>>
Outside == <<Tag(<<"hapatchy">>, "include", grants), Include, Automations>>

SmallDrafts ==
  (conf :> {Literal1, Outside}) @@
  (ha :> {<<Dirs("plain", d), Packages>>, <<Dirs("plain", e), Packages>>, <<Dirs("secret", "dirs"), Packages>>}) @@
  (auto :> {<<Plain(<<"alias">>, 1)>>, <<Plain(<<"alias">>, 2)>>,
            <<Tag(<<"alias">>, "secret", "dirs")>>, <<Tag(<<"alias">>, "include", auto)>>,
            Unsafe}) @@
  (grants :> {<<Plain(<<"allowed_files">>, t)>>, <<Plain(<<"allowed_files">>, u)>>, Absent}) @@
  (pack :> {<<Plain(<<"sensor">>, 1)>>, <<Plain(AllowedFiles, u)>>,
            <<Tag(<<"sensor">>, "include", auto)>>, Absent}) @@
  (secrets :> {<<Plain(<<"dirs">>, d)>>, <<Plain(<<"dirs">>, e)>>, Absent})

SmallSecrets == [f \in Files |-> <<secrets>>]
SmallBelow == packages :> {pack, u}
SmallDirOf == [x \in Targets |-> d]

\* Home Assistant boots with either main file, a literal or a secret allowlist,
\* and any secrets.yaml and package but those that writes bring.
SmallStarts ==
  LET first == (auto :> <<Plain(<<"alias">>, 1)>>) @@
               (grants :> <<Plain(<<"allowed_files">>, t)>>) IN
  {(conf :> c) @@ (ha :> h) @@ (pack :> p) @@ (secrets :> s) @@ first :
     c \in SmallDrafts[conf], h \in SmallDrafts[ha] \ {<<Dirs("plain", e), Packages>>},
     p \in {<<Plain(<<"sensor">>, 1)>>, Absent}, s \in {<<Plain(<<"dirs">>, d)>>, Absent}}
=============================================================================
