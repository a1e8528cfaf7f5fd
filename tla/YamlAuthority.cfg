SPECIFICATION Spec
CONSTANTS
  conf = conf
  ha = ha
  auto = auto
  grants = grants
  pack = pack
  secrets = secrets
  packages = packages
  t = t
  u = u
  d = d
  e = e
  Absent = Absent
  Unsafe = Unsafe
  Files = {conf, ha, auto, grants, pack, secrets}
  Root = conf
  Folders = {packages}
  Below <- SmallBelow
  SecretsOf <- SmallSecrets
  Drafts <- SmallDrafts
  Starts <- SmallStarts
  Targets = {t, u, auto}
  DirOf <- SmallDirOf
  MaxDepth = 2
  MaxWrites = 2
  Faults = {}
INVARIANTS
  PinsSuffice
  PassedCheckAgreed
  SourcesProtected
  OrdinaryEditsTolerated
\* A load that failed denies until the next start.
CHECK_DEADLOCK FALSE
