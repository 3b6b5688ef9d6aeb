CONSTANTS
  Projects <- ProjectsDef
  Unset = Unset
  Null = Null
  Cut = Cut
SPECIFICATION Spec
CHECK_DEADLOCK FALSE
INVARIANT TypeOK
INVARIANT LatePathsFollowEnv
INVARIANT DotenvPrecedence
INVARIANT OnlyRelativeFolders
INVARIANT MapsAreSwitchedOff
INVARIANT PublicUrlIsPublicPath
