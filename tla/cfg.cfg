SPECIFICATION Spec
CONSTANTS
  Files <- MCFiles
  MaxPath = 24
  FramingPlugins <- MCFramingPlugins
  BackendPlugins <- MCBackendPlugins
  Damaged <- MCDamaged
  Directories <- MCDirectories
  Configurations <- MCConfigurations
  Requests <- MCRequests
  Lower <- MCLower
INVARIANTS
  TypeOK
  ConfigurationApplied
  BackendsReleased
  FramingAttached
  RightPeer
