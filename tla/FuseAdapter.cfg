SPECIFICATION Spec
CONSTANTS
  t1 = t1
  t2 = t2
  Threads = {t1, t2}
  Names = {"a", "b"}
  MaxDepth = 2
  Resources = {"v", "c"}
  Interned = {"v"}
  MountPoints <- MCMountPoints
  InitialPlan <- MCInitialPlan
  Plans <- MCPlans
  TypeOf <- MCTypeOf
  MaxGen <- MCMaxGen
  MaxRebuilds = 1
  MaxInFlight = 1
  MaxRequests = 4
  Keys <- MCKeys
  RootKey = RootKey
  Hardlinks <- MCHardlinks
  NoHardlink = NoHardlink
  MaxInode = 20
  MaxHandles = 1
  Files = {1, 2, 3}
  NoFile = NoFile
  GenMod = 4
SYMMETRY Symmetry
INVARIANTS
  TypeOK
  TableInv
  HardlinksShareInode
  NodeCacheSound
  HandlesAccounted
  TokensConserved
