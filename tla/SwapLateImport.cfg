SPECIFICATION Spec
CONSTANTS
  None = None
  Chains <- TwoChains
  FirstChain = 1
  Popular <- PopularLists
  Full <- FullLists
  Unlisted = "new"
  Links <- OpenedLinks
  Pairs <- FavoritePairs
  Wallets <- OneWallet
  WalletNets <- TwoNets
  Given <- GivenAddresses
  MaxMoves = 2
  MaxClicks = 3
  MaxEvents = 4
  MaxImports = 1
INVARIANTS ImportedIsThisTokens
CHECK_DEADLOCK FALSE
