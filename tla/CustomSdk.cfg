SPECIFICATION Spec
CONSTANTS
  VERSION = 1
  Tag <- MCTag
  Id = {1, 2, 3}
  Mint <- MCMint
  Signer <- MCSigner
  DRVS_AUTH <- MCDrvsAuth
  Builder = {b1, b2}
  Market <- MCMarket
  TokenId <- MCTokenId
  MaxSlot = 4
  Recent = 1
INVARIANTS
  DepositNeverLacksAccounts
  AddressesApart
CHECK_DEADLOCK FALSE
