SPECIFICATION FairSpec
CONSTANTS
  Offers <- MCOffers
  MaxPosts <- MCMaxPosts
  Buffers = 2
  DmaBuffers = 1
  SendDepth <- MCSendDepth
  DmaDepth = 1
  ReadLimit = 1
  RingSize = 8
  EthHeader = 3
  Header = 3
INVARIANTS
  SecureTypeOK
  NoncesAgree
  
  BuffersConserved
  HeadersIntact
 
CHECK_DEADLOCK FALSE
