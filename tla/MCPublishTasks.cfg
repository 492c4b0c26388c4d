SPECIFICATION TasksSpec
CONSTANTS
  Texts = {a, b}
  a = a
  b = b
  NoText = NoText
  FIRST_COMMENT_MAX_RETRIES = 2
  MaxInterruptions = 2
  PostA = PostA
  PostB = PostB
  NoJob = NoJob
  Groups = {PostA, PostB}
  Jobs <- FourRows
  GroupOf <- PostOfRow
  Assets = {"a", "b"}
  Wants <- Attached
  PoolSizes <- SmallPools
CHECK_DEADLOCK FALSE
INVARIANTS
  
  
  
  FilesSharedWhileUsed
PROPERTIES
  CommentSettles
  CycleEnds
  OthersAreDone
