SPECIFICATION Spec
CONSTANTS
  Rejected = {"bad;"}
  Users <- MCUsers
  Posts <- MCPosts
  Apis = {"Query", "QueryBuilder", "AdvancedQuery", "raw"}
  Dialects = {"sqlite", "mysql", "postgresql"}
  Tables = {"users"}
  Leaves <- MCLeaves
  Boxed <- MCBoxed
  Raws <- MCRaws
  Groups <- MCGroups
  Havings <- MCHavings
  JoinArgs <- MCJoins
  Orders <- MCOrders
  Limits = {2}
  Offsets = {1}
  Pages <- MCPages
  Updates <- MCUpdates
  Alphabet = {"'", "?", "-", "newline", "x"}
  MaxText = 5
  MaxCalls = 3
  MaxWord = 15
INVARIANTS ChainMeaning PageAsked PagesCoverOnce ConvertKeepsHoles
CHECK_DEADLOCK FALSE
