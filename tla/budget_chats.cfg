SPECIFICATION FairChatSpec
CONSTANTS
  Keys = {k1}
  Agents = {a1, a2}
  Addrs = {ip1}
  Chats = {h1, h2}
  None = None
  Budget = 1
  PerChat = 1
  MaxUsed = 2
  MaxDay = 1
  MaxRestarts = 1
  Modes = {"direct", "sandbox"}
INVARIANT ChatTypeOK
INVARIANT OverspendBounded
PROPERTY BudgetBites
