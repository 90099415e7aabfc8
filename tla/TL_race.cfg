\* Telegram linking: see the README for what this run asks.
CONSTANTS
  Users = {anna, ben}
  Chats = {x}
  NoUser = NoUser
  NoChat = NoChat
  Requests = {r1, r2}
  MaxTokens = 2
  MaxCrashes = 1
SPECIFICATION FairSpec
INVARIANTS TypeOK LinkedByOwnToken TokenShared
PROPERTIES StartAnswered
