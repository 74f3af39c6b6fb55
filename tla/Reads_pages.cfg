CONSTANTS
  Names <- Called
  EntryIds = {1, 2, 3}
  Stored <- Old
  Drafts <- New
  CommentIds = {1}
  Releases = {"v1", "v2"}
  Accounts <- Team
  Walks <- Listed
  Rosters <- Rostered
  Questions <- Asked
  UserQuestions <- AskedUsers
  Catalogues <- Shelves
  DefaultLimit = 1
  MaxLimit = 2
  MaxWrites = 2
SPECIFICATION Spec
INVARIANT PortalShowsThePublic
INVARIANT WalksMissNothing
INVARIANT DashboardAddsUp
INVARIANT DemoMirrorsTheDatabase
CHECK_DEADLOCK FALSE
