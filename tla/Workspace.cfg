SPECIFICATION Spec
\* Within the bounds the user may run out of things to do.
CHECK_DEADLOCK FALSE
CONSTANTS
  MaxNew = 1
  MaxCalls = 2
  MaxEdits = 2
  Scopes <- MCScopes
INVARIANT ListMirrorsServer
INVARIANT NothingHangs
INVARIANT ActiveCompanyShown
INVARIANT OneDefaultAccount
INVARIANT OffersAreAccepted
INVARIANT StatusesOffered
INVARIANT DraftIsSaved
INVARIANT SavesOwnDraft
PROPERTY AccountsKept
