SPECIFICATION FetchSpec
CONSTANTS
  PageSize = 2
  MaxReleasePages = 2
  Releases <- MCReleases
  InitialLists <- MCInitialLists
  Descriptors <- MCDescriptors
  Provenances <- MCProvenances
  Checksums <- MCChecksums
  Archives <- MCArchives
  MaxPublished = 1
  MaxDeleted = 1
  None = None
INVARIANTS
  PublishingNeverHides
  CandidateIsVouchedFor
CHECK_DEADLOCK FALSE
