SPECIFICATION FetchSpec
CONSTANTS
  PageSize = 2
  MaxReleasePages = 2
  Releases <- MCReadableReleases
  InitialLists <- MCReadableLists
  Descriptors <- MCHashableDescriptors
  Provenances <- MCProvenances
  Checksums <- MCChecksums
  Archives <- MCArchives
  MaxPublished = 0
  MaxDeleted = 0
  None = None
INVARIANT
  FailureIsDiagnostic
CHECK_DEADLOCK FALSE
