SPECIFICATION Spec
CONSTANTS
  BundleTables <- MCBundleTables
  DirectoryTables <- MCDirectoryTables
  LanguageTables <- MCLanguageTables
  Entries <- MCEntries
  Parameters <- MCParameters
  NameBuffer = 6
  MaxFiles = 2
INVARIANTS Tiles Located PathRight FaultOnlyOfEntry
PROPERTY Ends
