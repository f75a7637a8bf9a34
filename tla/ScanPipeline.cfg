CONSTANTS
  A = A
  B = B
  C = C
  Ids <- MCIds
  Main = Main
  Lib = Lib
  Ext = Ext
  Data = Data
  Unknown = Unknown
  Paths <- MCPaths
  ExtensionJs = Ext
  NoPath = NoPath
  NoFile = NoFile
  MaxFiles = 3
  MaxModules = 2
  Requests <- MCRequests
  Sightings <- MCSightings
  MaxRelated = 1
SPECIFICATION Spec
INVARIANTS ApprovedWasAnalyzed AnalyzedIsComplete DangerBlocks EvidenceKeepsItsExtension RelationshipsAnswered
