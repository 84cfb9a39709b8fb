SPECIFICATION Spec
CONSTANTS
  Word = 65536
  kMax = 7
  Targets <- MCTargets
  Sizes = {1, 2, 3, 5, 16, 64, 256}
  MaxLabel = 16
  Labels <- MCLabels
  Renders <- MCRenders
  Previews <- MCPreviews
  Pixels <- MCPixels
  MaxSide = 2
  Fields <- MCFields
  Processes <- MCProcesses
  Bodies <- MCBodies
  Logins <- MCLogins
  Servers <- MCServers
  Gprims = {"Cube", "Sphere", "Cone", "Cylinder", "Capsule"}
  Files <- MCScenes
  MaxDepth = 3
INVARIANTS
  FilesFound
  PlaceholderRight
  PreviewMade
  TokensJudged
  RequestsAnswered
  ProcessSound
  ClientSeesScene
  EditsSound
  CommitExact
CHECK_DEADLOCK FALSE
