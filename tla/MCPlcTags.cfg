SPECIFICATION Spec
CONSTANTS
  a = a
  b = b
  Start = Start
  Names = {a, b, Start}
  BadName = BadName
  Types = {"bool", "int"}
  StartType = "bool"
  Values = {0}
  MaxTags = 2
  DefaultTags <- MCDefaults
  Posts <- MCPosts
  Stored <- MCEmpty
  NoImage = NoImage
  NoProgram = NoProgram
INVARIANTS TypeOK UniqueNames OkIsStored GlobalsAreTags BitsHaveType
PROPERTY KeepsTable
