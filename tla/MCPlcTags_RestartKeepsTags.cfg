SPECIFICATION Spec
CONSTANTS
  a = a
  b = b
  Start = Start
  Names = {a, b, Start}
  BadName = BadName
  Types = {"bool", "int"}
  StartType = "bool"
  Values = {0, 1}
  MaxTags = 2
  DefaultTags <- MCDefaults
  Posts <- MCPosts
  Stored <- MCBrace
  NoImage = NoImage
  NoProgram = NoProgram
PROPERTY RestartKeepsTags
