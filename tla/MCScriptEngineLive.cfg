SPECIFICATION FairSpec
CONSTANTS
  Names = {main}
  NoName = NoName
  MaxJobs = 2
  RetiredCap = 1
  MaxReboots = 0
PROPERTIES
  JobEnds UploadSettles RetiredDies
