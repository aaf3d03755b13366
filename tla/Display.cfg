SPECIFICATION FairSpec
CONSTANTS
  DimAt <- DimAtOf
  OffAt <- OffAtOf
  Shown <- ShownOf
  MaxIdle = 3
  MaxNews = 1
 
PROPERTIES NewsDrawn IdleGoesDark TouchWakes
