SPECIFICATION Spec
CONSTANTS
  BarNum = 4
  Layouts <- BoardLayouts
  Channels = {0, 1}
  Engines <- TwoChannels
  MaxProbes = 2
INVARIANTS TypeOK ProbeReleases ReleasesHeld BarsIdentified EnginesOfOneChannelEnabled
CHECK_DEADLOCK FALSE
