SPECIFICATION TimelineSpec
CONSTANTS
  shot = shot
  title = title
  V1 = V1
  V2 = V2
  OV1 = OV1
  A1 = A1
  Media = {shot, title}
  KindOf <- MCKindOf
  Length <- MCLength
  TrackKind <- MCTrackKind
  MainTrack = V1
  Seed = {V1, A1}
  MinDuration = 1
  TextDurations = {2}
  LegacyMedia = {title}
  LegacyStarts = {0}
  MaxClips = 3
  MaxSize = 3
  Horizon = 4
  Asked <- MCAsked
CHECK_DEADLOCK FALSE
INVARIANTS
  EditsFitTogether
PROPERTIES
  TransitionsStayHonest
  SplitShowsTheSame
