SPECIFICATION LibrarySpec
CONSTANTS
  NumberRange = 8
  FloatLimit = 99
  Starts <- MCStarts
  Values <- MCValues
  Nesting <- MCNesting
  Endings <- MCEndings
  Streams <- MCStreams
  Documents <- MCDocuments
  Pointers <- MCPointers
INVARIANTS
  ReaderAcceptsJson
  ReadsBack
  StringsAreWritable
  BracketsClosed
  EncodedReadsBack
  ReadIsWritable
  EndsWhereItSays
  DiffPatches
  PointersAgree
  FlattenedReadsBack
  MovedBack
PROPERTIES
  LeftoversUnread
  NothingFollows
CHECK_DEADLOCK FALSE
