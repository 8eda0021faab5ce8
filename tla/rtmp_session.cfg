SPECIFICATION Spec
CONSTANTS
  OptionSets <- MCOptionSets
  Breaks = {1, 4, Never}
  Methods = {"_result", "onBWDone", "onFCUnsubscribe", "ping", "_onbwcheck", "_onbwdone",
             "close", "_error", "onStatus", "playlist_ready"}
  Codes = {"start", "stop", "failed", "pause"}
  Controls = {"eof", "ping", "empty", "swf"}
  Media <- MCMedia
  ReadSizes = {0, 20, 40}
  HeaderBuf = 45
  Window = 2
  MaxMessages = 6
  Never = Never
  NULL = NULL
INVARIANTS TypeOK EachAnswerOnce FarewellIsLast PauseIsKnown ReadIsWhole LossClosesSocket
PROPERTY LossEndsGetter
CHECK_DEADLOCK FALSE
