\* Two channels, queues of two frames, one break, and changes of subscription.
CONSTANTS
  Order <- TradeChannels
  Producers <- TradePushes
  Selectable <- Bars
  MaxSockets = 2
  QueueSize = 2
  MaxItems = 3
  MaxFailures = 1
  MaxChanges = 2
SPECIFICATION Spec
INVARIANTS NoGhostSubscribers StatusTrue NeverStranded NothingLostWithoutOverrun OverrunShowsInSeq
PROPERTIES ItemsInOrder Resubscribed
CHECK_DEADLOCK FALSE
