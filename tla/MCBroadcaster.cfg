\* Two consumers, two kinds of event, three sends, both clones.
CONSTANTS
  Subs = {s1, s2}
  Kinds = {ka, kb}
  Handles = {reader, stream}
  MaxSends = 3
SPECIFICATION FairSpec
CHECK_DEADLOCK FALSE
INVARIANTS
  ChannelsSound
  EndIsInOrder
PROPERTIES
  SendPrunesTheDead
  ImplementsFanout
  EveryConsumerEnds
