SPECIFICATION EngineSpec
CONSTANTS
  Requests <- MCRequests
  MuxerOutputs <- MCMuxerOutputs
  SegmentFiles <- MCSegmentFiles
  MaxProcessed = 2
INVARIANTS
  WindowsTile
  SplitFollowsPolicy
  BytesPartitioned
  CompletedArtifactIsWhole
  GifIsWhole
