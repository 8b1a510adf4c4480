\* The DMA channels under a guest that waits for its transfers.
SPECIFICATION DriverSpec
CONSTANT Channels <- MCChannels
INVARIANTS
  TypeOK
  CompletionInterrupts
  DecoderBusyEnds
PROPERTIES
  OncePerTransfer
  TransferNoticed
