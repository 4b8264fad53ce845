\* Two workers, a channel of four, seven chunks, the last of them short: the
\* channel fills behind workers that have exited.
CONSTANTS
  Size = 13
  ChunkSize = 2
  MaxWorkers = 2
  Cores = 4
SPECIFICATION FairSpec
INVARIANT QuietAfterReturn
PROPERTIES ImplementsFileCopy Returns
