SPECIFICATION InstanceSpec
CONSTANTS
  Null = Null
  Entries <- MCEntries
  Lists <- MCLists
  Blocks <- MCBlocks
  Buffers <- MCBuffers
  Threads = {main, other}
  Nobody = Nobody
  MaxCount = 2
  Declarations <- MCDeclarations
  InvalidId <- MCInvalidId
  Dialects = {"midi", "clap"}
  Controls = 2
INVARIANTS
  InstanceTypeOK
  EffectIsExact
  EntryCountExact
