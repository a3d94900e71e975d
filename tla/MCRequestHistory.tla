-------------------------- MODULE MCRequestHistory --------------------------
EXTENDS RequestHistory

Result(size, core, fills, image) ==
  [size |-> size, core |-> core, fills |-> fills, image |-> image]

Short      == Result(1, 1, FALSE, 0)
Text       == Result(8, 1, TRUE, 0)
Facts      == Result(7, 4, FALSE, 0)   \* mostly what a projection must keep
SmallImage == Result(2, 1, FALSE, 1)
LargeImage == Result(1, 1, FALSE, 3)
HugeImage  == Result(1, 1, FALSE, 4)

MCBatches ==
  {<<Short>>, <<Text>>, <<Facts>>, <<SmallImage>>, <<LargeImage>>, <<HugeImage>>,
   <<Short, Text>>, <<SmallImage, SmallImage>>}
=============================================================================
