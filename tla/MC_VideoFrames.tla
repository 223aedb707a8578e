--------------------------- MODULE MC_VideoFrames ---------------------------
(***************************************************************************)
(* Instances of VideoFrames for TLC: source queries over two video shards. *)
(***************************************************************************)
EXTENDS VideoFrames, TLC

CONSTANTS front, wrist,   \* the shards of two video keys
          c1, c2

At(s, i) == [shard |-> s, id |-> i]

MCShards == {front, wrist}
MCConsumers == {c1, c2}
OneConsumer == {c1}

\* A row both cameras show, and in a second query two rows of one camera: the rows of two
\* producers meet in one buffer, which may be full before it is flushed.
TwoQueries ==
    << << <<At(front, 1), At(wrist, 2)>> >>, << <<At(front, 3)>>, <<At(front, 4)>> >> >>

\* An episode without a route, then one whose rows fill more than the buffers hold.
LongQuery ==
    << << <<>>, <<At(front, 1)>>, <<At(front, 2)>>, <<At(front, 3)>>, <<At(wrist, 4)>> >> >>

\* More queries than producers: a producer strides to its next one.
ManyQueries ==
    << << <<At(front, 1)>> >>, << <<At(wrist, 2)>> >>, << <<At(front, 3)>> >> >>

ConsumerSymmetry == Permutations(MCConsumers)
=============================================================================
