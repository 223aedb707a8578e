-------------------------- MODULE MC_CodecExecutor --------------------------
(* Instances of CodecExecutor for TLC. *)
EXTENDS CodecExecutor, TLC

CONSTANTS b1, b2, w1, w2

Call(n, mw, budget, t) ==
    [jobs |-> n, max_workers |-> mw, codec_thread_budget |-> budget, threads |-> t]

\* A call that is empty, and one whose budget was bound under a limit since lowered.
Refused == {Call(0, 1, 1, 1), Call(1, 1, 2, 1)}

\* A call of two jobs that may run together, and one of a single job, whose thread limit is
\* lower, or whose job may take the whole limit of both: each can hold the other back.
MixedLimits ==
    (b1 :> ({Call(2, 2, 2, 2)} \cup Refused))
    @@ (b2 :> ({Call(1, 1, 1, 1), Call(1, 1, 2, 2)} \cup Refused))

\* Calls of one job that uses the whole limit: of two live calls one waits for the
\* budget of the other while a worker of the pool sleeps.
WholeLimit == [b \in Batches |-> {Call(1, 2, 2, 2)}]

MCBatches == {b1, b2}
MCWorkers == {w1, w2}
WorkerSymmetry == Permutations(MCWorkers)
=============================================================================
