-------------------------- MODULE KVBlockAllocator ---------------------------
(***************************************************************************)
(* core/simulation/kv_block_allocator.py: a ledger of the KV blocks each   *)
(* request holds, kept beside vLLM's own block manager by watching the     *)
(* scheduler's output.  It allocates nothing.                              *)
(***************************************************************************)
EXTENDS SchedulerOutput

\* num_gpu_blocks: set by initialize_from_config before the first step, so that
\* the runner builds its allocator in that step.
CONSTANT NumBlocks

ASSUME NumBlocksOK == NumBlocks \in Nat \ {0}

VARIABLES reqBlocks,  \* _req_blocks (0: no entry)
          cumulative  \* CumulativeBlockStats

allocVars == <<reqBlocks, cumulative>>

BlockStats == [newAllocated : Nat, dedupHit : Nat, freed : Nat, peak : Nat,
               overCapacity : Nat, cachedTokens : Nat, promptTokens : Nat]

AllocInit ==
  /\ reqBlocks = [r \in Req |-> 0]
  /\ cumulative = [newAllocated |-> 0, dedupHit |-> 0, freed |-> 0, peak |-> 0,
                   overCapacity |-> 0, cachedTokens |-> 0, promptTokens |-> 0]

\* A new request is booked for its whole prompt at once; blocks it brings
\* from the prefix cache are hits, not allocations.
BlocksNeeded(r)     == CeilDiv(PromptLen[r], BlockSize)
CachedBlocks(so, r) == so.new[r] \div BlockSize

\* Mutant: growth is booked for the tokens of earlier steps only.
GrownBehind(so, r) == Larger(reqBlocks[r], CeilDiv(so.cached[r].computed, BlockSize))

\* A cached request grows to the blocks its tokens need and never shrinks.
Grown(so, r) == Larger(reqBlocks[r], CeilDiv(ComputedAfter(so, r), BlockSize))

\* The ledger before the finished requests are released.
Booked(so) == [r \in Req |-> CASE r \in New(so)    -> BlocksNeeded(r)
                               [] r \in Cached(so) -> Grown(so, r)
                               [] OTHER            -> reqBlocks[r]]

\* Mutant: blocks found in the prefix cache are counted as allocated too.
AllocatedInFull(so) ==
  [r \in Scheduled(so) |-> IF r \in New(so) THEN BlocksNeeded(r)
                                             ELSE Grown(so, r) - reqBlocks[r]]

\* Blocks the step adds for a request.
Allocated(so) ==
  [r \in Scheduled(so) |->
     IF r \in New(so) THEN Larger(BlocksNeeded(r) - CachedBlocks(so, r), 0)
                      ELSE Grown(so, r) - reqBlocks[r]]

\* num_prefix_cached_tokens, counted by the step extractor: what new requests
\* bring with them.
PromptHits(so) == SumFunction(so.new)

\* KVBlockAllocator.step
AllocStep(so) ==
  LET inUse == SumFunction(reqBlocks')
  IN  /\ reqBlocks' = [r \in Req |-> IF r \in so.finished THEN 0 ELSE Booked(so)[r]]
      /\ cumulative' =
           [newAllocated |-> cumulative.newAllocated + SumFunction(Allocated(so)),
            dedupHit     |-> cumulative.dedupHit
                               + SumFunction([r \in New(so) |-> CachedBlocks(so, r)]),
            freed        |-> cumulative.freed + SumFunctionOnSet(Booked(so), so.finished),
            peak         |-> Larger(cumulative.peak, inUse),
            overCapacity |-> cumulative.overCapacity + (IF inUse > NumBlocks THEN 1 ELSE 0),
            cachedTokens |-> cumulative.cachedTokens + PromptHits(so),
            promptTokens |-> cumulative.promptTokens
                               + SumFunctionOnSet(PromptLen, New(so))]
=============================================================================
