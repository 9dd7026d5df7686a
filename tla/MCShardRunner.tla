--------------------------- MODULE MCShardRunner ---------------------------
(* Instances of ShardRunner for TLC. *)
EXTENDS ShardRunner, TLC

RedisBatches == [inMemory |-> FALSE, wholeBatch |-> TRUE]
RedisSingles == [inMemory |-> FALSE, wholeBatch |-> FALSE]
MemorySingles == [inMemory |-> TRUE, wholeBatch |-> FALSE]

AllSetups == {RedisBatches, RedisSingles, MemorySingles}
OnRedisSingly == {RedisSingles}

Symmetry == Permutations(Callers) \cup Permutations(Servers)
=============================================================================
