------------------------------ MODULE MCBcache -------------------------------
(* Two buffers for three blocks on a partition in the middle of a device.  *)
EXTENDS Bcache

\* A write that starts and ends inside a block, and one past the partition.
Transfers == {<<7, 4>>, <<7, 8>>}

TornBlocks == {b \in BlockNum : Cardinality(Range(on_disk(b))) > 1}

\* Bound: behaviours go on while at most one block on the device is torn.
OneTornBlock == Cardinality(TornBlocks) <= 1
=============================================================================
