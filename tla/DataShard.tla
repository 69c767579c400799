------------------------------ MODULE DataShard ------------------------------
(***************************************************************************)
(* How the rows of a dataset are divided among the data-parallel ranks     *)
(* (components/data/dataset.py).  An indexed dataset is cut into contiguous *)
(* slices, after the shuffle: divmod gives every rank the same size and    *)
(* the first `remainder` ranks one row more.  SingleDatasetConfig and      *)
(* DatasetConcatConfig share the arithmetic.  Rows are numbered from 0.    *)
(***************************************************************************)
EXTENDS Integers

SmallerOf(a, b) == IF a < b THEN a ELSE b

\* divmod(len(dataset), dp_world_size).
BaseSize(rows, world) == rows \div world
Remainder(rows, world) == rows % world

ShardStart(rows, world, rank) ==
  rank * BaseSize(rows, world) + SmallerOf(rank, Remainder(rows, world))

ShardStop(rows, world, rank) ==
  ShardStart(rows, world, rank) + BaseSize(rows, world)
    + (IF rank < Remainder(rows, world) THEN 1 ELSE 0)

Shard(rows, world, rank) == ShardStart(rows, world, rank) .. ShardStop(rows, world, rank) - 1
=============================================================================
