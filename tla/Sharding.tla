------------------------------ MODULE Sharding ------------------------------
(***************************************************************************)
(* wallet.ShardWallets (internal/wallet/shard.go): the slice of the        *)
(* keystore a worker is given.  Wallets are their positions 0 .. total-1   *)
(* in the keystore; a slice is the set of positions it holds.  Assignment  *)
(* runs the loop one index per step.                                       *)
(***************************************************************************)
EXTENDS Integers, FiniteSets

(* Mutants of ChunkSize: the remainder goes to one index too many; the     *)
(* remainder is lost.                                                      *)
ChunkSizeOneMore(total, index, count) ==
    total \div count + (IF index <= total % count THEN 1 ELSE 0)

ChunkSizeNoRemainder(total, index, count) == total \div count

(* chunkSize, and the closure divide of Load.Shard: the same arithmetic. *)
ChunkSize(total, index, count) ==
    total \div count + (IF index < total % count THEN 1 ELSE 0)

(* Where the loop of ShardWallets leaves start. *)
ShardStart(total, index, count) ==
    LET start[i \in 0 .. index] ==
            IF i = 0 THEN 0 ELSE start[i - 1] + ChunkSize(total, i - 1, count)
    IN  start[index]

Smaller(a, b) == IF a < b THEN a ELSE b

(* The slice cut at start: both ends are kept within the keystore. *)
SliceFrom(total, index, count, start) ==
    LET first == Smaller(start, total)
        end   == Smaller(first + ChunkSize(total, index, count), total)
    IN  first .. end - 1

ShardWallets(total, index, count) ==
    IF count <= 1 THEN 0 .. total - 1
    ELSE SliceFrom(total, index, count, ShardStart(total, index, count))
=============================================================================
