------------------------------ MODULE Sampler ------------------------------
(***************************************************************************)
(* The order in which a gd_dataloader takes the samples of a dataset       *)
(* (gd_sampler_* of src/src/dataset/dataloader.c): a permutation for each  *)
(* epoch, of all samples or of those of each shard, computed position by   *)
(* position and kept nowhere.  A Feistel network of six rounds permutes    *)
(* the numbers below a power of four, and numbers that fall outside the    *)
(* wanted range are permuted again until one falls inside.                 *)
(*                                                                         *)
(* The hash of the rounds is any function at all.                          *)
(***************************************************************************)
EXTENDS Integers, Sequences

CONSTANTS
  Xor(_, _),      \* C's ^ on naturals
  Hash(_, _, _),  \* of a key, a round, and half a number: splitmix64
  Kind,           \* the sampler: "none", "random", or "shards"
  NumSamples,     \* gd_dataset_num_samples(dataset)
  Ranges,         \* for "shards": range_starts and range_lengths
  MaxHalfBits     \* half_bits is 32 at the most; TLC's numbers are shorter

XorSound(half) ==
  \A a, b \in 0 .. half - 1 : Xor(a, b) \in 0 .. half - 1 /\ Xor(Xor(a, b), b) = a

\* A 64-bit bound is a number of two halves.
Fits(bound) == bound <= (2 ^ MaxHalfBits) * (2 ^ MaxHalfBits)

\* The shards follow one another from the first sample to the last: sample_base
\* of a shard is what those before it hold.
Tiled ==
  /\ Len(Ranges) \in Nat \ {0}
  /\ Ranges[1].start = 0
  /\ \A r \in 1 .. Len(Ranges) - 1 : Ranges[r + 1].start = Ranges[r].start + Ranges[r].length
  /\ Ranges[Len(Ranges)].start + Ranges[Len(Ranges)].length = NumSamples

ASSUME SamplerAssumption ==
  /\ Kind \in {"none", "random", "shards"}
  /\ NumSamples \in Nat \ {0}
  /\ MaxHalfBits \in Nat \ {0}
  /\ \A bits \in 1 .. MaxHalfBits : XorSound(2 ^ bits)
  /\ \A r \in 1 .. Len(Ranges) : Ranges[r].start \in Nat /\ Ranges[r].length \in Nat
  /\ Kind = "random" => Fits(NumSamples)
  /\ Kind = "shards" => Tiled /\ \A r \in 1 .. Len(Ranges) : Fits(Ranges[r].length)

----------------------------------------------------------------------------
\* gd_sampler_feistel_round: masked to as many bits as a half has.
FeistelRound(right, key, round, half) == Hash(key, round, right) % half

\* One turn of the loop of gd_sampler_feistel_permute.
Turn(p, key, round, half) == <<p[2], Xor(p[1], FeistelRound(p[2], key, round, half))>>

Halves(x, half) == <<x \div half, x % half>>

SixTurns(p, key, half) ==
  LET p1 == Turn(p, key, 0, half)
      p2 == Turn(p1, key, 1, half)
      p3 == Turn(p2, key, 2, half)
      p4 == Turn(p3, key, 3, half)
      p5 == Turn(p4, key, 4, half)
  IN  Turn(p5, key, 5, half)

\* gd_sampler_feistel_permute, with half = 1 << half_bits.
FeistelPermute(x, key, half) ==
  LET p == SixTurns(Halves(x, half), key, half) IN p[1] * half + p[2]

\* The least power of two whose square is no less than the bound: half of
\* the bits that gd_sampler_ceil_log2_u64 says, rounded up.
Half(bound) ==
  LET enough == {h \in {2 ^ bits : bits \in 1 .. MaxHalfBits} : bound <= h * h}
  IN  CHOOSE h \in enough : \A g \in enough : h <= g

\* The loop of gd_sampler_permute_bounded leads from the value and from every
\* number that is not below the bound to the next.
Closed(P, value, bound, half, key) ==
  /\ FeistelPermute(value, key, half) \in P
  /\ \A w \in P : w >= bound => FeistelPermute(w, key, half) \in P

\* The numbers it goes through: those of the least set so closed, which no
\* closed set lacks.
Visited(value, bound, half, key) ==
  LET Numbers == 0 .. half * half - 1
  IN  {v \in Numbers : \A P \in SUBSET (Numbers \ {v}) : ~ Closed(P, value, bound, half, key)}

\* Mutant: what falls outside the bound is folded back.
PermuteFolded(value, bound, key) ==
  IF bound <= 1 THEN 0 ELSE FeistelPermute(value, key, Half(bound)) % bound

\* Where it ends.
PermuteBounded(value, bound, key) ==
  IF bound <= 1 THEN 0
  ELSE CHOOSE v \in 0 .. bound - 1 : v \in Visited(value, bound, Half(bound), key)

----------------------------------------------------------------------------
\* gd_sampler_random_index
RandomIndex(epoch, position) == PermuteBounded(position, NumSamples, <<epoch>>)

\* The binary search of gd_sampler_gdds_shard_random_index: the number of the
\* range that has the position, or 0 if none has.
RangeOf(position) ==
  LET n == Len(Ranges)
      search[between \in (0 .. n) \X (0 .. n)] ==
        LET lo  == between[1]
            hi  == between[2]
            mid == lo + (hi - lo) \div 2
            r   == Ranges[mid + 1]
        IN  IF lo >= hi THEN 0
            ELSE IF position < r.start THEN search[<<lo, mid>>]
            ELSE IF position - r.start >= r.length THEN search[<<mid + 1, hi>>]
            ELSE mid + 1
  IN  search[<<0, n>>]

\* gd_sampler_gdds_shard_random_index
ShardRandomIndex(epoch, position) ==
  LET r == RangeOf(position)
  IN  IF r = 0 THEN position
      ELSE Ranges[r].start + PermuteBounded(position - Ranges[r].start, Ranges[r].length, <<epoch, r>>)

\* gd_dataloader_sample_at_locked
SampleAt(epoch, position) ==
  CASE Kind = "random" -> RandomIndex(epoch, position)
    [] Kind = "shards" -> ShardRandomIndex(epoch, position)
    [] OTHER -> position
=============================================================================
