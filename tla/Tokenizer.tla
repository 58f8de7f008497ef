----------------------------- MODULE Tokenizer -----------------------------
(***************************************************************************)
(* A gd_tokenizer (src/src/tokenizer/tokenizer.c, tokenizer_codec.c): its  *)
(* vocabulary, and how it encodes and decodes.                             *)
(*                                                                         *)
(* A vocabulary is a sequence of tokens, and a token's id its index: the   *)
(* bytes first, then the tokens merged from two others.  Its two hash      *)
(* maps, from bytes and from pairs of ids, say no more than its tokens do. *)
(***************************************************************************)
EXTENDS Integers, Sequences, SequencesExt

CONSTANT NBytes  \* GD_BPE_N_BYTES, of which the model needs a few

ASSUME TokenizerAssumption == NBytes \in Nat \ {0}

Byte == 1 .. NBytes

\* The parts of a byte token, -1 in the code.
NoPart == 0

\* gd_tokenizer_add_byte_tokens
ByteTokens == [b \in Byte |-> [bytes |-> <<b>>, left |-> NoPart, right |-> NoPart]]

\* The bytes of a merged token.
MergedBytes(tokens, left, right) == tokens[left].bytes \o tokens[right].bytes

\* gd_bytes_map_get: the tokens with these bytes, none or one.
WithBytes(tokens, bytes) == {id \in DOMAIN tokens : tokens[id].bytes = bytes}

\* gd_pair_map_get: the tokens merged from these two, none or one.
WithParts(tokens, left, right) ==
  {id \in DOMAIN tokens : tokens[id].left = left /\ tokens[id].right = right}

----------------------------------------------------------------------------
(* gd_encode_piece.  The rank of a position is the token that it and the   *)
(* next position merge to; ranks are kept, and computed again only next to *)
(* a merge.                                                                *)

\* INT32_MAX: no such token, or no next position.
NoRank(tokens) == Len(tokens) + 1

Rank(tokens, parts, i) ==
  IF i < Len(parts) /\ WithParts(tokens, parts[i], parts[i + 1]) # {}
  THEN CHOOSE id \in WithParts(tokens, parts[i], parts[i + 1]) : TRUE
  ELSE NoRank(tokens)

Start(tokens, bytes) ==
  [parts |-> bytes, ranks |-> [i \in DOMAIN bytes |-> Rank(tokens, bytes, i)]]

\* Mutant: the rank of the position before a merge is not computed again.
RanksAfterStale(tokens, parts, ranks, i) ==
  [j \in DOMAIN parts |-> IF j = i THEN Rank(tokens, parts, j) ELSE ranks[j]]

\* The ranks of what is left after a merge at position i.
RanksAfter(tokens, parts, ranks, i) ==
  [j \in DOMAIN parts |-> IF j \in {i - 1, i} THEN Rank(tokens, parts, j) ELSE ranks[j]]

\* The lowest rank there is, at its first position.
Lowest(e) ==
  CHOOSE i \in DOMAIN e.ranks :
    \A j \in DOMAIN e.ranks :
      e.ranks[i] < e.ranks[j] \/ (e.ranks[i] = e.ranks[j] /\ i <= j)

\* One turn of the loop, if any rank is left.
MergeLowest(tokens, e) ==
  LET i     == Lowest(e)
      parts == RemoveAt([e.parts EXCEPT ![i] = e.ranks[i]], i + 1)
  IN  IF e.ranks[i] = NoRank(tokens) THEN e
      ELSE [parts |-> parts, ranks |-> RanksAfter(tokens, parts, RemoveAt(e.ranks, i + 1), i)]

\* The whole loop, which merges less often than there are bytes.
MergedParts(tokens, bytes) ==
  LET after[n \in 0 .. Len(bytes)] ==
        IF n = 0 THEN Start(tokens, bytes) ELSE MergeLowest(tokens, after[n - 1])
  IN  after[Len(bytes)].parts

Encode(tokens, bytes) ==
  IF WithBytes(tokens, bytes) # {} THEN <<CHOOSE id \in WithBytes(tokens, bytes) : TRUE>>
  ELSE MergedParts(tokens, bytes)

\* gd_tokenizer_decode
Decode(tokens, ids) == FlattenSeq([i \in DOMAIN ids |-> tokens[ids[i]].bytes])
=============================================================================
