----------------------------- MODULE BpeTrainer ----------------------------
(***************************************************************************)
(* A gd_bpe_trainer (src/src/tokenizer/tokenizer_train.c): it counts the   *)
(* pieces of the texts it is given and then merges, again and again, the   *)
(* most frequent pair of neighbouring tokens into a token of its own.      *)
(*                                                                         *)
(* Nothing is ever recounted.  Every word is a list of nodes linked both   *)
(* ways; every pair keeps its count, and the nodes at which it occurs or   *)
(* once occurred; and a heap orders the pairs by counts that may be out of *)
(* date.  A merge touches only the neighbours of the nodes it joins.       *)
(***************************************************************************)
EXTENDS Tokenizer, FiniteSets, FiniteSetsExt

CONSTANTS
  Pieces,        \* pieces that gd_pretokenize finds in texts
  VocabSize,     \* cfg->vocab_size
  MinFrequency,  \* cfg->min_frequency, the default already put in
  Texts,         \* texts to be encoded in the end
  MaxPieces      \* bound: pieces in all texts given to the trainer

ASSUME BpeTrainerAssumption ==
  /\ Pieces \cup Texts \subseteq Seq(Byte) \ {<< >>}
  /\ VocabSize \in Nat /\ VocabSize >= NBytes
  /\ MinFrequency \in Nat \ {0} /\ MaxPieces \in Nat

VARIABLES
  phase,     \* "adding" texts, "choosing" a pair, "merging" it; "trained", "failed"
  wordMap,   \* trainer->word_map: how often each piece was found
  tokens,    \* tok: the vocabulary so far
  nodes,     \* corpus.nodes: the symbol of each, and its neighbours
  pairs,     \* table.pairs: the count of each, and its occurrences, last first
  heap,      \* heap: pairs, each under a count it has or had
  job        \* gd_train_merge_pair: the pair, what it merges to, the
             \* occurrences still to visit, and the pairs touched

vars == <<phase, wordMap, tokens, nodes, pairs, heap, job>>

Empty == [x \in {} |-> 0]
NoJob == [left |-> NoPart, right |-> NoPart, merged |-> NoPart, rest |-> << >>, touched |-> {}]

\* A node is a position of a word; it is alive if it has an entry in nodes.
NoNode == << >>
WordOf(n) == n[1]
Weight(n) == wordMap[WordOf(n)]

Init ==
  /\ phase = "adding" /\ wordMap = Empty
  /\ tokens = << >> /\ nodes = Empty /\ pairs = Empty /\ heap = {} /\ job = NoJob

----------------------------------------------------------------------------
\* gd_word_map_add: gd_bpe_trainer_add_text does it with every piece.
AddPiece(w) ==
  /\ phase = "adding"
  /\ MapThenSumSet(LAMBDA v : wordMap[v], DOMAIN wordMap) < MaxPieces
  /\ wordMap' = [v \in DOMAIN wordMap \cup {w} |->
                   (IF v \in DOMAIN wordMap THEN wordMap[v] ELSE 0) + (IF v = w THEN 1 ELSE 0)]
  /\ UNCHANGED <<phase, tokens, nodes, pairs, heap, job>>

\* The nodes of the words, linked.
Linked(words) ==
  [n \in UNION {{<<w, i>> : i \in DOMAIN w} : w \in words} |->
     LET w == n[1]  i == n[2] IN
     [sym  |-> w[i],
      prev |-> IF i = 1 THEN NoNode ELSE <<w, i - 1>>,
      next |-> IF i = Len(w) THEN NoNode ELSE <<w, i + 1>>]]

\* gd_train_pair_increment, with gd_train_pair_get_or_create: on a table, and
\* the pairs touched in it.
NoPair == [count |-> 0, occs |-> << >>]
Increment(s, pair, weight, n) ==
  LET old == IF pair \in DOMAIN s.pairs THEN s.pairs[pair] ELSE NoPair
      new == [count |-> old.count + weight, occs |-> <<n>> \o old.occs]
  IN  [pairs   |-> [p \in DOMAIN s.pairs \cup {pair} |-> IF p = pair THEN new ELSE s.pairs[p]],
       touched |-> s.touched \cup {pair}]

\* The pairs of a word, and of the words one after the other.
CountedWord(s, w) ==
  LET after[i \in 0 .. Len(w) - 1] ==
        IF i = 0 THEN s ELSE Increment(after[i - 1], <<w[i], w[i + 1]>>, wordMap[w], <<w, i>>)
  IN  after[Len(w) - 1]

Counted(order) ==
  LET after[k \in 0 .. Len(order)] ==
        IF k = 0 THEN [pairs |-> Empty, touched |-> {}] ELSE CountedWord(after[k - 1], order[k])
  IN  after[Len(order)].pairs

\* gd_train_heap_push, which leaves out what does not occur.
Pushed(table, touched) ==
  {[pair |-> p, count |-> table[p].count] : p \in {q \in touched : table[q].count > 0}}

\* gd_bpe_trainer_finish: the byte tokens, and the words in whatever order the
\* hash map has them (gd_train_corpus_build).
Finish ==
  /\ phase = "adding"
  /\ \E order \in SetToSeqs(DOMAIN wordMap) : pairs' = Counted(order)
  /\ nodes' = Linked(DOMAIN wordMap)
  /\ heap' = Pushed(pairs', DOMAIN pairs')
  /\ tokens' = ByteTokens
  /\ phase' = "choosing"
  /\ UNCHANGED <<wordMap, job>>

----------------------------------------------------------------------------
\* gd_train_heap_pop: the hash of the pair decides between equal counts.
Top == {x \in heap : \A y \in heap : x.count >= y.count}

\* Mutant: whatever comes off the heap is taken at its word.
CurrentAlways(x) == TRUE

\* gd_train_heap_best_pair: not an item from before its pair was touched.
Current(x) == pairs[x.pair].count = x.count

PopStale ==
  /\ phase = "choosing" /\ Len(tokens) < VocabSize
  /\ \E x \in Top : ~ Current(x) /\ heap' = heap \ {x}
  /\ UNCHANGED <<phase, wordMap, tokens, nodes, pairs, job>>

\* gd_run_bpe_merges: the pair gets the token that has its bytes already, or
\* else a new one; gd_train_merge_pair starts.
Choose ==
  /\ phase = "choosing" /\ Len(tokens) < VocabSize
  /\ \E x \in Top :
       LET left  == x.pair[1]
           right == x.pair[2]
           bytes == MergedBytes(tokens, left, right)
           known == WithBytes(tokens, bytes)
       IN  /\ Current(x) /\ x.count >= MinFrequency
           /\ heap' = heap \ {x}
           /\ tokens' = IF known # {} THEN tokens
                        ELSE Append(tokens, [bytes |-> bytes, left |-> left, right |-> right])
           /\ job' = [left |-> left, right |-> right,
                      merged |-> IF known # {} THEN CHOOSE id \in known : TRUE ELSE Len(tokens) + 1,
                      rest |-> pairs[x.pair].occs, touched |-> {}]
  /\ phase' = "merging"
  /\ UNCHANGED <<wordMap, nodes, pairs>>

\* Enough tokens, or no pair that is frequent enough.
Stop ==
  /\ phase = "choosing"
  /\ \/ Len(tokens) = VocabSize
     \/ heap = {}
     \/ \E x \in Top : Current(x) /\ x.count < MinFrequency
  /\ phase' = "trained"
  /\ UNCHANGED <<wordMap, tokens, nodes, pairs, heap, job>>

----------------------------------------------------------------------------
\* Mutant: the occurrence is not checked to be of the pair still.
OccurrenceAlive(n) ==
  n \in DOMAIN nodes /\ nodes[n].next # NoNode

\* gd_train_pair_occurrence_valid
OccurrenceValid(n) ==
  /\ n \in DOMAIN nodes /\ nodes[n].sym = job.left
  /\ nodes[n].next # NoNode /\ nodes[nodes[n].next].sym = job.right

\* gd_train_pair_decrement, down to 0 at the least.
Decrement(s, pair, weight) ==
  IF pair \notin DOMAIN s.pairs THEN s
  ELSE [pairs   |-> [s.pairs EXCEPT ![pair].count = IF @ > weight THEN @ - weight ELSE 0],
        touched |-> s.touched \cup {pair}]

\* Mutant: the pair behind is not taken off.
UncountedHalf(s, n) ==
  LET before  == nodes[n].prev
      s1 == IF before = NoNode THEN s
            ELSE Decrement(s, <<nodes[before].sym, job.left>>, Weight(n))
  IN  Decrement(s1, <<job.left, job.right>>, Weight(n))

\* What the merge at node n takes away: the pair before it, the pair, and the
\* pair behind it ...
Uncounted(s, n) ==
  LET before  == nodes[n].prev
      behind  == nodes[nodes[n].next].next
      s1 == IF before = NoNode THEN s
            ELSE Decrement(s, <<nodes[before].sym, job.left>>, Weight(n))
      s2 == Decrement(s1, <<job.left, job.right>>, Weight(n))
  IN  IF behind = NoNode THEN s2
      ELSE Decrement(s2, <<job.right, nodes[behind].sym>>, Weight(n))

\* ... and the pairs the merged token makes with its neighbours.
Recounted(s, n) ==
  LET before  == nodes[n].prev
      behind  == nodes[nodes[n].next].next
      s1 == IF before = NoNode THEN s
            ELSE Increment(s, <<nodes[before].sym, job.merged>>, Weight(n), before)
  IN  IF behind = NoNode THEN s1
      ELSE Increment(s1, <<job.merged, nodes[behind].sym>>, Weight(n), n)

\* Node n takes the merged token and the place of the node behind it.
Joined(n) ==
  LET gone   == nodes[n].next
      behind == nodes[gone].next
  IN  [m \in DOMAIN nodes \ {gone} |->
         IF m = n THEN [nodes[n] EXCEPT !.sym = job.merged, !.next = behind]
         ELSE IF m = behind THEN [nodes[m] EXCEPT !.prev = n]
         ELSE nodes[m]]

\* One turn of the loop of gd_train_merge_pair.
Skip ==
  /\ phase = "merging" /\ job.rest # << >> /\ ~ OccurrenceValid(Head(job.rest))
  /\ job' = [job EXCEPT !.rest = Tail(@)]
  /\ UNCHANGED <<phase, wordMap, tokens, nodes, pairs, heap>>

Join ==
  /\ phase = "merging" /\ job.rest # << >> /\ OccurrenceValid(Head(job.rest))
  /\ LET n == Head(job.rest)
         s == Recounted(Uncounted([pairs |-> pairs, touched |-> job.touched], n), n)
     IN  /\ pairs' = s.pairs
         /\ job' = [job EXCEPT !.rest = Tail(@), !.touched = s.touched]
         /\ nodes' = Joined(n)
  /\ UNCHANGED <<phase, wordMap, tokens, heap>>

\* The end of gd_train_merge_pair: what was touched goes on the heap under its
\* new count.  A pair that nothing was merged of is not chosen again.
EndMerge ==
  /\ phase = "merging" /\ job.rest = << >>
  /\ LET pair == <<job.left, job.right>> IN
     pairs' = [pairs EXCEPT ![pair].occs = << >>,
                            ![pair].count = IF job.touched = {} THEN 0 ELSE @]
  /\ heap' = heap \cup Pushed(pairs, job.touched)
  /\ phase' = "choosing" /\ job' = NoJob
  /\ UNCHANGED <<wordMap, tokens, nodes>>

\* An allocation fails: all is freed, and the trainer is of no more use.
Fail ==
  /\ phase \in {"choosing", "merging"} /\ phase' = "failed"
  /\ tokens' = << >> /\ nodes' = Empty /\ pairs' = Empty /\ heap' = {} /\ job' = NoJob
  /\ UNCHANGED wordMap

Next ==
  \/ \E w \in Pieces : AddPiece(w)
  \/ Finish
  \/ PopStale \/ Choose \/ Stop
  \/ Skip \/ Join \/ EndMerge
  \/ Fail

Spec == Init /\ [][Next]_vars

----------------------------------------------------------------------------
(* Properties.  What the trainer keeps is compared with what the words say *)
(* themselves.                                                             *)

\* The tokens a word has come to.
Segmentation(w) ==
  FlattenSeq([i \in DOMAIN w |->
                IF <<w, i>> \in DOMAIN nodes THEN << nodes[<<w, i>>].sym >> ELSE << >>])

\* The places where a pair occurs, and how often that is: once for every copy of
\* the word in the texts.
Places(p) == {n \in DOMAIN nodes : /\ nodes[n].next # NoNode /\ nodes[n].sym = p[1]
                                   /\ nodes[nodes[n].next].sym = p[2]}

Copies(places) == UNION {{n} \X (1 .. Weight(n)) : n \in places}

Frequency(p) == Cardinality(Copies(Places(p)))

Occurring == {<<nodes[n].sym, nodes[nodes[n].next].sym>> : n \in {m \in DOMAIN nodes : nodes[m].next # NoNode}}

\* Though nothing is recounted, at every moment the counts are what counting
\* would give, no occurrence is missing from its pair's list, no pair from the
\* heap under its count, and the linked tokens of a word spell the word.
IndexSound ==
  /\ phase \in {"choosing", "merging"} =>
       /\ Occurring \subseteq DOMAIN pairs
       /\ \A p \in DOMAIN pairs :
            /\ pairs[p].count = Frequency(p)
            /\ Places(p) \subseteq ToSet(IF p = <<job.left, job.right>> THEN job.rest ELSE pairs[p].occs)
       /\ \A w \in DOMAIN wordMap : Decode(tokens, Segmentation(w)) = w
  /\ phase = "choosing" =>
       \A p \in Occurring : [pair |-> p, count |-> Frequency(p)] \in heap

\* Every merge is of a pair that no other exceeds, and training ends only with
\* a full vocabulary or with no pair left that is frequent enough.
Greedy ==
  [][phase = "choosing" =>
       /\ phase' = "merging" =>
            LET f == Frequency(<<job'.left, job'.right>>) IN
            f >= MinFrequency /\ \A p \in Occurring : f >= Frequency(p)
       /\ phase' = "trained" =>
            Len(tokens) = VocabSize \/ \A p \in Occurring : Frequency(p) < MinFrequency]_vars

\* A merge is never of a pair merged before, nor do two pairs come to the same
\* bytes: each gives a token of its own, by which the encoder finds the pair.
MergesAreNew ==
  phase = "merging" => job.merged = Len(tokens) /\ WithParts(tokens, job.left, job.right) = {job.merged}

\* A trained tokenizer decodes what it encodes to the same text ...
RoundTrip ==
  phase = "trained" => \A w \in Texts : Decode(tokens, Encode(tokens, w)) = w

\* ... and it encodes the words of its training as training left them, unless
\* there are tokens of two like halves, which training merges from the right of
\* a run of three.
EncodeFaithful ==
  /\ RoundTrip
  /\ (phase = "trained" /\ \A id \in DOMAIN tokens \ Byte : tokens[id].left # tokens[id].right)
       => \A w \in DOMAIN wordMap : Encode(tokens, w) = Segmentation(w)
=============================================================================
