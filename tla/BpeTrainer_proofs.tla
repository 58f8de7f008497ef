------------------------- MODULE BpeTrainer_proofs --------------------------
(***************************************************************************)
(* Theorems about BpeTrainer, for every set of pieces, every vocabulary    *)
(* size and every frequency asked: what the trainer keeps is what the      *)
(* words say themselves, every merge is of a most frequent pair and to a   *)
(* token that was not there before, what is encoded decodes to the text    *)
(* it was, and the words of the training are encoded as it left them.      *)
(*                                                                         *)
(* The inductive invariant has three parts.  Chained: every node has the   *)
(* bytes of its word from its position on to the next node, so reading the *)
(* nodes from the left spells the word.  Table: labels (a node with a next *)
(* is labelled by the two symbols) are counted, with the weight of their   *)
(* word, and listed; an increment and a decrement are sound for one label  *)
(* more and one less, wherever it comes from, and a merge is at most five  *)
(* of those.  OnHeap: a pair not touched since is on the heap under its    *)
(* count.                                                                  *)
(*                                                                         *)
(* MergeInv is about the segmentations of the words, taken as they were    *)
(* before the merge that is going on (Unfolded).  Like bytes between two   *)
(* nodes begin with like tokens (Uniform), so the bytes of a token are     *)
(* nowhere two tokens (Whole), and the two parts of a merge had no token.  *)
(* It lasts because the list of a pair has the places in a word in one     *)
(* direction: a merge visits them from the right (Descending) or from the  *)
(* left (Ascending), and a run of like tokens is cut alike wherever it is. *)
(*                                                                         *)
(* EncodeInv compares with the encoder, whose turns (the lowest token, at  *)
(* its first place) are taken on the same segmentations: they lead from    *)
(* the bytes of a word to where training has brought it.  A token added    *)
(* later is higher, so it leaves the turns there were.  The encoder visits *)
(* the places of a pair from the left and the trainer in whatever order,   *)
(* which is the same as long as the parts are not alike: then no place     *)
(* overlaps another.                                                       *)
(***************************************************************************)
EXTENDS BpeTrainer, SequenceTheorems, FiniteSetTheorems, WellFoundedInduction, TLAPS

----------------------------------------------------------------------------
(* Labels: a node that has a next is labelled by the pair that the two     *)
(* make.  A table is about labels, whatever nodes they come from.          *)

Ids == DOMAIN tokens

\* Words and how often each was found, the positions in them, and the copies of
\* some positions.
Found(words) ==
  /\ DOMAIN words \subseteq Seq(Byte) \ {<< >>}
  /\ words \in [DOMAIN words -> Nat \ {0}]

PositionIn(words) == UNION {{w} \X DOMAIN w : w \in DOMAIN words}
CopiesAt(words, places) == UNION {{n} \X (1 .. words[n[1]]) : n \in places}

Position == PositionIn(wordMap)

Following == {n \in DOMAIN nodes : nodes[n].next # NoNode}

Labels == [n \in Following |-> <<nodes[n].sym, nodes[nodes[n].next].sym>>]

Where(labels, p) == {n \in DOMAIN labels : labels[n] = p}

Without(labels, n) == [m \in DOMAIN labels \ {n} |-> labels[m]]
With(labels, n, p) == [m \in DOMAIN labels \cup {n} |-> IF m = n THEN p ELSE labels[m]]

\* A table: its pairs are of known tokens, and what was touched is in it.
Typed(words, s, ids) ==
  /\ DOMAIN s.pairs \subseteq ids \X ids /\ s.touched \subseteq DOMAIN s.pairs
  /\ \A p \in DOMAIN s.pairs : s.pairs[p] \in [count : Nat, occs : Seq(PositionIn(words))]

\* It counts these labels.
Tallied(words, s, labels) ==
  /\ DOMAIN labels \subseteq PositionIn(words)
  /\ \A n \in DOMAIN labels : labels[n] \in DOMAIN s.pairs
  /\ \A p \in DOMAIN s.pairs :
       /\ IsFiniteSet(CopiesAt(words, Where(labels, p)))
       /\ s.pairs[p].count = Cardinality(CopiesAt(words, Where(labels, p)))

\* It lists them, but for those of one pair.
Listed(s, labels, but) ==
  \A p \in DOMAIN s.pairs \ {but} : Where(labels, p) \subseteq ToSet(s.pairs[p].occs)

Table(words, s, labels, but, ids) ==
  Typed(words, s, ids) /\ Tallied(words, s, labels) /\ Listed(s, labels, but)

----------------------------------------------------------------------------
(* The invariant.                                                          *)

Words ==
  /\ DOMAIN wordMap \subseteq Pieces /\ IsFiniteSet(DOMAIN wordMap) /\ Found(wordMap)
  /\ phase \in {"adding", "choosing", "merging", "trained", "failed"}

Token == [bytes : Seq(Byte) \ {<< >>}, left : Nat, right : Nat]

\* A token is a byte, or has the bytes of its parts, which were there before.
Vocabulary ==
  /\ tokens \in Seq(Token) /\ Byte \subseteq Ids
  /\ \A id \in Byte : tokens[id] = ByteTokens[id]
  /\ \A id \in Ids \ Byte :
       /\ tokens[id].left \in Ids /\ tokens[id].right \in Ids
       /\ tokens[id].bytes = MergedBytes(tokens, tokens[id].left, tokens[id].right)

Bytes(n) == tokens[nodes[n].sym].bytes

\* The position after a node's bytes.
End(n) == n[2] + Len(Bytes(n))

Node == [sym : Ids, prev : Position \cup {NoNode}, next : Position \cup {NoNode}]

\* A node has the bytes of its word from its position on to the next node, and
\* there is no node in between.
Spelled(n) ==
  /\ nodes[n] \in Node
  /\ End(n) <= Len(WordOf(n)) + 1
  /\ Bytes(n) = SubSeq(WordOf(n), n[2], End(n) - 1)
  /\ \A k \in n[2] + 1 .. End(n) - 1 : <<WordOf(n), k>> \notin DOMAIN nodes
  /\ nodes[n].next = IF End(n) = Len(WordOf(n)) + 1 THEN NoNode ELSE <<WordOf(n), End(n)>>

Doubly(n) ==
  /\ nodes[n].next # NoNode => nodes[n].next \in DOMAIN nodes /\ nodes[nodes[n].next].prev = n
  /\ nodes[n].prev # NoNode => nodes[n].prev \in DOMAIN nodes /\ nodes[nodes[n].prev].next = n

Chained ==
  /\ DOMAIN nodes \subseteq Position
  /\ \A w \in DOMAIN wordMap : <<w, 1>> \in DOMAIN nodes
  /\ \A n \in DOMAIN nodes : Spelled(n) /\ Doubly(n)

JobPair == <<job.left, job.right>>

TheTable == Table(wordMap, [pairs |-> pairs, touched |-> job.touched], Labels, JobPair, Ids)

\* A pair that occurs is on the heap under its count, unless it was touched.
OnHeap ==
  /\ heap \subseteq [pair : DOMAIN pairs, count : Nat \ {0}]
  /\ \A p \in DOMAIN pairs \ (job.touched \cup {JobPair}) :
       pairs[p].count > 0 => [pair |-> p, count |-> pairs[p].count] \in heap

\* The pair being merged, whose occurrences are all still to be visited.
Merging ==
  /\ JobPair \in DOMAIN pairs /\ job.merged \in Ids
  /\ tokens[job.merged].bytes = MergedBytes(tokens, job.left, job.right)
  /\ job \in [left : Ids, right : Ids, merged : Ids, rest : Seq(Position),
              touched : SUBSET DOMAIN pairs]
  /\ Where(Labels, JobPair) \subseteq ToSet(job.rest)

Index == Vocabulary /\ Chained /\ TheTable /\ OnHeap

TrainerInv ==
  /\ Words
  /\ phase \in {"choosing", "merging"} => Index
  /\ phase = "merging" => Merging
  /\ phase \in {"adding", "choosing"} => job = NoJob
  /\ phase = "trained" => Vocabulary

USE BpeTrainerAssumption, TokenizerAssumption

----------------------------------------------------------------------------
(* Numbers and copies.                                                     *)

\* A nonempty set of naturals has a least element.
LEMMA LeastElement ==
  ASSUME NEW T, T \subseteq Nat, T # {} PROVE \E x \in T : \A y \in T : x <= y
<1>1. PICK x \in T : \A y \in T : ~ (<<y, x>> \in OpToRel(<, Nat)) BY NatLessThanWellFounded, WFMin
<1>2. \A y \in T : ~ (y < x) BY <1>1 DEF OpToRel
<1> QED BY <1>2

\* A position is its word and its place in the word.
LEMMA PositionParts ==
  ASSUME NEW words, NEW n \in PositionIn(words)
  PROVE  n = <<n[1], n[2]>> /\ n[1] \in DOMAIN words /\ n[2] \in DOMAIN n[1] /\ n # NoNode
<1>1. PICK w \in DOMAIN words : n \in {w} \X DOMAIN w BY DEF PositionIn
<1>2. n = <<n[1], n[2]>> /\ n[1] = w /\ n[2] \in DOMAIN w BY <1>1
<1>3. n # NoNode
  <2>1. \A a, b : <<a, b>> # << >> OBVIOUS
  <2> QED BY <1>2, <2>1, Zenon DEF NoNode
<1> QED BY <1>1, <1>2, <1>3

\* A place in a word is a position.
LEMMA PositionIs ==
  ASSUME NEW words, NEW w \in DOMAIN words, NEW i \in DOMAIN w PROVE <<w, i>> \in PositionIn(words)
BY DEF PositionIn

\* A word is not empty.
LEMMA WordParts ==
  ASSUME NEW words, Found(words), NEW w \in DOMAIN words
  PROVE  w \in Seq(Byte) /\ w # << >> /\ Len(w) \in Nat \ {0} /\ DOMAIN w = 1 .. Len(w)
<1>1. w \in Seq(Byte) /\ w # << >> BY DEF Found
<1> QED BY <1>1, EmptySeq, LenProperties

\* A word was found at least once.
LEMMA WeightPositive ==
  ASSUME NEW words, Found(words), NEW n \in PositionIn(words)
  PROVE words[n[1]] \in Nat \ {0}
BY PositionParts DEF Found

\* The copies of one more place.
LEMMA CopiesOfOne ==
  ASSUME NEW words, Found(words), NEW n \in PositionIn(words)
  PROVE  IsFiniteSet(CopiesAt(words, {n})) /\ Cardinality(CopiesAt(words, {n})) = words[n[1]]
<1>1. CopiesAt(words, {n}) = {n} \X (1 .. words[n[1]]) BY DEF CopiesAt
<1>2. words[n[1]] \in Nat BY WeightPositive
<1>3. IsFiniteSet({n}) /\ Cardinality({n}) = 1 BY FS_Singleton
<1>4. IsFiniteSet(1 .. words[n[1]]) /\ Cardinality(1 .. words[n[1]]) = words[n[1]]
  <2> DEFINE k == words[n[1]]
  <2>1. k \in Nat BY <1>2
  <2> HIDE DEF k
  <2>2. IsFiniteSet(1 .. k) /\ Cardinality(1 .. k) = k BY <2>1, FS_Interval
  <2> QED BY <2>2 DEF k
<1>5. IsFiniteSet({n} \X (1 .. words[n[1]]))
      /\ Cardinality({n} \X (1 .. words[n[1]])) = 1 * words[n[1]]
  BY <1>3, <1>4, FS_Product
<1>6. 1 * words[n[1]] = words[n[1]] BY <1>2
<1> QED BY <1>1, <1>5, <1>6, Zenon

\* A place more has its word's copies more ...
LEMMA CopiesAdd ==
  ASSUME NEW words, Found(words), NEW S \in SUBSET PositionIn(words),
         NEW n \in PositionIn(words), n \notin S, IsFiniteSet(CopiesAt(words, S))
  PROVE  /\ IsFiniteSet(CopiesAt(words, S \cup {n}))
         /\ Cardinality(CopiesAt(words, S \cup {n})) = Cardinality(CopiesAt(words, S)) + words[n[1]]
<1>1. CopiesAt(words, S \cup {n}) = CopiesAt(words, S) \cup CopiesAt(words, {n}) BY DEF CopiesAt
<1>2. CopiesAt(words, S) \cap CopiesAt(words, {n}) = {}
  <2> SUFFICES ASSUME NEW c \in CopiesAt(words, S), c \in CopiesAt(words, {n}) PROVE FALSE OBVIOUS
  <2>1. PICK m \in S : c \in {m} \X (1 .. words[m[1]]) BY DEF CopiesAt
  <2>2. c \in {n} \X (1 .. words[n[1]]) BY DEF CopiesAt
  <2>3. c[1] = m /\ c[1] = n BY <2>1, <2>2
  <2> QED BY <2>1, <2>3
<1>3. IsFiniteSet(CopiesAt(words, {n})) /\ Cardinality(CopiesAt(words, {n})) = words[n[1]]
  BY CopiesOfOne
<1>4. /\ IsFiniteSet(CopiesAt(words, S) \cup CopiesAt(words, {n}))
      /\ Cardinality(CopiesAt(words, S) \cup CopiesAt(words, {n}))
           = Cardinality(CopiesAt(words, S)) + Cardinality(CopiesAt(words, {n}))
                - Cardinality(CopiesAt(words, S) \cap CopiesAt(words, {n}))
  BY <1>3, FS_Union
<1>5. Cardinality({}) = 0 BY FS_EmptySet
<1>6. Cardinality(CopiesAt(words, S)) \in Nat BY FS_CardinalityType
<1>7. words[n[1]] \in Nat BY WeightPositive
<1>8. Cardinality(CopiesAt(words, S)) + words[n[1]] - 0 = Cardinality(CopiesAt(words, S)) + words[n[1]]
  BY <1>6, <1>7
<1>9. IsFiniteSet(CopiesAt(words, S \cup {n})) BY <1>1, <1>4, Zenon
<1>10. Cardinality(CopiesAt(words, S \cup {n})) = Cardinality(CopiesAt(words, S)) + words[n[1]] - 0
  BY <1>1, <1>2, <1>3, <1>4, <1>5, Zenon
<1> QED BY <1>8, <1>9, <1>10, Zenon

\* ... and a place less has them less.
LEMMA CopiesRemove ==
  ASSUME NEW words, Found(words), NEW S \in SUBSET PositionIn(words), NEW n \in S,
         IsFiniteSet(CopiesAt(words, S))
  PROVE  /\ IsFiniteSet(CopiesAt(words, S \ {n}))
         /\ Cardinality(CopiesAt(words, S)) = Cardinality(CopiesAt(words, S \ {n})) + words[n[1]]
<1>1. CopiesAt(words, S \ {n}) \subseteq CopiesAt(words, S) BY DEF CopiesAt
<1>2. IsFiniteSet(CopiesAt(words, S \ {n})) BY <1>1, FS_Subset
<1>3. (S \ {n}) \cup {n} = S /\ n \notin S \ {n} /\ S \ {n} \in SUBSET PositionIn(words)
        /\ n \in PositionIn(words)
  OBVIOUS
<1>4. Cardinality(CopiesAt(words, (S \ {n}) \cup {n}))
        = Cardinality(CopiesAt(words, S \ {n})) + words[n[1]]
  BY <1>2, <1>3, CopiesAdd
<1> QED BY <1>2, <1>3, <1>4

\* What occurs at all has a positive frequency.
LEMMA CopiesPositive ==
  ASSUME NEW words, Found(words), NEW S \in SUBSET PositionIn(words), IsFiniteSet(CopiesAt(words, S))
  PROVE  Cardinality(CopiesAt(words, S)) > 0 <=> S # {}
<1>1. CASE S = {}
  <2>1. CopiesAt(words, S) = {} BY <1>1 DEF CopiesAt
  <2> QED BY <1>1, <2>1, FS_EmptySet
<1>2. ASSUME NEW n \in S PROVE Cardinality(CopiesAt(words, S)) > 0
  <2>1. Cardinality(CopiesAt(words, S)) = Cardinality(CopiesAt(words, S \ {n})) + words[n[1]]
          /\ IsFiniteSet(CopiesAt(words, S \ {n}))
    BY CopiesRemove
  <2>2. Cardinality(CopiesAt(words, S \ {n})) \in Nat BY <2>1, FS_CardinalityType
  <2>3. words[n[1]] \in Nat \ {0} BY WeightPositive
  <2> QED BY <2>1, <2>2, <2>3
<1> QED BY <1>1, <1>2

----------------------------------------------------------------------------
(* The two operations on tables.                                           *)

\* From one table to a later one: what changed was touched.
Kept(s, t) ==
  /\ s.touched \subseteq t.touched /\ DOMAIN s.pairs \subseteq DOMAIN t.pairs
  /\ \A p \in DOMAIN t.pairs \ t.touched : p \in DOMAIN s.pairs /\ t.pairs[p] = s.pairs[p]

\* A table keeps itself.
LEMMA KeptSelf == ASSUME NEW s PROVE Kept(s, s)
BY DEF Kept

\* What two steps keep, both together keep.
LEMMA KeptOn == ASSUME NEW r, NEW s, NEW t, Kept(r, s), Kept(s, t) PROVE Kept(r, t)
BY DEF Kept

\* A label less is what a decrement counts.
LEMMA DecrementSound ==
  ASSUME NEW words, Found(words), NEW s, NEW labels, NEW but, NEW ids,
         Table(words, s, labels, but, ids),
         NEW n \in DOMAIN labels
  PROVE  LET t == Decrement(s, labels[n], words[n[1]]) IN
         Table(words, t, Without(labels, n), but, ids) /\ Kept(s, t)
<1> DEFINE p == labels[n]
           t == Decrement(s, p, words[n[1]])
           count == IF s.pairs[p].count > words[n[1]] THEN s.pairs[p].count - words[n[1]] ELSE 0
<1>1. p \in DOMAIN s.pairs /\ n \in PositionIn(words) BY DEF Table, Tallied
<1>2. words[n[1]] \in Nat \ {0} BY <1>1, WeightPositive
<1>3. /\ t.touched = s.touched \cup {p} /\ t.pairs = [s.pairs EXCEPT ![p].count = count]
  BY <1>1 DEF Decrement
<1>4. /\ s.pairs[p] \in [count : Nat, occs : Seq(PositionIn(words))]
  BY <1>1 DEF Table, Typed
<1>5. /\ DOMAIN t.pairs = DOMAIN s.pairs
      /\ t.pairs[p] = [count |-> count, occs |-> s.pairs[p].occs]
      /\ \A q \in DOMAIN s.pairs \ {p} : t.pairs[q] = s.pairs[q]
  BY <1>1, <1>3, <1>4
<1>6. count \in Nat BY <1>2, <1>4
<1> HIDE DEF t
<1>7. Typed(words, t, ids) BY <1>1, <1>3, <1>4, <1>5, <1>6 DEF Table, Typed
<1>8. /\ Where(Without(labels, n), p) = Where(labels, p) \ {n}
      /\ \A q \in DOMAIN s.pairs \ {p} : Where(Without(labels, n), q) = Where(labels, q)
  BY DEF Where, Without
<1>9. n \in Where(labels, p) /\ \A q : Where(labels, q) \in SUBSET PositionIn(words)
  BY DEF Where, Table, Tallied
<1>10. /\ IsFiniteSet(CopiesAt(words, Where(labels, p)))
       /\ s.pairs[p].count = Cardinality(CopiesAt(words, Where(labels, p)))
  BY <1>1 DEF Table, Tallied
<1>11. /\ IsFiniteSet(CopiesAt(words, Where(labels, p) \ {n}))
       /\ s.pairs[p].count = Cardinality(CopiesAt(words, Where(labels, p) \ {n})) + words[n[1]]
  BY <1>9, <1>10, CopiesRemove
<1>12. Cardinality(CopiesAt(words, Where(labels, p) \ {n})) \in Nat BY <1>11, FS_CardinalityType
<1>13. count = Cardinality(CopiesAt(words, Where(labels, p) \ {n})) BY <1>2, <1>11, <1>12
<1> HIDE DEF p, count
<1>14. Tallied(words, t, Without(labels, n))
  <2>1. /\ DOMAIN Without(labels, n) = DOMAIN labels \ {n}
        /\ \A m \in DOMAIN labels \ {n} : Without(labels, n)[m] = labels[m]
    BY DEF Without
  <2>2. ASSUME NEW q \in DOMAIN t.pairs
        PROVE  /\ IsFiniteSet(CopiesAt(words, Where(Without(labels, n), q)))
               /\ t.pairs[q].count = Cardinality(CopiesAt(words, Where(Without(labels, n), q)))
    <3>1. CASE q = p
      <4>1. t.pairs[q].count = count BY <1>5, <3>1
      <4>2. Where(Without(labels, n), q) = Where(labels, p) \ {n} BY <1>8, <3>1, Zenon
      <4> QED BY <1>11, <1>13, <4>1, <4>2, Zenon
    <3>2. CASE q # p
      <4>1. q \in DOMAIN s.pairs /\ t.pairs[q] = s.pairs[q] BY <1>5, <3>2
      <4>2. Where(Without(labels, n), q) = Where(labels, q) BY <1>8, <3>2, <4>1
      <4> QED BY <4>1, <4>2 DEF Table, Tallied
    <3> QED BY <3>1, <3>2
  <2>3. DOMAIN labels \subseteq PositionIn(words)
          /\ \A m \in DOMAIN labels : labels[m] \in DOMAIN s.pairs
    BY DEF Table, Tallied
  <2> QED BY <1>5, <2>1, <2>2, <2>3 DEF Tallied
<1>15. Listed(t, Without(labels, n), but)
  <2> SUFFICES ASSUME NEW q \in DOMAIN t.pairs \ {but}
               PROVE  Where(Without(labels, n), q) \subseteq ToSet(t.pairs[q].occs)
    BY DEF Listed
  <2>1. q \in DOMAIN s.pairs \ {but} /\ t.pairs[q].occs = s.pairs[q].occs BY <1>5
  <2>2. Where(labels, q) \subseteq ToSet(s.pairs[q].occs) BY <2>1 DEF Table, Listed
  <2>3. Where(Without(labels, n), q) \subseteq Where(labels, q) BY <1>8, <2>1
  <2> QED BY <2>1, <2>2, <2>3
<1>16. Kept(s, t) BY <1>3, <1>5 DEF Kept
<1> QED BY <1>7, <1>14, <1>15, <1>16 DEF Table, t, p

\* A label more is what an increment counts and lists.
LEMMA IncrementIs ==
  ASSUME NEW s, NEW p, NEW weight, NEW n
  PROVE  LET old == IF p \in DOMAIN s.pairs THEN s.pairs[p] ELSE NoPair
             t   == Increment(s, p, weight, n)
         IN  /\ t.touched = s.touched \cup {p} /\ DOMAIN t.pairs = DOMAIN s.pairs \cup {p}
             /\ t.pairs[p] = [count |-> old.count + weight, occs |-> <<n>> \o old.occs]
             /\ \A q \in DOMAIN s.pairs \ {p} : t.pairs[q] = s.pairs[q]
<1> DEFINE old == IF p \in DOMAIN s.pairs THEN s.pairs[p] ELSE NoPair
           new == [count |-> old.count + weight, occs |-> <<n>> \o old.occs]
           t   == Increment(s, p, weight, n)
<1>1. t = [pairs |-> [x \in DOMAIN s.pairs \cup {p} |-> IF x = p THEN new ELSE s.pairs[x]],
           touched |-> s.touched \cup {p}]
  BY DEF Increment
<1> HIDE DEF new, t
<1>3. t.pairs = [x \in DOMAIN s.pairs \cup {p} |-> IF x = p THEN new ELSE s.pairs[x]]
      /\ t.touched = s.touched \cup {p}
  BY <1>1
<1> QED BY <1>3 DEF t, new

\* So an increment leaves a table of the labels and one more.
LEMMA IncrementSound ==
  ASSUME NEW words, Found(words), NEW s, NEW labels, NEW but, NEW ids,
         Table(words, s, labels, but, ids),
         NEW n \in PositionIn(words), n \notin DOMAIN labels, NEW p \in ids \X ids
  PROVE  LET t == Increment(s, p, words[n[1]], n) IN
         Table(words, t, With(labels, n, p), but, ids) /\ Kept(s, t)
<1> DEFINE old == IF p \in DOMAIN s.pairs THEN s.pairs[p] ELSE NoPair
           t   == Increment(s, p, words[n[1]], n)
           W   == With(labels, n, p)
<1>1. /\ t.touched = s.touched \cup {p} /\ DOMAIN t.pairs = DOMAIN s.pairs \cup {p}
      /\ t.pairs[p] = [count |-> old.count + words[n[1]], occs |-> <<n>> \o old.occs]
      /\ \A q \in DOMAIN s.pairs \ {p} : t.pairs[q] = s.pairs[q]
  BY IncrementIs
<1> HIDE DEF t
<1>2. words[n[1]] \in Nat \ {0} BY WeightPositive
<1>3. \A q \in DOMAIN s.pairs : s.pairs[q] \in [count : Nat, occs : Seq(PositionIn(words))]
  BY DEF Table, Typed
<1>4. old \in [count : Nat, occs : Seq(PositionIn(words))] BY <1>3 DEF NoPair
<1>5. \A q : Where(labels, q) \in SUBSET PositionIn(words) BY DEF Where, Table, Tallied
<1>6. IsFiniteSet(CopiesAt(words, Where(labels, p)))
        /\ old.count = Cardinality(CopiesAt(words, Where(labels, p)))
  <2>1. CASE p \in DOMAIN s.pairs BY <2>1 DEF Table, Tallied
  <2>2. CASE p \notin DOMAIN s.pairs
    <3>1. Where(labels, p) = {} BY <2>2 DEF Where, Table, Tallied
    <3>2. CopiesAt(words, Where(labels, p)) = {} BY <3>1 DEF CopiesAt
    <3>3. old.count = 0 BY <2>2 DEF NoPair
    <3> QED BY <3>2, <3>3, FS_EmptySet
  <2> QED BY <2>1, <2>2
<1> HIDE DEF old
<1>7. <<n>> \o old.occs \in Seq(PositionIn(words)) /\ n \in ToSet(<<n>> \o old.occs)
      /\ ToSet(old.occs) \subseteq ToSet(<<n>> \o old.occs)
  <2> DEFINE o == old.occs
  <2>1. o \in Seq(PositionIn(words)) BY <1>4
  <2> HIDE DEF o
  <2>2. /\ <<n>> \o o \in Seq(PositionIn(words)) /\ DOMAIN (<<n>> \o o) = 1 .. Len(o) + 1
        /\ (<<n>> \o o)[1] = n /\ \A k \in 1 .. Len(o) : (<<n>> \o o)[k + 1] = o[k]
    BY <2>1
  <2>3. DOMAIN o = 1 .. Len(o) /\ Len(o) \in Nat BY <2>1
  <2>4. 1 \in 1 .. Len(o) + 1 /\ \A k \in 1 .. Len(o) : k + 1 \in 1 .. Len(o) + 1 BY <2>3
  <2>5. n \in ToSet(<<n>> \o o) BY <2>2, <2>3, <2>4 DEF ToSet
  <2>6. ToSet(o) \subseteq ToSet(<<n>> \o o)
    <3> SUFFICES ASSUME NEW k \in 1 .. Len(o) PROVE o[k] \in ToSet(<<n>> \o o) BY <2>3 DEF ToSet
    <3>1. o[k] = (<<n>> \o o)[k + 1] /\ k + 1 \in DOMAIN (<<n>> \o o) BY <2>2, <2>4
    <3> QED BY <3>1, Zenon DEF ToSet
  <2> QED BY <2>2, <2>5, <2>6 DEF o
<1>8. Typed(words, t, ids)
  <2>1. DOMAIN s.pairs \subseteq ids \X ids /\ s.touched \subseteq DOMAIN s.pairs
    BY DEF Table, Typed
  <2>2. old.count + words[n[1]] \in Nat BY <1>2, <1>4
  <2>3. t.pairs[p] \in [count : Nat, occs : Seq(PositionIn(words))] BY <1>1, <1>7, <2>2
  <2> QED BY <1>1, <1>3, <2>1, <2>3 DEF Typed
<1>9. n \notin Where(labels, p) BY DEF Where
<1>10. /\ Where(W, p) = Where(labels, p) \cup {n}
       /\ \A q : q # p => Where(W, q) = Where(labels, q)
       /\ DOMAIN W = DOMAIN labels \cup {n} /\ \A m \in DOMAIN W : W[m] \in {labels[m], p}
       /\ W[n] = p /\ \A m \in DOMAIN labels : W[m] = labels[m]
  BY DEF Where, With
<1> HIDE DEF W
<1>11. /\ IsFiniteSet(CopiesAt(words, Where(labels, p) \cup {n}))
       /\ Cardinality(CopiesAt(words, Where(labels, p) \cup {n}))
            = Cardinality(CopiesAt(words, Where(labels, p))) + words[n[1]]
  BY <1>5, <1>6, <1>9, CopiesAdd
<1>12. Tallied(words, t, W)
  <2>1. ASSUME NEW q \in DOMAIN t.pairs
        PROVE  /\ IsFiniteSet(CopiesAt(words, Where(W, q)))
               /\ t.pairs[q].count = Cardinality(CopiesAt(words, Where(W, q)))
    <3>1. CASE q = p
      <4>1. t.pairs[q].count = old.count + words[n[1]] BY <1>1, <3>1
      <4>2. Where(W, q) = Where(labels, p) \cup {n} BY <1>10, <3>1, Zenon
      <4> QED BY <1>6, <1>11, <4>1, <4>2, Zenon
    <3>2. CASE q # p
      <4>1. q \in DOMAIN s.pairs /\ t.pairs[q] = s.pairs[q] BY <1>1, <3>2
      <4>2. Where(W, q) = Where(labels, q) BY <1>10, <3>2
      <4> QED BY <4>1, <4>2 DEF Table, Tallied
    <3> QED BY <3>1, <3>2
  <2>2. DOMAIN labels \subseteq PositionIn(words)
          /\ \A m \in DOMAIN labels : labels[m] \in DOMAIN s.pairs
    BY DEF Table, Tallied
  <2>3. \A m \in DOMAIN W : W[m] \in DOMAIN t.pairs BY <1>1, <1>10, <2>2
  <2> QED BY <1>10, <2>1, <2>2, <2>3 DEF Tallied
<1>13. Listed(t, W, but)
  <2> SUFFICES ASSUME NEW q \in DOMAIN t.pairs \ {but}
               PROVE  Where(W, q) \subseteq ToSet(t.pairs[q].occs)
    BY DEF Listed
  <2>1. CASE q # p
    <3>1. q \in DOMAIN s.pairs \ {but} /\ t.pairs[q] = s.pairs[q] BY <1>1, <2>1
    <3>2. Where(W, q) = Where(labels, q) BY <1>10, <2>1
    <3> QED BY <3>1, <3>2 DEF Table, Listed
  <2>2. CASE q = p
    <3>1. Where(W, q) = Where(labels, p) \cup {n} BY <1>10, <2>2
    <3>2. t.pairs[q].occs = <<n>> \o old.occs BY <1>1, <2>2
    <3>3. Where(labels, p) \subseteq ToSet(old.occs)
      <4>1. CASE p \in DOMAIN s.pairs
        <5>1. old = s.pairs[p] BY <4>1 DEF old
        <5> QED BY <2>2, <4>1, <5>1 DEF Table, Listed
      <4>2. CASE p \notin DOMAIN s.pairs BY <4>2 DEF Where, Table, Tallied
      <4> QED BY <4>1, <4>2
    <3> QED BY <1>7, <3>1, <3>2, <3>3
  <2> QED BY <2>1, <2>2
<1>14. Kept(s, t) BY <1>1 DEF Kept
<1> QED BY <1>8, <1>12, <1>13, <1>14 DEF Table, t, W

----------------------------------------------------------------------------
(* The list of a word's nodes, and what joining two of them does to it.    *)

\* A token has bytes.
LEMMA BytesAre ==
  ASSUME Vocabulary, NEW id \in Ids
  PROVE  tokens[id].bytes \in Seq(Byte) /\ Len(tokens[id].bytes) \in Nat \ {0}
<1>1. tokens[id] \in Token BY DEF Vocabulary, Ids
<1>2. tokens[id].bytes \in Seq(Byte) /\ tokens[id].bytes # << >> BY <1>1 DEF Token
<1> QED BY <1>2, EmptySeq, LenProperties

\* A node is a position, and ends within its word.
LEMMA NodeParts ==
  ASSUME Words, Vocabulary, Chained, NEW n \in DOMAIN nodes
  PROVE  /\ n \in Position /\ n = <<n[1], n[2]>> /\ n[1] \in DOMAIN wordMap /\ n # NoNode
         /\ n[1] \in Seq(Byte) /\ n[2] \in 1 .. Len(n[1]) /\ Len(n[1]) \in Nat
         /\ nodes[n] \in Node /\ Bytes(n) \in Seq(Byte) /\ Len(Bytes(n)) \in Nat \ {0}
         /\ End(n) \in Nat /\ End(n) > n[2] /\ End(n) <= Len(n[1]) + 1
<1>1. n \in Position BY DEF Chained
<1>2. n = <<n[1], n[2]>> /\ n[1] \in DOMAIN wordMap /\ n[2] \in DOMAIN n[1] /\ n # NoNode
  BY <1>1, PositionParts DEF Position
<1>3. n[1] \in Seq(Byte) /\ Len(n[1]) \in Nat \ {0} /\ DOMAIN n[1] = 1 .. Len(n[1])
  BY <1>2, WordParts DEF Words
<1>4. nodes[n] \in Node /\ End(n) <= Len(n[1]) + 1 BY DEF Chained, Spelled, WordOf
<1>5. nodes[n].sym \in Ids BY <1>4 DEF Node
<1>6. Bytes(n) \in Seq(Byte) /\ Len(Bytes(n)) \in Nat \ {0} BY <1>5, BytesAre DEF Bytes
<1>7. n[2] \in Nat /\ End(n) = n[2] + Len(Bytes(n)) BY <1>2, <1>3 DEF End
<1>8. End(n) \in Nat /\ End(n) > n[2] BY <1>6, <1>7
<1> QED BY <1>1, <1>2, <1>3, <1>4, <1>6, <1>8

\* The node behind a node is in its word, where the node ends.
LEMMA NextParts ==
  ASSUME Words, Vocabulary, Chained, NEW n \in DOMAIN nodes, nodes[n].next # NoNode
  PROVE  LET m == nodes[n].next IN
         /\ m \in DOMAIN nodes /\ m = <<n[1], End(n)>> /\ m[1] = n[1] /\ m[2] = End(n)
         /\ m[2] > n[2] /\ m # n /\ nodes[m].prev = n
<1> DEFINE m == nodes[n].next
<1>1. m \in DOMAIN nodes /\ nodes[m].prev = n BY DEF Chained, Doubly
<1>2. m = <<n[1], End(n)>> BY DEF Chained, Spelled, WordOf
<1>3. n = <<n[1], n[2]>> /\ End(n) \in Nat /\ End(n) > n[2] /\ n[2] \in Nat BY NodeParts
<1>4. m[1] = n[1] /\ m[2] = End(n) BY <1>2
<1>5. m # n BY <1>3, <1>4
<1> QED BY <1>1, <1>2, <1>3, <1>4, <1>5

\* The node before a node is in its word, and leads to it.
LEMMA PrevParts ==
  ASSUME Words, Vocabulary, Chained, NEW n \in DOMAIN nodes, nodes[n].prev # NoNode
  PROVE  LET m == nodes[n].prev IN
         /\ m \in DOMAIN nodes /\ nodes[m].next = n /\ nodes[m].next # NoNode
         /\ m[1] = n[1] /\ m[2] < n[2] /\ m # n
<1> DEFINE m == nodes[n].prev
<1>1. m \in DOMAIN nodes /\ nodes[m].next = n BY DEF Chained, Doubly
<1>2. nodes[m].next # NoNode BY <1>1, NodeParts
<1>3. n[1] = m[1] /\ n[2] > m[2] /\ m # n BY <1>1, <1>2, NextParts
<1>4. n[2] \in Nat /\ m[2] \in Nat BY <1>1, NodeParts
<1> QED BY <1>1, <1>2, <1>3, <1>4

\* The nodes that a merge at n has to do with.
Gone(n) == nodes[n].next
Behind(n) == nodes[Gone(n)].next
Before(n) == nodes[n].prev

Joinable(n) == n \in DOMAIN nodes /\ Gone(n) # NoNode

\* The nodes a merge has to do with are different ones, linked both ways.
LEMMA Neighbours ==
  ASSUME Words, Vocabulary, Chained, NEW n, Joinable(n)
  PROVE  /\ Gone(n) \in DOMAIN nodes /\ Gone(n) # n /\ Gone(n)[1] = n[1] /\ Gone(n)[2] = End(n)
         /\ nodes[Gone(n)].prev = n /\ Behind(n) # n /\ Behind(n) # Gone(n)
         /\ Behind(n) # NoNode => /\ Behind(n) \in DOMAIN nodes /\ Behind(n) # Before(n)
                                  /\ nodes[Behind(n)].prev = Gone(n)
         /\ Before(n) # n /\ Before(n) # Gone(n)
         /\ Before(n) # NoNode => Before(n) \in DOMAIN nodes /\ nodes[Before(n)].next = n
<1>1. n \in DOMAIN nodes /\ nodes[n].next # NoNode BY DEF Joinable, Gone
<1>2. /\ Gone(n) \in DOMAIN nodes /\ Gone(n)[1] = n[1] /\ Gone(n)[2] = End(n) /\ Gone(n) # n
      /\ nodes[Gone(n)].prev = n /\ Gone(n)[2] > n[2]
  BY <1>1, NextParts DEF Gone
<1>3. n[2] \in Nat /\ Gone(n)[2] \in Nat /\ n # NoNode /\ Gone(n) # NoNode BY <1>1, <1>2, NodeParts
<1>4. ASSUME Behind(n) # NoNode
      PROVE  /\ Behind(n) \in DOMAIN nodes /\ nodes[Behind(n)].prev = Gone(n)
             /\ Behind(n)[2] > Gone(n)[2] /\ Behind(n)[2] \in Nat
  <2>1. /\ Behind(n) \in DOMAIN nodes /\ nodes[Behind(n)].prev = Gone(n)
        /\ Behind(n)[2] > Gone(n)[2]
    BY <1>2, <1>4, NextParts DEF Behind
  <2> QED BY <2>1, NodeParts
<1>5. Behind(n) # n /\ Behind(n) # Gone(n) BY <1>2, <1>3, <1>4
<1>6. ASSUME Before(n) # NoNode
      PROVE  /\ Before(n) \in DOMAIN nodes /\ nodes[Before(n)].next = n
             /\ Before(n)[2] < n[2] /\ Before(n)[2] \in Nat
  <2>1. Before(n) \in DOMAIN nodes /\ nodes[Before(n)].next = n /\ Before(n)[2] < n[2]
    BY <1>1, <1>6, PrevParts DEF Before
  <2> QED BY <2>1, NodeParts
<1>7. Before(n) # n /\ Before(n) # Gone(n) BY <1>2, <1>3, <1>6
<1>8. Behind(n) # NoNode => Behind(n) # Before(n) BY <1>2, <1>3, <1>4, <1>6
<1> QED BY <1>2, <1>4, <1>5, <1>6, <1>7, <1>8

\* The nodes after the merge.
LEMMA JoinedIs ==
  ASSUME Words, Vocabulary, Chained, NEW n, Joinable(n)
  PROVE  LET J == Joined(n) IN
         /\ DOMAIN J = DOMAIN nodes \ {Gone(n)}
         /\ J[n] = [sym |-> job.merged, prev |-> Before(n), next |-> Behind(n)]
         /\ Behind(n) # NoNode =>
              J[Behind(n)] = [sym |-> nodes[Behind(n)].sym, prev |-> n, next |-> nodes[Behind(n)].next]
         /\ \A m \in DOMAIN nodes \ {n, Gone(n), Behind(n)} : J[m] = nodes[m]
<1> DEFINE J == Joined(n)
<1>1. J = [m \in DOMAIN nodes \ {Gone(n)} |->
             IF m = n THEN [nodes[n] EXCEPT !.sym = job.merged, !.next = Behind(n)]
             ELSE IF m = Behind(n) THEN [nodes[m] EXCEPT !.prev = n]
             ELSE nodes[m]]
  BY Zenon DEF Joined, Gone, Behind
<1> HIDE DEF J
<1>2. n \in DOMAIN nodes /\ \A m \in DOMAIN nodes : nodes[m] \in Node BY NodeParts DEF Joinable
<1>3. J[n] = [sym |-> job.merged, prev |-> Before(n), next |-> Behind(n)]
  <2>1. J[n] = [nodes[n] EXCEPT !.sym = job.merged, !.next = Behind(n)] BY <1>1, <1>2, Neighbours
  <2> QED BY <1>2, <2>1 DEF Node, Before
<1>4. ASSUME Behind(n) # NoNode
      PROVE  J[Behind(n)] = [sym |-> nodes[Behind(n)].sym, prev |-> n, next |-> nodes[Behind(n)].next]
  <2>1. Behind(n) \in DOMAIN nodes /\ Behind(n) # n /\ Behind(n) # Gone(n) BY <1>4, Neighbours
  <2>2. J[Behind(n)] = [nodes[Behind(n)] EXCEPT !.prev = n] BY <1>1, <2>1
  <2>3. nodes[Behind(n)] \in Node BY <1>2, <2>1
  <2> QED BY <2>2, <2>3 DEF Node
<1>5. \A m \in DOMAIN nodes \ {n, Gone(n), Behind(n)} : J[m] = nodes[m] BY <1>1
<1>6. DOMAIN J = DOMAIN nodes \ {Gone(n)} BY <1>1
<1> QED BY <1>3, <1>4, <1>5, <1>6 DEF J

\* Joining two nodes whose bytes the merged token has keeps the words spelled.
LEMMA JoinSpells ==
  ASSUME Words, Vocabulary, Chained, NEW n, Joinable(n), job.merged \in Ids,
         tokens[job.merged].bytes = MergedBytes(tokens, nodes[n].sym, nodes[Gone(n)].sym),
         nodes' = Joined(n), UNCHANGED <<wordMap, tokens>>
  PROVE  Chained'
<1> DEFINE N == DOMAIN nodes
           G == Gone(n)
           B == Behind(n)
           P == Before(n)
<1>1. /\ DOMAIN nodes' = N \ {G}
      /\ nodes'[n] = [sym |-> job.merged, prev |-> P, next |-> B]
      /\ B # NoNode => nodes'[B] = [sym |-> nodes[B].sym, prev |-> n, next |-> nodes[B].next]
      /\ \A m \in N \ {n, G, B} : nodes'[m] = nodes[m]
  BY JoinedIs
<1>2. /\ n \in N /\ G \in N /\ G # n /\ G[1] = n[1] /\ G[2] = End(n) /\ nodes[G].prev = n
      /\ nodes[n].next = G /\ nodes[G].next = B /\ nodes[n].prev = P
      /\ B # n /\ B # G /\ (B # NoNode => B \in N /\ B # P /\ nodes[B].prev = G)
      /\ P # n /\ P # G /\ (P # NoNode => P \in N /\ nodes[P].next = n)
  BY Neighbours DEF Joinable, Gone, Behind, Before
<1>0. tokens[job.merged].bytes = tokens[nodes[n].sym].bytes \o tokens[nodes[G].sym].bytes
  BY DEF MergedBytes
<1> HIDE DEF G, B, P
<1>3. /\ wordMap' = wordMap /\ tokens' = tokens /\ Position' = Position /\ Ids' = Ids /\ Node' = Node
  BY DEF Position, Ids, Node
<1>4. ASSUME NEW m \in N
      PROVE  /\ m \in Position /\ m = <<m[1], m[2]>> /\ m[1] \in DOMAIN wordMap /\ m # NoNode
             /\ m[1] \in Seq(Byte) /\ m[2] \in 1 .. Len(m[1]) /\ Len(m[1]) \in Nat
             /\ nodes[m] \in Node /\ Bytes(m) \in Seq(Byte) /\ Len(Bytes(m)) \in Nat \ {0}
             /\ End(m) \in Nat /\ End(m) > m[2] /\ End(m) <= Len(m[1]) + 1
  BY <1>4, NodeParts
<1>5. ASSUME NEW m \in N PROVE Spelled(m) /\ Doubly(m)
  BY <1>5 DEF Chained
<1>6. ASSUME NEW m \in N \ {n, G}
      PROVE  /\ nodes'[m].sym = nodes[m].sym /\ nodes'[m].next = nodes[m].next
             /\ Bytes(m)' = Bytes(m) /\ End(m)' = End(m)
             /\ nodes'[m].prev = IF m = B THEN n ELSE nodes[m].prev
             /\ nodes'[m] \in Node
  <2>1. m \in N /\ m # NoNode /\ nodes[m] \in Node /\ n \in Position BY <1>2, <1>4
  <2>2. /\ nodes'[m].sym = nodes[m].sym /\ nodes'[m].next = nodes[m].next
        /\ nodes'[m].prev = IF m = B THEN n ELSE nodes[m].prev
        /\ nodes'[m] \in Node
    <3>1. CASE m = B
      <4>1. nodes'[m] = [sym |-> nodes[m].sym, prev |-> n, next |-> nodes[m].next]
        BY <1>1, <2>1, <3>1
      <4> QED BY <2>1, <3>1, <4>1 DEF Node
    <3>2. CASE m # B BY <1>1, <2>1, <3>2
    <3> QED BY <3>1, <3>2
  <2> QED BY <1>3, <2>2 DEF Bytes, End
<1>7. Bytes(n)' = Bytes(n) \o Bytes(G) /\ End(n)' = End(G)
  <2>1. Bytes(n)' = Bytes(n) \o Bytes(G)
    <3>1. Bytes(n)' = tokens[nodes'[n].sym].bytes BY <1>3 DEF Bytes
    <3>2. nodes'[n].sym = job.merged BY <1>1
    <3>3. tokens[nodes[n].sym].bytes = Bytes(n) /\ tokens[nodes[G].sym].bytes = Bytes(G)
      BY DEF Bytes
    <3> QED BY <1>0, <3>1, <3>2, <3>3, Zenon
  <2>2. Bytes(n) \in Seq(Byte) /\ Bytes(G) \in Seq(Byte) /\ n[2] \in Nat BY <1>2, <1>4
  <2>3. Len(Bytes(n) \o Bytes(G)) = Len(Bytes(n)) + Len(Bytes(G)) BY <2>2, ConcatProperties
  <2>4. End(n)' = n[2] + Len(Bytes(n) \o Bytes(G)) BY <2>1 DEF End
  <2>5. End(G) = n[2] + Len(Bytes(n)) + Len(Bytes(G)) BY <1>2 DEF End
  <2>6. Len(Bytes(n)) \in Nat /\ Len(Bytes(G)) \in Nat BY <1>2, <1>4
  <2> QED BY <2>1, <2>2, <2>3, <2>4, <2>5, <2>6
<1>8. nodes'[n] \in Node
  <2>1. nodes[n] \in Node /\ nodes[G] \in Node BY <1>2, <1>4
  <2>2. P \in Position \cup {NoNode} /\ B \in Position \cup {NoNode} BY <1>2, <2>1 DEF Node
  <2> QED BY <1>1, <2>2 DEF Node
<1>9. Spelled(n)'
  <2>1. n = <<n[1], n[2]>> /\ n[1] \in Seq(Byte) /\ n[2] \in 1 .. Len(n[1]) /\ Len(n[1]) \in Nat
    BY <1>2, <1>4
  <2>2. End(n) \in Nat /\ End(G) \in Nat /\ n[2] < End(n) /\ End(n) < End(G) /\ End(G) <= Len(n[1]) + 1
    BY <1>2, <1>4
  <2>3. /\ Bytes(n) = SubSeq(n[1], n[2], End(n) - 1)
        /\ \A k \in n[2] + 1 .. End(n) - 1 : <<n[1], k>> \notin N
        /\ Bytes(G) = SubSeq(n[1], End(n), End(G) - 1)
        /\ \A k \in End(n) + 1 .. End(G) - 1 : <<n[1], k>> \notin N
        /\ B = IF End(G) = Len(n[1]) + 1 THEN NoNode ELSE <<n[1], End(G)>>
    BY <1>2, <1>5 DEF Spelled, WordOf
  <2>4. Bytes(n) \o Bytes(G) = SubSeq(n[1], n[2], End(G) - 1)
    <3>1. /\ n[2] \in 1 .. Len(n[1]) + 1 /\ End(n) - 1 \in n[2] - 1 .. Len(n[1])
          /\ End(G) - 1 \in End(n) - 1 .. Len(n[1]) /\ (End(n) - 1) + 1 = End(n)
      BY <2>1, <2>2
    <3>2. SubSeq(n[1], n[2], End(n) - 1) \o SubSeq(n[1], (End(n) - 1) + 1, End(G) - 1)
            = SubSeq(n[1], n[2], End(G) - 1)
      BY <2>1, <3>1, ConcatAdjacentSubSeq
    <3> QED BY <2>3, <3>1, <3>2
  <2>5. ASSUME NEW k \in n[2] + 1 .. End(G) - 1 PROVE <<n[1], k>> \notin DOMAIN nodes'
    <3>1. CASE k = End(n)
      <4>1. G = <<n[1], k>> BY <1>2, <1>4, <3>1
      <4> QED BY <1>1, <4>1
    <3>2. CASE k # End(n)
      <4>1. k \in n[2] + 1 .. End(n) - 1 \/ k \in End(n) + 1 .. End(G) - 1 BY <2>1, <2>2, <3>2
      <4> QED BY <1>1, <2>3, <4>1
    <3> QED BY <3>1, <3>2
  <2>6. nodes'[n].next = B BY <1>1
  <2> QED BY <1>3, <1>7, <1>8, <2>2, <2>3, <2>4, <2>5, <2>6 DEF Spelled, WordOf
<1>10. Doubly(n)'
  <2>1. nodes'[n].next = B /\ nodes'[n].prev = P BY <1>1
  <2>2. B # NoNode => B \in DOMAIN nodes' /\ nodes'[B].prev = n BY <1>1, <1>2
  <2>3. P # NoNode => P \in DOMAIN nodes' /\ nodes'[P].next = n BY <1>1, <1>2, <1>6
  <2> QED BY <2>1, <2>2, <2>3 DEF Doubly
<1>11. ASSUME NEW m \in N \ {n, G} PROVE Spelled(m)' /\ Doubly(m)'
  <2>1. /\ nodes'[m].sym = nodes[m].sym /\ nodes'[m].next = nodes[m].next
        /\ Bytes(m)' = Bytes(m) /\ End(m)' = End(m)
        /\ nodes'[m].prev = IF m = B THEN n ELSE nodes[m].prev
        /\ nodes'[m] \in Node
    BY <1>6
  <2>2. Spelled(m)' BY <1>1, <1>3, <1>5, <2>1 DEF Spelled, WordOf
  <2>3. /\ nodes[m].next # NoNode => nodes[m].next \in N /\ nodes[nodes[m].next].prev = m
        /\ nodes[m].prev # NoNode => nodes[m].prev \in N /\ nodes[nodes[m].prev].next = m
    BY <1>5 DEF Doubly
  <2>4. ASSUME nodes[m].next # NoNode
        PROVE  nodes[m].next \in DOMAIN nodes' /\ nodes'[nodes[m].next].prev = m
    <3> DEFINE x == nodes[m].next
    <3>1. x \in N /\ nodes[x].prev = m /\ x # G /\ x # B BY <1>2, <2>3, <2>4
    <3>2. CASE x = n BY <1>1, <1>2, <3>1, <3>2
    <3>3. CASE x # n
      <4>1. nodes'[x].prev = nodes[x].prev BY <1>6, <3>1, <3>3
      <4> QED BY <1>1, <3>1, <4>1
    <3> QED BY <3>2, <3>3
  <2>5. ASSUME nodes'[m].prev # NoNode
        PROVE  nodes'[m].prev \in DOMAIN nodes' /\ nodes'[nodes'[m].prev].next = m
    <3>1. CASE m = B
      <4>1. nodes'[m].prev = n /\ nodes'[n].next = m BY <1>1, <2>1, <3>1
      <4> QED BY <1>1, <1>2, <4>1
    <3>2. CASE m # B
      <4> DEFINE x == nodes[m].prev
      <4>1. nodes'[m].prev = x /\ x \in N /\ nodes[x].next = m BY <2>1, <2>3, <2>5, <3>2
      <4>2. x # G /\ x # n BY <1>2, <3>2, <4>1
      <4>3. nodes'[x].next = m BY <1>6, <4>1, <4>2
      <4> QED BY <1>1, <4>1, <4>2, <4>3
    <3> QED BY <3>1, <3>2
  <2> QED BY <2>1, <2>2, <2>4, <2>5 DEF Doubly
<1>12. DOMAIN nodes' \subseteq Position' BY <1>1, <1>3 DEF Chained
<1>13. ASSUME NEW w \in DOMAIN wordMap PROVE <<w, 1>> \in DOMAIN nodes'
  <2>1. <<w, 1>> \in N BY DEF Chained
  <2>2. G[2] = End(n) /\ End(n) > n[2] /\ n[2] \in Nat \ {0} /\ End(n) \in Nat BY <1>2, <1>4
  <2>3. G[2] # 1 BY <2>2
  <2>4. <<w, 1>>[2] = 1 OBVIOUS
  <2> QED BY <1>1, <2>1, <2>3, <2>4
<1>14. \A m \in DOMAIN nodes' : Spelled(m)' /\ Doubly(m)' BY <1>1, <1>9, <1>10, <1>11
<1> QED BY <1>3, <1>12, <1>13, <1>14 DEF Chained

----------------------------------------------------------------------------
(* The labels and the table after a merge.                                 *)

\* Labels are pairs of known tokens, at positions.
LEMMA LabelsAre ==
  ASSUME Words, Vocabulary, Chained
  PROVE  /\ DOMAIN Labels = Following /\ Following \subseteq Position
         /\ \A n \in Following : /\ nodes[n].next \in DOMAIN nodes
                                 /\ Labels[n] = <<nodes[n].sym, nodes[nodes[n].next].sym>>
                                 /\ Labels[n] \in Ids \X Ids
<1>1. Following \subseteq DOMAIN nodes BY DEF Following
<1>2. ASSUME NEW n \in Following
      PROVE  n \in Position /\ nodes[n].next \in DOMAIN nodes
             /\ <<nodes[n].sym, nodes[nodes[n].next].sym>> \in Ids \X Ids
  <2>1. n \in DOMAIN nodes /\ nodes[n].next # NoNode BY DEF Following
  <2>2. nodes[n].next \in DOMAIN nodes BY <2>1, NextParts
  <2>3. n \in Position /\ nodes[n] \in Node /\ nodes[nodes[n].next] \in Node
    BY <2>1, <2>2, NodeParts
  <2> QED BY <2>2, <2>3 DEF Node
<1> QED BY <1>2 DEF Labels

\* What the merge at n takes from the labels and gives to them.
LabelsLess(n) ==
  LET l1 == IF Before(n) = NoNode THEN Labels ELSE Without(Labels, Before(n))
      l2 == Without(l1, n)
  IN  IF Behind(n) = NoNode THEN l2 ELSE Without(l2, Gone(n))

LabelsMore(n, l) ==
  LET l1 == IF Before(n) = NoNode THEN l
            ELSE With(l, Before(n), <<nodes[Before(n)].sym, job.merged>>)
  IN  IF Behind(n) = NoNode THEN l1
      ELSE With(l1, n, <<job.merged, nodes[Behind(n)].sym>>)

\* Nothing is left that was next to the two nodes.
LEMMA LessIs ==
  ASSUME Words, Vocabulary, Chained, NEW n, Joinable(n)
  PROVE  /\ DOMAIN LabelsLess(n) = Following \ {Before(n), n, Gone(n)}
         /\ \A m \in Following \ {Before(n), n, Gone(n)} : LabelsLess(n)[m] = Labels[m]
<1>1. DOMAIN Labels = Following BY LabelsAre
<1>2. NoNode \notin Following BY NodeParts DEF Following
<1>3. Behind(n) = NoNode => Gone(n) \notin Following BY DEF Following, Behind
<1>4. Before(n) # n /\ Before(n) # Gone(n) /\ Gone(n) # n BY Neighbours
<1> QED BY <1>1, <1>2, <1>3, <1>4 DEF LabelsLess, Without

\* The labels after a merge are those it leaves and those it gives.
LEMMA JoinLabels ==
  ASSUME Words, Vocabulary, Chained, NEW n, Joinable(n), nodes' = Joined(n)
  PROVE  Labels' = LabelsMore(n, LabelsLess(n))
<1> DEFINE N == DOMAIN nodes
           G == Gone(n)
           B == Behind(n)
           P == Before(n)
           L == LabelsLess(n)
           M == LabelsMore(n, L)
           F == Following'
<1>1. /\ DOMAIN nodes' = N \ {G}
      /\ nodes'[n] = [sym |-> job.merged, prev |-> P, next |-> B]
      /\ B # NoNode => nodes'[B] = [sym |-> nodes[B].sym, prev |-> n, next |-> nodes[B].next]
      /\ \A m \in N \ {n, G, B} : nodes'[m] = nodes[m]
  BY JoinedIs
<1>2. /\ n \in N /\ G \in N /\ G # n /\ nodes[G].prev = n
      /\ nodes[n].next = G /\ nodes[G].next = B
      /\ B # n /\ B # G /\ (B # NoNode => B \in N /\ B # P /\ nodes[B].prev = G)
      /\ P # n /\ P # G /\ (P # NoNode => P \in N /\ nodes[P].next = n)
  BY Neighbours DEF Joinable, Gone, Behind
<1>3. DOMAIN L = Following \ {P, n, G} /\ \A m \in Following \ {P, n, G} : L[m] = Labels[m]
  BY LessIs
<1>4. NoNode \notin N /\ Following = {m \in N : nodes[m].next # NoNode}
  BY NodeParts DEF Following
<1>5. \A m \in Following : /\ nodes[m].next \in N /\ nodes[nodes[m].next].prev = m
                           /\ Labels[m] = <<nodes[m].sym, nodes[nodes[m].next].sym>>
  BY LabelsAre, NextParts DEF Following
<1>6. M = LET l1 == IF P = NoNode THEN L ELSE With(L, P, <<nodes[P].sym, job.merged>>)
          IN  IF B = NoNode THEN l1 ELSE With(l1, n, <<job.merged, nodes[B].sym>>)
  BY DEF LabelsMore
<1> HIDE DEF G, B, P, L, M
<1>7. /\ DOMAIN M = DOMAIN L \cup (IF P = NoNode THEN {} ELSE {P}) \cup (IF B = NoNode THEN {} ELSE {n})
      /\ P # NoNode => M[P] = <<nodes[P].sym, job.merged>>
      /\ B # NoNode => M[n] = <<job.merged, nodes[B].sym>>
      /\ \A m \in DOMAIN L : M[m] = L[m]
      /\ M = [m \in DOMAIN M |-> M[m]]
  <2>1. CASE P = NoNode /\ B = NoNode
    <3>1. M = L /\ L = [m \in DOMAIN L |-> L[m]] BY <1>6, <2>1 DEF L, LabelsLess, Labels, Without
    <3> QED BY <2>1, <3>1
  <2>2. CASE P = NoNode /\ B # NoNode BY <1>2, <1>3, <1>6, <2>2 DEF With
  <2>3. CASE P # NoNode /\ B = NoNode BY <1>2, <1>3, <1>6, <2>3 DEF With
  <2>4. CASE P # NoNode /\ B # NoNode BY <1>2, <1>3, <1>6, <2>4 DEF With
  <2> QED BY <2>1, <2>2, <2>3, <2>4
<1>8. /\ \A m \in N \ {n, G} : nodes'[m].sym = nodes[m].sym /\ nodes'[m].next = nodes[m].next
      /\ nodes'[n].sym = job.merged /\ nodes'[n].next = B
  <2>1. nodes'[n].sym = job.merged /\ nodes'[n].next = B BY <1>1
  <2>2. ASSUME NEW m \in N \ {n, G}
        PROVE  nodes'[m].sym = nodes[m].sym /\ nodes'[m].next = nodes[m].next
    <3>1. CASE m = B BY <1>1, <1>4, <3>1
    <3>2. CASE m # B BY <1>1, <3>2
    <3> QED BY <3>1, <3>2
  <2> QED BY <2>1, <2>2
<1>9. F = {m \in N \ {G} : nodes'[m].next # NoNode} BY <1>1 DEF Following
<1>10. F = DOMAIN M
  <2>1. ASSUME NEW m \in N \ {n, G} PROVE m \in F <=> m \in Following BY <1>4, <1>8, <1>9
  <2>2. n \in F <=> B # NoNode BY <1>2, <1>8, <1>9
  <2>3. F \subseteq N \ {G} /\ DOMAIN M \subseteq N \ {G} BY <1>2, <1>3, <1>4, <1>7, <1>9
  <2>4. P # NoNode => P \in Following BY <1>2, <1>4
  <2>5. ASSUME NEW m \in N \ {n, G} PROVE m \in DOMAIN M <=> m \in Following
    BY <1>2, <1>3, <1>4, <1>7, <2>4
  <2>6. n \in DOMAIN M <=> B # NoNode BY <1>2, <1>3, <1>7
  <2> QED BY <2>1, <2>2, <2>3, <2>5, <2>6
<1>11. ASSUME NEW m \in F PROVE <<nodes'[m].sym, nodes'[nodes'[m].next].sym>> = M[m]
  <2>1. CASE m = n
    <3>1. B # NoNode /\ nodes'[n].next = B BY <1>8, <1>9, <2>1
    <3>2. nodes'[B].sym = nodes[B].sym BY <1>2, <1>8, <3>1
    <3> QED BY <1>7, <1>8, <2>1, <3>1, <3>2
  <2>2. CASE m # n
    <3>1. m \in N \ {n, G} /\ m \in Following /\ nodes'[m].next = nodes[m].next
          /\ nodes'[m].sym = nodes[m].sym
      BY <1>4, <1>8, <1>9, <2>2
    <3>2. /\ nodes[m].next \in N /\ nodes[nodes[m].next].prev = m /\ nodes[m].next # G
      BY <1>2, <1>5, <3>1
    <3>3. CASE m = P
      <4>1. nodes[m].next = n /\ P # NoNode BY <1>2, <1>4, <3>1, <3>3
      <4> QED BY <1>7, <1>8, <3>1, <3>3, <4>1
    <3>4. CASE m # P
      <4>1. nodes[m].next # n
        <5> SUFFICES ASSUME nodes[m].next = n PROVE FALSE OBVIOUS
        <5>1. nodes[n].prev = m BY <3>2
        <5> QED BY <3>4, <5>1 DEF P, Before
      <4>2. M[m] = Labels[m] BY <1>3, <1>7, <3>1, <3>4
      <4>3. nodes'[nodes[m].next].sym = nodes[nodes[m].next].sym BY <1>8, <3>2, <4>1
      <4> QED BY <1>5, <3>1, <4>2, <4>3
    <3> QED BY <3>3, <3>4
  <2> QED BY <2>1, <2>2
<1>12. Labels' = [m \in F |-> <<nodes'[m].sym, nodes'[nodes'[m].next].sym>>] BY DEF Labels
<1> HIDE DEF F
<1>13. Labels' = [m \in DOMAIN M |-> M[m]] BY <1>10, <1>11, <1>12
<1> QED BY <1>7, <1>13 DEF L, M

\* The nodes a merge has to do with are of one word.
LEMMA SameWeight ==
  ASSUME Words, Vocabulary, Chained, NEW n, Joinable(n)
  PROVE  /\ Weight(Gone(n)) = Weight(n) /\ n \in Following
         /\ Before(n) # NoNode => Weight(Before(n)) = Weight(n) /\ Before(n) \in Following
         /\ Behind(n) # NoNode => Gone(n) \in Following
<1>1. n \in DOMAIN nodes /\ nodes[n].next # NoNode /\ Gone(n) \in DOMAIN nodes /\ Gone(n)[1] = n[1]
  BY Neighbours DEF Joinable, Gone
<1>2. ASSUME Before(n) # NoNode PROVE Before(n)[1] = n[1] /\ Before(n) \in Following
  <2>1. /\ Before(n) \in DOMAIN nodes /\ nodes[Before(n)].next # NoNode /\ Before(n)[1] = n[1]
    BY <1>1, <1>2, PrevParts DEF Before
  <2> QED BY <2>1 DEF Following
<1>3. n \in Following BY <1>1 DEF Following
<1>4. Behind(n) # NoNode => Gone(n) \in Following BY <1>1 DEF Following, Behind
<1> QED BY <1>1, <1>2, <1>3, <1>4 DEF Weight, WordOf

\* What is counted down is what is taken away ...
LEMMA UncountedSound ==
  ASSUME Words, Vocabulary, Chained, NEW n, Joinable(n),
         job.left = nodes[n].sym, job.right = nodes[Gone(n)].sym,
         NEW s, NEW but, Table(wordMap, s, Labels, but, Ids)
  PROVE  LET t == Uncounted(s, n) IN Table(wordMap, t, LabelsLess(n), but, Ids) /\ Kept(s, t)
<1> DEFINE G == Gone(n)
           B == Behind(n)
           P == Before(n)
           w == Weight(n)
           s1 == IF P = NoNode THEN s ELSE Decrement(s, <<nodes[P].sym, job.left>>, w)
           s2 == Decrement(s1, <<job.left, job.right>>, w)
           s3 == IF B = NoNode THEN s2 ELSE Decrement(s2, <<job.right, nodes[B].sym>>, w)
           l1 == IF P = NoNode THEN Labels ELSE Without(Labels, P)
           l2 == Without(l1, n)
           l3 == IF B = NoNode THEN l2 ELSE Without(l2, G)
<1>0. Found(wordMap) BY DEF Words
<1>1. Uncounted(s, n) = s3 BY DEF Uncounted, Gone, Behind, Before
<1>2. LabelsLess(n) = l3 BY DEF LabelsLess
<1>3. /\ DOMAIN Labels = Following
      /\ \A m \in Following : Labels[m] = <<nodes[m].sym, nodes[nodes[m].next].sym>>
  BY LabelsAre
<1>4. /\ Weight(G) = w /\ n \in Following /\ P # n /\ P # G /\ G # n
      /\ P # NoNode => Weight(P) = w /\ P \in Following /\ nodes[P].next = n
      /\ B # NoNode => G \in Following
      /\ nodes[n].next = G /\ nodes[G].next = B
  BY SameWeight, Neighbours DEF Gone, Behind
<1>5. /\ P # NoNode => Labels[P] = <<nodes[P].sym, job.left>>
      /\ Labels[n] = <<job.left, job.right>>
      /\ B # NoNode => Labels[G] = <<job.right, nodes[B].sym>>
  BY <1>3, <1>4
<1> HIDE DEF G, B, P, w
<1>6. Table(wordMap, s1, l1, but, Ids) /\ Kept(s, s1)
  <2>1. CASE P = NoNode BY <2>1, KeptSelf
  <2>2. CASE P # NoNode
    <3>1. P \in DOMAIN Labels BY <1>3, <1>4, <2>2
    <3>2. /\ Table(wordMap, Decrement(s, Labels[P], wordMap[P[1]]), Without(Labels, P), but, Ids)
          /\ Kept(s, Decrement(s, Labels[P], wordMap[P[1]]))
      BY <1>0, <3>1, DecrementSound
    <3>3. wordMap[P[1]] = w BY <1>4, <2>2 DEF Weight, WordOf
    <3> QED BY <1>5, <2>2, <3>2, <3>3 DEF s1, l1
  <2> QED BY <2>1, <2>2
<1>7. n \in DOMAIN l1 /\ l1[n] = <<job.left, job.right>>
      /\ (B # NoNode => G \in DOMAIN l2 /\ l2[G] = <<job.right, nodes[B].sym>>)
  BY <1>3, <1>4, <1>5 DEF Without
<1> HIDE DEF s1, l1
<1>8. Table(wordMap, s2, l2, but, Ids) /\ Kept(s1, s2)
  <2>1. /\ Table(wordMap, Decrement(s1, l1[n], wordMap[n[1]]), Without(l1, n), but, Ids)
        /\ Kept(s1, Decrement(s1, l1[n], wordMap[n[1]]))
    BY <1>0, <1>6, <1>7, DecrementSound
  <2>2. wordMap[n[1]] = w BY DEF w, Weight, WordOf
  <2> QED BY <1>7, <2>1, <2>2 DEF s2, l2
<1> HIDE DEF s2, l2
<1>9. Table(wordMap, s3, l3, but, Ids) /\ Kept(s2, s3)
  <2>1. CASE B = NoNode BY <1>8, <2>1, KeptSelf
  <2>2. CASE B # NoNode
    <3>1. /\ Table(wordMap, Decrement(s2, l2[G], wordMap[G[1]]), Without(l2, G), but, Ids)
          /\ Kept(s2, Decrement(s2, l2[G], wordMap[G[1]]))
      BY <1>0, <1>7, <1>8, <2>2, DecrementSound
    <3>2. wordMap[G[1]] = w BY <1>4, <2>2 DEF Weight, WordOf
    <3> QED BY <1>7, <2>2, <3>1, <3>2 DEF s3, l3
  <2> QED BY <2>1, <2>2
<1> HIDE DEF s3, l3
<1>10. Kept(s, s3) BY <1>6, <1>8, <1>9, KeptOn
<1> QED BY <1>1, <1>2, <1>9, <1>10

\* ... and what is counted up is what is given.
LEMMA RecountedSound ==
  ASSUME Words, Vocabulary, Chained, NEW n, Joinable(n), job.merged \in Ids,
         NEW s, NEW but, NEW l, Table(wordMap, s, l, but, Ids),
         n \notin DOMAIN l, Before(n) \notin DOMAIN l
  PROVE  LET t == Recounted(s, n) IN Table(wordMap, t, LabelsMore(n, l), but, Ids) /\ Kept(s, t)
<1> DEFINE B == Behind(n)
           P == Before(n)
           w == Weight(n)
           s1 == IF P = NoNode THEN s ELSE Increment(s, <<nodes[P].sym, job.merged>>, w, P)
           s2 == IF B = NoNode THEN s1 ELSE Increment(s1, <<job.merged, nodes[B].sym>>, w, n)
           l1 == IF P = NoNode THEN l ELSE With(l, P, <<nodes[P].sym, job.merged>>)
           l2 == IF B = NoNode THEN l1 ELSE With(l1, n, <<job.merged, nodes[B].sym>>)
<1>0. Found(wordMap) BY DEF Words
<1>1. Recounted(s, n) = s2 BY DEF Recounted, Gone, Behind, Before
<1>2. LabelsMore(n, l) = l2 BY DEF LabelsMore
<1>3. /\ n \in DOMAIN nodes /\ P # n
      /\ P # NoNode => P \in DOMAIN nodes /\ Weight(P) = w
      /\ B # NoNode => B \in DOMAIN nodes
  BY SameWeight, Neighbours DEF Joinable
<1>4. \A m \in DOMAIN nodes : m \in Position /\ nodes[m].sym \in Ids BY NodeParts DEF Node
<1> HIDE DEF B, P, w
<1>5. Table(wordMap, s1, l1, but, Ids) /\ Kept(s, s1)
  <2>1. CASE P = NoNode BY <2>1, KeptSelf
  <2>2. CASE P # NoNode
    <3> DEFINE p == <<nodes[P].sym, job.merged>>
    <3>1. P \in Position /\ P \notin DOMAIN l /\ p \in Ids \X Ids BY <1>3, <1>4, <2>2 DEF P
    <3> HIDE DEF p
    <3>2. /\ Table(wordMap, Increment(s, p, wordMap[P[1]], P), With(l, P, p), but, Ids)
          /\ Kept(s, Increment(s, p, wordMap[P[1]], P))
      BY <1>0, <3>1, IncrementSound DEF Position
    <3>3. wordMap[P[1]] = w BY <1>3, <2>2 DEF Weight, WordOf
    <3> QED BY <2>2, <3>2, <3>3 DEF p, s1, l1
  <2> QED BY <2>1, <2>2
<1>6. n \notin DOMAIN l1 BY <1>3 DEF With
<1> HIDE DEF s1, l1
<1>7. Table(wordMap, s2, l2, but, Ids) /\ Kept(s1, s2)
  <2>1. CASE B = NoNode BY <1>5, <2>1, KeptSelf
  <2>2. CASE B # NoNode
    <3> DEFINE p == <<job.merged, nodes[B].sym>>
    <3>1. n \in Position /\ p \in Ids \X Ids BY <1>3, <1>4, <2>2
    <3> HIDE DEF p
    <3>2. /\ Table(wordMap, Increment(s1, p, wordMap[n[1]], n), With(l1, n, p), but, Ids)
          /\ Kept(s1, Increment(s1, p, wordMap[n[1]], n))
      BY <1>0, <1>5, <1>6, <3>1, IncrementSound DEF Position
    <3>3. wordMap[n[1]] = w BY DEF w, Weight, WordOf
    <3> QED BY <2>2, <3>2, <3>3 DEF p, s2, l2
  <2> QED BY <2>1, <2>2
<1> HIDE DEF s2, l2
<1>8. Kept(s, s2) BY <1>5, <1>7, KeptOn
<1> QED BY <1>1, <1>2, <1>7, <1>8

\* The merged token is longer than its parts, so none of them.
LEMMA MergedIsNew ==
  ASSUME Vocabulary, Merging PROVE job.merged # job.left /\ job.merged # job.right
<1>1. job.left \in Ids /\ job.right \in Ids /\ job.merged \in Ids BY DEF Merging
<1> DEFINE a == tokens[job.left].bytes
           b == tokens[job.right].bytes
<1>2. tokens[job.merged].bytes = a \o b BY DEF Merging, MergedBytes
<1>3. a \in Seq(Byte) /\ b \in Seq(Byte) /\ Len(a) \in Nat \ {0} /\ Len(b) \in Nat \ {0}
  BY <1>1, BytesAre
<1> HIDE DEF a, b
<1>4. Len(a \o b) = Len(a) + Len(b) BY <1>3, ConcatProperties
<1>5. Len(a \o b) # Len(a) /\ Len(a \o b) # Len(b) BY <1>3, <1>4
<1> QED BY <1>2, <1>5 DEF a, b

\* So no place of the pair being merged is new, and the one visited is gone.
LEMMA FewerPlaces ==
  ASSUME Words, Vocabulary, Chained, Merging, NEW n, Joinable(n)
  PROVE  Where(LabelsMore(n, LabelsLess(n)), JobPair) \subseteq Where(Labels, JobPair) \ {n}
<1> DEFINE L == LabelsLess(n)
           M == LabelsMore(n, L)
           P == Before(n)
           B == Behind(n)
<1>1. DOMAIN L = Following \ {P, n, Gone(n)}
      /\ \A m \in Following \ {P, n, Gone(n)} : L[m] = Labels[m]
  BY LessIs
<1>2. M = LET l1 == IF P = NoNode THEN L ELSE With(L, P, <<nodes[P].sym, job.merged>>)
          IN  IF B = NoNode THEN l1 ELSE With(l1, n, <<job.merged, nodes[B].sym>>)
  BY DEF LabelsMore
<1>3. P # n BY Neighbours
<1>4. DOMAIN Labels = Following BY LabelsAre
<1>5. job.merged # job.left /\ job.merged # job.right BY MergedIsNew
<1>6. \A x : <<x, job.merged>> # JobPair /\ <<job.merged, x>> # JobPair BY <1>5 DEF JobPair
<1> HIDE DEF L, M, P, B
<1>7. ASSUME NEW m \in DOMAIN M, M[m] = JobPair PROVE m \in DOMAIN L /\ M[m] = L[m]
  BY <1>2, <1>3, <1>6, <1>7 DEF With
<1> QED BY <1>1, <1>4, <1>7 DEF Where, L, M

----------------------------------------------------------------------------
(* FlattenSeq is a recursive function: one that satisfies its equation     *)
(* exists, and its values do not depend on how far it goes.                *)

Flat(f, seqs, m) == f = [i \in 1 .. m |-> IF i = 1 THEN seqs[i] ELSE f[i - 1] \o seqs[i]]

\* The equation at one place.
LEMMA FlatStep ==
  ASSUME NEW f, NEW seqs, NEW m, Flat(f, seqs, m), NEW i \in 1 .. m
  PROVE  f[i] = IF i = 1 THEN seqs[i] ELSE f[i - 1] \o seqs[i]
BY DEF Flat

\* Some function satisfies it, as far as one likes.
LEMMA FlatExists == ASSUME NEW seqs, NEW m \in Nat PROVE \E f : Flat(f, seqs, m)
<1> DEFINE bad == {k \in Nat : ~ \E f : Flat(f, seqs, k)}
<1>1. SUFFICES ASSUME bad # {} PROVE FALSE OBVIOUS
<1>2. PICK k \in bad : \A j \in bad : k <= j BY <1>1, LeastElement
<1>3. CASE k = 0
  <2> DEFINE f == [i \in {} |-> 0]
  <2>1. Flat(f, seqs, 0) BY DEF Flat
  <2> QED BY <1>2, <1>3, <2>1
<1>4. CASE k # 0
  <2>1. k - 1 \in Nat /\ k - 1 \notin bad BY <1>2, <1>4
  <2>2. PICK g : Flat(g, seqs, k - 1) BY <2>1
  <2> DEFINE f == [i \in 1 .. k |-> IF i = 1 THEN seqs[i] ELSE g[i - 1] \o seqs[i]]
  <2>3. ASSUME NEW i \in 2 .. k PROVE f[i - 1] = g[i - 1]
    <3>1. i - 1 \in 1 .. k - 1 /\ i - 1 \in 1 .. k BY <2>1
    <3>2. g[i - 1] = IF i - 1 = 1 THEN seqs[i - 1] ELSE g[(i - 1) - 1] \o seqs[i - 1]
      BY <2>2, <3>1 DEF Flat
    <3> QED BY <3>1, <3>2
  <2>4. ASSUME NEW i \in 1 .. k
        PROVE  f[i] = IF i = 1 THEN seqs[i] ELSE f[i - 1] \o seqs[i]
    <3>1. CASE i = 1 BY <3>1
    <3>2. CASE i # 1
      <4>1. i \in 2 .. k BY <3>2
      <4>2. f[i] = g[i - 1] \o seqs[i] BY <3>2
      <4> QED BY <2>3, <3>2, <4>1, <4>2
    <3> QED BY <3>1, <3>2
  <2>5. f = [i \in 1 .. k |-> f[i]] OBVIOUS
  <2> HIDE DEF f
  <2>6. Flat(f, seqs, k) BY <2>4, <2>5 DEF Flat
  <2> QED BY <1>2, <2>6
<1> QED BY <1>3, <1>4

\* Two that do agree, where the sequences they flatten do.
LEMMA FlatUnique ==
  ASSUME NEW S, NEW s \in Seq(S), NEW e \in S,
         NEW f, NEW g, Flat(f, s, Len(s)), Flat(g, Append(s, e), Len(s) + 1)
  PROVE  \A i \in 1 .. Len(s) : f[i] = g[i]
<1> DEFINE m == Len(s)
           n == Len(s) + 1
           t == Append(s, e)
<1>0. m \in Nat /\ n = m + 1 /\ \A i \in 1 .. m : s[i] = t[i]
  BY AppendProperties, LenProperties
<1> HIDE DEF m, n, t
<1> DEFINE bad == {i \in 1 .. m : f[i] # g[i]}
<1>1. SUFFICES ASSUME bad # {} PROVE FALSE BY DEF m
<1>2. PICK k \in bad : \A j \in bad : k <= j
  <2>1. bad \subseteq Nat BY <1>0
  <2> QED BY <1>1, <2>1, LeastElement
<1>3. /\ f[k] = IF k = 1 THEN s[k] ELSE f[k - 1] \o s[k]
      /\ g[k] = IF k = 1 THEN t[k] ELSE g[k - 1] \o t[k]
      /\ s[k] = t[k]
  <2>1. k \in 1 .. m /\ k \in 1 .. n BY <1>0
  <2>2. Flat(f, s, m) /\ Flat(g, t, n) BY DEF m, n, t
  <2> QED BY <1>0, <2>1, <2>2, FlatStep
<1>4. CASE k = 1 BY <1>3, <1>4
<1>5. CASE k # 1
  <2>1. k - 1 \in 1 .. m /\ k - 1 \notin bad BY <1>0, <1>2, <1>5
  <2>2. f[k - 1] = g[k - 1] BY <2>1
  <2> QED BY <1>3, <1>5, <2>2
<1> QED BY <1>4, <1>5

\* Its values are sequences of what the sequences are of.
LEMMA FlatType ==
  ASSUME NEW S, NEW seqs, NEW m \in Nat, \A i \in 1 .. m : seqs[i] \in Seq(S),
         NEW f, Flat(f, seqs, m)
  PROVE  \A i \in 1 .. m : f[i] \in Seq(S)
<1> DEFINE bad == {i \in 1 .. m : f[i] \notin Seq(S)}
<1>1. SUFFICES ASSUME bad # {} PROVE FALSE OBVIOUS
<1>2. PICK k \in bad : \A j \in bad : k <= j
  <2>1. bad \subseteq Nat OBVIOUS
  <2> QED BY <1>1, <2>1, LeastElement
<1>3. f[k] = IF k = 1 THEN seqs[k] ELSE f[k - 1] \o seqs[k] BY DEF Flat
<1>4. CASE k = 1 BY <1>3, <1>4
<1>5. CASE k # 1
  <2>1. k - 1 \in 1 .. m /\ k - 1 \notin bad BY <1>2, <1>5
  <2>2. f[k - 1] \in Seq(S) /\ seqs[k] \in Seq(S) BY <2>1
  <2>3. f[k - 1] \o seqs[k] \in Seq(S) BY <2>2, ConcatProperties
  <2> QED BY <1>3, <1>5, <2>3
<1> QED BY <1>4, <1>5

\* FlattenSeq is the last value of such a function.
LEMMA FlattenIs ==
  ASSUME NEW seqs, Len(seqs) \in Nat \ {0}
  PROVE  \E f : Flat(f, seqs, Len(seqs)) /\ FlattenSeq(seqs) = f[Len(seqs)]
<1> DEFINE f == CHOOSE f : f = [i \in 1 .. Len(seqs) |-> IF i = 1 THEN seqs[i] ELSE f[i - 1] \o seqs[i]]
<1>1. \E g : g = [i \in 1 .. Len(seqs) |-> IF i = 1 THEN seqs[i] ELSE g[i - 1] \o seqs[i]]
  BY FlatExists DEF Flat
<1>2. Flat(f, seqs, Len(seqs)) BY <1>1, Zenon DEF Flat
<1>3. FlattenSeq(seqs) = f[Len(seqs)] BY Zenon DEF FlattenSeq
<1> HIDE DEF f
<1> QED BY <1>2, <1>3

\* What a sequence more adds.
LEMMA FlattenAppend ==
  ASSUME NEW S, NEW seqs \in Seq(Seq(S)), NEW s \in Seq(S)
  PROVE  /\ FlattenSeq(seqs) \in Seq(S)
         /\ FlattenSeq(Append(seqs, s)) = FlattenSeq(seqs) \o s
         /\ FlattenSeq(<< >>) = << >>
<1> DEFINE n == Len(seqs)
           more == Append(seqs, s)
<1>1. /\ n \in Nat /\ Len(more) = n + 1 /\ \A i \in 1 .. n : more[i] = seqs[i] /\ seqs[i] \in Seq(S)
      /\ more[n + 1] = s
  BY AppendProperties, ElementOfSeq
<1>2. FlattenSeq(<< >>) = << >> BY DEF FlattenSeq
<1> HIDE DEF n, more
<1>3. PICK g : Flat(g, more, n + 1) /\ FlattenSeq(more) = g[n + 1]
  <2>1. Len(more) \in Nat \ {0} BY <1>1
  <2> QED BY <1>1, <2>1, FlattenIs
<1>4. g[n + 1] = IF n + 1 = 1 THEN more[n + 1] ELSE g[(n + 1) - 1] \o more[n + 1]
  <2>1. n + 1 \in 1 .. n + 1 BY <1>1
  <2> QED BY <1>3, <2>1, FlatStep
<1>5. CASE n = 0
  <2>1. seqs = << >> BY <1>5, EmptySeq DEF n
  <2>2. FlattenSeq(seqs) = << >> BY <1>2, <2>1
  <2>3. FlattenSeq(more) = s BY <1>1, <1>3, <1>4, <1>5
  <2>4. << >> \o s = s BY ConcatEmptySeq
  <2> QED BY <1>2, <2>2, <2>3, <2>4, EmptySeq DEF more
<1>6. CASE n # 0
  <2>1. PICK f : Flat(f, seqs, n) /\ FlattenSeq(seqs) = f[n] BY <1>1, <1>6, FlattenIs DEF n
  <2>2. n \in 1 .. n /\ n + 1 # 1 /\ (n + 1) - 1 = n BY <1>1, <1>6
  <2>4. \A i \in 1 .. n : f[i] = g[i] BY <1>3, <2>1, FlatUnique DEF n, more
  <2>5. f[n] = g[n] BY <2>2, <2>4
  <2>6. \A i \in 1 .. n : f[i] \in Seq(S) BY <1>1, <2>1, FlatType
  <2>7. f[n] \in Seq(S) BY <2>2, <2>6
  <2>8. FlattenSeq(more) = g[n] \o s BY <1>1, <1>3, <1>4, <2>2
  <2> QED BY <1>2, <2>1, <2>5, <2>7, <2>8 DEF more
<1> QED BY <1>5, <1>6

----------------------------------------------------------------------------
(* What the tokens of a word decode to.                                    *)

\* A token more decodes to its bytes more.
LEMMA DecodeAppend ==
  ASSUME Vocabulary, NEW ids \in Seq(Ids), NEW id \in Ids
  PROVE  /\ Decode(tokens, ids) \in Seq(Byte)
         /\ Decode(tokens, Append(ids, id)) = Decode(tokens, ids) \o tokens[id].bytes
         /\ Decode(tokens, << >>) = << >>
<1> DEFINE bytes(s) == [i \in DOMAIN s |-> tokens[s[i]].bytes]
           a == Append(ids, id)
<1>1. \A k \in Ids : tokens[k].bytes \in Seq(Byte) BY BytesAre
<1>2. Len(ids) \in Nat /\ DOMAIN ids = 1 .. Len(ids) /\ \A i \in 1 .. Len(ids) : ids[i] \in Ids
  BY LenProperties, ElementOfSeq
<1>3. bytes(ids) \in Seq(Seq(Byte))
  <2>1. bytes(ids) \in [1 .. Len(ids) -> Seq(Byte)] BY <1>1, <1>2
  <2> QED BY <1>2, <2>1, SeqDef
<1>4. a \in Seq(Ids) /\ Len(a) = Len(ids) + 1 /\ DOMAIN a = 1 .. Len(ids) + 1
      /\ (\A i \in 1 .. Len(ids) : a[i] = ids[i]) /\ a[Len(ids) + 1] = id
  BY AppendProperties, LenProperties
<1> HIDE DEF a
<1>5. bytes(a) = Append(bytes(ids), tokens[id].bytes)
  <2> DEFINE x == tokens[id].bytes
  <2>1. x \in Seq(Byte) /\ Len(bytes(ids)) = Len(ids) BY <1>1, <1>2, <1>3
  <2>2. bytes(a) \in Seq(Seq(Byte)) /\ Len(bytes(a)) = Len(ids) + 1
    <3>1. \A i \in 1 .. Len(ids) + 1 : a[i] \in Ids BY <1>4, ElementOfSeq
    <3>2. bytes(a) \in [1 .. Len(ids) + 1 -> Seq(Byte)] BY <1>1, <1>4, <3>1
    <3> QED BY <1>2, <3>2, SeqDef
  <2>3. \A i \in 1 .. Len(ids) + 1 : bytes(a)[i] = IF i = Len(ids) + 1 THEN x ELSE bytes(ids)[i]
    BY <1>2, <1>4
  <2> HIDE DEF x, bytes
  <2>4. /\ Append(bytes(ids), x) \in Seq(Seq(Byte)) /\ Len(Append(bytes(ids), x)) = Len(ids) + 1
        /\ \A i \in 1 .. Len(ids) : Append(bytes(ids), x)[i] = bytes(ids)[i]
        /\ Append(bytes(ids), x)[Len(ids) + 1] = x
    BY <1>3, <2>1, AppendProperties
  <2>5. \A i \in 1 .. Len(ids) + 1 : bytes(a)[i] = Append(bytes(ids), x)[i] BY <1>2, <2>3, <2>4
  <2>6. bytes(a) = Append(bytes(ids), x) BY <2>2, <2>4, <2>5, SeqEqual
  <2> QED BY <2>6 DEF x
<1>6. bytes(<< >>) = << >> OBVIOUS
<1>7. \A s : Decode(tokens, s) = FlattenSeq(bytes(s)) BY DEF Decode
<1>8. tokens[id].bytes \in Seq(Byte) BY <1>1
<1> HIDE DEF bytes
<1>9. /\ FlattenSeq(bytes(ids)) \in Seq(Byte)
      /\ FlattenSeq(Append(bytes(ids), tokens[id].bytes)) = FlattenSeq(bytes(ids)) \o tokens[id].bytes
      /\ FlattenSeq(<< >>) = << >>
  BY <1>3, <1>8, FlattenAppend
<1> QED BY <1>5, <1>6, <1>7, <1>9 DEF a

\* The tokens that the nodes of a word come to, up to position i.
Part(w, i) == IF <<w, i>> \in DOMAIN nodes THEN << nodes[<<w, i>>].sym >> ELSE << >>
Parts(w, i) == [j \in 1 .. i |-> Part(w, j)]

\* A position more adds its token, if it is a node.
LEMMA PartsStep ==
  ASSUME Words, Vocabulary, Chained, NEW w \in DOMAIN wordMap, NEW i \in Nat
  PROVE  /\ FlattenSeq(Parts(w, 0)) = << >>
         /\ FlattenSeq(Parts(w, i)) \in Seq(Ids)
         /\ <<w, i + 1>> \notin DOMAIN nodes => FlattenSeq(Parts(w, i + 1)) = FlattenSeq(Parts(w, i))
         /\ <<w, i + 1>> \in DOMAIN nodes =>
              FlattenSeq(Parts(w, i + 1)) = Append(FlattenSeq(Parts(w, i)), nodes[<<w, i + 1>>].sym)
<1>1. ASSUME NEW n \in DOMAIN nodes PROVE nodes[n].sym \in Ids BY NodeParts DEF Node
<1>2. \A j : Part(w, j) \in Seq(Ids) BY <1>1 DEF Part
<1>3. Parts(w, i) \in Seq(Seq(Ids)) /\ Len(Parts(w, i)) = i
  <2>1. Parts(w, i) \in [1 .. i -> Seq(Ids)] BY <1>2 DEF Parts
  <2> QED BY <2>1, SeqDef
<1>4. Parts(w, i + 1) = Append(Parts(w, i), Part(w, i + 1))
  <2> DEFINE x == Part(w, i + 1)
             t == Parts(w, i)
             u == Parts(w, i + 1)
  <2>1. x \in Seq(Ids) BY <1>2
  <2>2. u \in Seq(Seq(Ids)) /\ Len(u) = i + 1
    <3>1. u \in [1 .. i + 1 -> Seq(Ids)] BY <1>2 DEF Parts
    <3> QED BY <3>1, SeqDef
  <2>3. \A j \in 1 .. i + 1 : u[j] = IF j = i + 1 THEN x ELSE t[j] BY DEF Parts
  <2> HIDE DEF x, t, u
  <2>4. /\ Append(t, x) \in Seq(Seq(Ids)) /\ Len(Append(t, x)) = i + 1
        /\ \A j \in 1 .. i : Append(t, x)[j] = t[j]
        /\ Append(t, x)[i + 1] = x
    BY <1>3, <2>1, AppendProperties DEF t
  <2>5. \A j \in 1 .. i + 1 : u[j] = Append(t, x)[j] BY <2>3, <2>4
  <2>6. u = Append(t, x) BY <2>2, <2>4, <2>5, SeqEqual
  <2> QED BY <2>6 DEF x, t, u
<1>5. Part(w, i + 1) \in Seq(Ids) BY <1>2
<1>6. /\ FlattenSeq(Parts(w, i)) \in Seq(Ids)
      /\ FlattenSeq(Parts(w, i + 1)) = FlattenSeq(Parts(w, i)) \o Part(w, i + 1)
      /\ FlattenSeq(<< >>) = << >>
  BY <1>3, <1>4, <1>5, FlattenAppend
<1>7. Parts(w, 0) = << >> BY DEF Parts
<1>8. ASSUME <<w, i + 1>> \notin DOMAIN nodes
      PROVE  FlattenSeq(Parts(w, i + 1)) = FlattenSeq(Parts(w, i))
  <2>1. Part(w, i + 1) = << >> BY <1>8 DEF Part
  <2> QED BY <1>6, <2>1, ConcatEmptySeq
<1>9. ASSUME <<w, i + 1>> \in DOMAIN nodes
      PROVE  FlattenSeq(Parts(w, i + 1)) = Append(FlattenSeq(Parts(w, i)), nodes[<<w, i + 1>>].sym)
  <2>1. Part(w, i + 1) = << nodes[<<w, i + 1>>].sym >> BY <1>9 DEF Part
  <2>2. nodes[<<w, i + 1>>].sym \in Ids BY <1>1, <1>9
  <2> QED BY <1>6, <2>1, <2>2, AppendIsConcat
<1> QED BY <1>6, <1>7, <1>8, <1>9

There(w, k) == <<w, k>> \in DOMAIN nodes

\* A word's nodes, read from the left, spell it up to where the last one ends.
SpelledTo(w, i, e) ==
  /\ Decode(tokens, FlattenSeq(Parts(w, i))) = SubSeq(w, 1, e)
  /\ e = Len(w) \/ There(w, e + 1)
  /\ \A k \in i + 1 .. e : ~ There(w, k)

\* So the tokens of a word decode to the word.
LEMMA WordSpelled ==
  ASSUME Words, Vocabulary, Chained, NEW w \in DOMAIN wordMap
  PROVE  Decode(tokens, Segmentation(w)) = w
<1>1. w \in Seq(Byte) /\ Len(w) \in Nat \ {0} /\ DOMAIN w = 1 .. Len(w) BY WordParts DEF Words
<1>2. Segmentation(w) = FlattenSeq(Parts(w, Len(w))) BY <1>1 DEF Segmentation, Parts, Part
<1> DEFINE bad == {i \in 0 .. Len(w) : ~ \E e \in i .. Len(w) : SpelledTo(w, i, e)}
<1>3. ASSUME bad # {} PROVE FALSE
  <2>1. PICK m \in bad : \A j \in bad : m <= j
    <3>1. bad \subseteq Nat BY <1>1
    <3> QED BY <1>3, <3>1, LeastElement
  <2>0. /\ m \in 0 .. Len(w) /\ ~ \E e \in m .. Len(w) : SpelledTo(w, m, e)
        /\ m # 0 => \E e \in m - 1 .. Len(w) : SpelledTo(w, m - 1, e)
    <3>1. m # 0 => m - 1 \in 0 .. Len(w) /\ m - 1 \notin bad BY <1>1, <2>1
    <3> QED BY <2>1, <3>1
  <2> HIDE DEF bad
  <2>2. CASE m = 0
    <3>1. FlattenSeq(Parts(w, 0)) = << >> BY PartsStep
    <3>2. <<w, 1>> \in DOMAIN nodes /\ There(w, 1) BY DEF Chained, There
    <3>3. nodes[<<w, 1>>].sym \in Ids BY <3>2, NodeParts DEF Node
    <3>4. Decode(tokens, << >>) = << >>
      <4>1. << >> \in Seq(Ids) BY EmptySeq
      <4> QED BY <3>3, <4>1, DecodeAppend
    <3>5. SubSeq(w, 1, 0) = << >> BY SubSeqEmpty
    <3>6. 0 + 1 = 1 /\ 0 + 1 .. 0 = {} OBVIOUS
    <3>7. SpelledTo(w, 0, 0) BY <3>1, <3>2, <3>4, <3>5, <3>6 DEF SpelledTo
    <3> QED BY <1>1, <2>0, <2>2, <3>7
  <2>3. CASE m # 0
    <3> DEFINE i == m - 1
               F == FlattenSeq(Parts(w, i))
    <3>0. i # Len(w) BY <1>1, <2>0, <2>3
    <3>1. i \in Nat /\ i \in 0 .. Len(w) /\ i < Len(w) /\ i + 1 = m BY <1>1, <2>0, <2>3
    <3>2. PICK e \in i .. Len(w) : SpelledTo(w, i, e) BY <2>0, <2>3
    <3> HIDE DEF i, F
    <3>3. CASE e > i
      <4>0. ~ There(w, i + 1)
        <5>1. \A k \in i + 1 .. e : ~ There(w, k) BY <3>2, Zenon DEF SpelledTo
        <5>2. i + 1 \in i + 1 .. e BY <1>1, <3>1, <3>3
        <5> QED BY <5>1, <5>2, Zenon
      <4>1. <<w, i + 1>> \notin DOMAIN nodes BY <4>0 DEF There
      <4>2. FlattenSeq(Parts(w, i + 1)) = FlattenSeq(Parts(w, i)) BY <3>1, <4>1, PartsStep
      <4>3. SpelledTo(w, m, e) BY <3>1, <3>2, <4>2 DEF SpelledTo
      <4> QED BY <1>1, <2>0, <3>1, <3>2, <3>3, <4>3
    <3>4. CASE e = i
      <4> DEFINE n == <<w, i + 1>>
                 s == nodes[n].sym
      <4>0. There(w, i + 1)
        <5>1. e = Len(w) \/ There(w, e + 1) BY <3>2, Zenon DEF SpelledTo
        <5>2. i # Len(w) BY <3>0, Zenon
        <5> QED BY <3>4, <5>1, <5>2, Zenon
      <4>1. n \in DOMAIN nodes BY <4>0 DEF There
      <4>2. n[1] = w /\ n[2] = i + 1 OBVIOUS
      <4> HIDE DEF n
      <4>3. /\ s \in Ids /\ End(n) \in Nat /\ End(n) > i + 1 /\ End(n) <= Len(w) + 1
        BY <4>1, <4>2, NodeParts DEF Node
      <4>4. /\ Bytes(n) = SubSeq(w, i + 1, End(n) - 1)
            /\ \A k \in i + 2 .. End(n) - 1 : <<w, k>> \notin DOMAIN nodes
            /\ nodes[n].next = IF End(n) = Len(w) + 1 THEN NoNode ELSE <<w, End(n)>>
        <5>1. Spelled(n) BY <4>1 DEF Chained
        <5>2. (i + 1) + 1 = i + 2 BY <3>1
        <5> QED BY <4>2, <5>1, <5>2 DEF Spelled, WordOf
      <4>5. End(n) - 1 = Len(w) \/ There(w, (End(n) - 1) + 1)
        <5>1. CASE End(n) = Len(w) + 1 BY <1>1, <5>1
        <5>2. CASE End(n) # Len(w) + 1
          <6>1. nodes[n].next = <<w, End(n)>> BY <4>4, <5>2
          <6>2. <<w, End(n)>> # << >> OBVIOUS
          <6>3. nodes[n].next \in DOMAIN nodes BY <4>1, <6>1, <6>2, NextParts DEF NoNode
          <6>4. (End(n) - 1) + 1 = End(n) BY <4>3
          <6> QED BY <6>1, <6>3, <6>4 DEF There
        <5> QED BY <5>1, <5>2
      <4>6. F \in Seq(Ids) BY <3>1, PartsStep DEF F
      <4>7. FlattenSeq(Parts(w, m)) = Append(F, s) BY <3>1, <4>1, PartsStep DEF F, n
      <4>8. Decode(tokens, Append(F, s)) = Decode(tokens, F) \o Bytes(n)
        BY <4>3, <4>6, DecodeAppend DEF Bytes
      <4>9. Decode(tokens, F) = SubSeq(w, 1, i) BY <3>2, <3>4 DEF SpelledTo, F
      <4>10. SubSeq(w, 1, i) \o SubSeq(w, i + 1, End(n) - 1) = SubSeq(w, 1, End(n) - 1)
        <5>1. 1 \in 1 .. Len(w) + 1 /\ i \in 1 - 1 .. Len(w) /\ End(n) - 1 \in i .. Len(w)
          BY <1>1, <3>1, <4>3
        <5> QED BY <1>1, <5>1, ConcatAdjacentSubSeq
      <4>11. Decode(tokens, FlattenSeq(Parts(w, m))) = SubSeq(w, 1, End(n) - 1)
        BY <4>4, <4>7, <4>8, <4>9, <4>10
      <4>12. m + 1 = i + 2 /\ End(n) - 1 \in m .. Len(w) BY <1>1, <3>1, <4>3
      <4>13. \A k \in i + 2 .. End(n) - 1 : ~ There(w, k) BY <4>4 DEF There
      <4>14. SpelledTo(w, m, End(n) - 1) BY <4>13, <4>5, <4>11, <4>12 DEF SpelledTo
      <4> QED BY <2>0, <4>12, <4>14
    <3> QED BY <3>2, <3>3, <3>4, <1>1, <3>1
  <2> QED BY <2>2, <2>3
<1>4. PICK e \in Len(w) .. Len(w) : SpelledTo(w, Len(w), e)
  <2>1. Len(w) \in 0 .. Len(w) /\ bad = {} BY <1>1, <1>3
  <2> QED BY <2>1
<1>5. e = Len(w) BY <1>1
<1>6. Decode(tokens, FlattenSeq(Parts(w, Len(w)))) = SubSeq(w, 1, Len(w))
  BY <1>4, <1>5 DEF SpelledTo
<1> QED BY <1>1, <1>2, <1>6, SubSeqFull


----------------------------------------------------------------------------
(* What the invariant says of what is to be kept.                          *)

\* What the labels say is what the nodes say.
LEMMA PlacesAre ==
  ASSUME Words, Index
  PROVE  /\ Occurring \subseteq DOMAIN pairs
         /\ \A p \in DOMAIN pairs :
              /\ p \in Ids \X Ids /\ p = <<p[1], p[2]>> /\ Places(p) = Where(Labels, p)
              /\ Frequency(p) = pairs[p].count
              /\ pairs[p] \in [count : Nat, occs : Seq(Position)]
              /\ pairs[p].count > 0 <=> p \in Occurring
<1> DEFINE s == [pairs |-> pairs, touched |-> job.touched]
<1>1. Vocabulary /\ Chained /\ TheTable BY DEF Index
<1>2. /\ DOMAIN Labels = Following /\ Following \subseteq Position
      /\ \A n \in Following : /\ nodes[n].next \in DOMAIN nodes
                              /\ Labels[n] = <<nodes[n].sym, nodes[nodes[n].next].sym>>
                              /\ Labels[n] \in Ids \X Ids
  BY <1>1, LabelsAre
<1>3. Typed(wordMap, s, Ids) /\ Tallied(wordMap, s, Labels) BY <1>1 DEF TheTable, Table
<1>4. s.pairs = pairs OBVIOUS
<1> HIDE DEF s
<1>5. DOMAIN pairs \subseteq Ids \X Ids
      /\ \A p \in DOMAIN pairs : pairs[p] \in [count : Nat, occs : Seq(Position)]
  BY <1>3, <1>4 DEF Typed, Position
<1>6. /\ \A n \in Following : Labels[n] \in DOMAIN pairs
      /\ \A p \in DOMAIN pairs : /\ IsFiniteSet(CopiesAt(wordMap, Where(Labels, p)))
                                 /\ pairs[p].count = Cardinality(CopiesAt(wordMap, Where(Labels, p)))
  BY <1>2, <1>3, <1>4 DEF Tallied
<1>7. \A p : p \in Occurring <=> Where(Labels, p) # {}
  BY <1>2 DEF Occurring, Where, Following
<1>8. Occurring \subseteq DOMAIN pairs BY <1>2, <1>6, <1>7 DEF Where
<1>9. ASSUME NEW p \in DOMAIN pairs
      PROVE  /\ p \in Ids \X Ids /\ p = <<p[1], p[2]>> /\ Places(p) = Where(Labels, p)
             /\ Frequency(p) = pairs[p].count
             /\ pairs[p].count > 0 <=> p \in Occurring
  <2>1. p \in Ids \X Ids /\ p = <<p[1], p[2]>> BY <1>5
  <2>2. Places(p) = Where(Labels, p)
    <3>1. ASSUME NEW n \in Following
          PROVE  Labels[n] = p <=> nodes[n].sym = p[1] /\ nodes[nodes[n].next].sym = p[2]
      BY <1>2, <2>1
    <3>2. Following = {n \in DOMAIN nodes : nodes[n].next # NoNode} BY DEF Following
    <3> HIDE DEF Following
    <3> QED BY <1>2, <3>1, <3>2 DEF Places, Where
  <2>3. \A S : Copies(S) = CopiesAt(wordMap, S) BY DEF Copies, CopiesAt, Weight, WordOf
  <2>4. Frequency(p) = pairs[p].count BY <1>6, <2>2, <2>3 DEF Frequency
  <2>5. Where(Labels, p) \in SUBSET PositionIn(wordMap) BY <1>2 DEF Where, Position
  <2>6. Found(wordMap) BY DEF Words
  <2>7. pairs[p].count > 0 <=> Where(Labels, p) # {} BY <1>6, <2>5, <2>6, CopiesPositive
  <2> QED BY <1>7, <2>1, <2>2, <2>4, <2>7
<1> QED BY <1>5, <1>8, <1>9

\* No pair is of tokens that there are not.
LEMMA NoPairIs == ASSUME Vocabulary PROVE <<NoPart, NoPart>> \notin Ids \X Ids
<1>1. Ids = 1 .. Len(tokens) /\ Len(tokens) \in Nat BY LenProperties DEF Vocabulary, Ids
<1>2. NoPart \notin Ids BY <1>1 DEF NoPart
<1> QED BY <1>2

\* Between merges everything is listed, and everything is on the heap.
LEMMA ChoosingParts ==
  ASSUME TrainerInv, phase = "choosing"
  PROVE  /\ Words /\ Index /\ job = NoJob /\ JobPair \notin DOMAIN pairs /\ job.touched = {}
         /\ Listed([pairs |-> pairs, touched |-> {}], Labels, JobPair)
         /\ \A p \in DOMAIN pairs : Where(Labels, p) \subseteq ToSet(pairs[p].occs)
         /\ \A p \in Occurring : [pair |-> p, count |-> pairs[p].count] \in heap
<1>1. Words /\ Index /\ job = NoJob BY DEF TrainerInv
<1>2. JobPair = <<NoPart, NoPart>> /\ job.touched = {} BY <1>1 DEF JobPair, NoJob
<1>3. JobPair \notin DOMAIN pairs BY <1>1, <1>2, PlacesAre, NoPairIs DEF Index
<1>4. Listed([pairs |-> pairs, touched |-> {}], Labels, JobPair)
  BY <1>1, <1>2 DEF Index, TheTable, Table
<1>5. \A p \in DOMAIN pairs : Where(Labels, p) \subseteq ToSet(pairs[p].occs)
  BY <1>3, <1>4 DEF Listed
<1>6. \A p \in Occurring : [pair |-> p, count |-> pairs[p].count] \in heap
  BY <1>1, <1>2, <1>3, PlacesAre DEF Index, OnHeap
<1> QED BY <1>1, <1>2, <1>3, <1>4, <1>5, <1>6

\* The invariant says what is to be shown.
LEMMA InvSound == TrainerInv => IndexSound
<1> SUFFICES ASSUME TrainerInv PROVE IndexSound OBVIOUS
<1>1. ASSUME phase \in {"choosing", "merging"}
      PROVE  /\ Occurring \subseteq DOMAIN pairs
             /\ \A p \in DOMAIN pairs :
                  /\ pairs[p].count = Frequency(p)
                  /\ Places(p) \subseteq ToSet(IF p = <<job.left, job.right>> THEN job.rest
                                               ELSE pairs[p].occs)
             /\ \A w \in DOMAIN wordMap : Decode(tokens, Segmentation(w)) = w
  <2>1. Words /\ Index BY <1>1 DEF TrainerInv
  <2>2. \A w \in DOMAIN wordMap : Decode(tokens, Segmentation(w)) = w
    BY <2>1, WordSpelled DEF Index
  <2>3. ASSUME NEW p \in DOMAIN pairs
        PROVE  Where(Labels, p) \subseteq ToSet(IF p = JobPair THEN job.rest ELSE pairs[p].occs)
    <3>1. CASE p = JobPair
      <4>1. phase = "merging" BY <1>1, <3>1, ChoosingParts
      <4> QED BY <3>1, <4>1 DEF TrainerInv, Merging
    <3>2. CASE p # JobPair
      <4>1. Listed([pairs |-> pairs, touched |-> job.touched], Labels, JobPair)
        BY <2>1 DEF Index, TheTable, Table
      <4> QED BY <3>2, <4>1 DEF Listed
    <3> QED BY <3>1, <3>2
  <2> QED BY <2>1, <2>2, <2>3, PlacesAre DEF JobPair
<1>2. ASSUME phase = "choosing"
      PROVE  \A p \in Occurring : [pair |-> p, count |-> Frequency(p)] \in heap
  BY <1>2, ChoosingParts, PlacesAre
<1> QED BY <1>1, <1>2 DEF IndexSound

----------------------------------------------------------------------------
(* The steps that keep the nodes.                                          *)

\* What depends on the words, the tokens and the nodes stays with them.
LEMMA SameNodes ==
  ASSUME UNCHANGED <<wordMap, tokens, nodes>>
  PROVE  /\ Vocabulary' <=> Vocabulary
         /\ Chained' <=> Chained
         /\ Labels' = Labels /\ Ids' = Ids /\ Position' = Position
<1>1. Ids' = Ids /\ Position' = Position BY DEF Ids, Position
<1>2. Vocabulary' <=> Vocabulary BY <1>1 DEF Vocabulary
<1>3. Labels' = Labels BY DEF Labels, Following
<1>4. \A n : Bytes(n)' = Bytes(n) BY DEF Bytes
<1>5. \A n : End(n)' = End(n) BY <1>4 DEF End
<1>6. \A n : Spelled(n)' <=> Spelled(n) BY <1>1, <1>4, <1>5 DEF Spelled, Node
<1>7. \A n : Doubly(n)' <=> Doubly(n) BY DEF Doubly
<1>8. Chained' <=> Chained BY <1>1, <1>6, <1>7 DEF Chained
<1> QED BY <1>1, <1>2, <1>3, <1>8

\* At first no piece was found.
LEMMA InitInv == Init => TrainerInv
<1> SUFFICES ASSUME Init PROVE TrainerInv OBVIOUS
<1>1. DOMAIN wordMap = {} /\ wordMap = [x \in {} |-> 0] BY DEF Init, Empty
<1>2. IsFiniteSet(DOMAIN wordMap) BY <1>1, FS_EmptySet
<1>3. Words BY <1>1, <1>2 DEF Init, Words, Found
<1> QED BY <1>3 DEF Init, TrainerInv

\* A piece more is a piece that is not empty.
LEMMA AddPieceInv == ASSUME TrainerInv, NEW w \in Pieces, AddPiece(w) PROVE TrainerInv'
<1>1. Words /\ phase = "adding" /\ phase' = "adding" /\ job' = NoJob
  BY DEF TrainerInv, AddPiece
<1>2. wordMap' = [v \in DOMAIN wordMap \cup {w} |->
                   (IF v \in DOMAIN wordMap THEN wordMap[v] ELSE 0) + (IF v = w THEN 1 ELSE 0)]
  BY DEF AddPiece
<1>3. DOMAIN wordMap' = DOMAIN wordMap \cup {w} BY <1>2
<1>4. IsFiniteSet(DOMAIN wordMap') BY <1>1, <1>3, FS_AddElement DEF Words
<1>5. DOMAIN wordMap' \subseteq Pieces /\ Pieces \subseteq Seq(Byte) \ {<< >>}
  BY <1>1, <1>3 DEF Words
<1>6. \A v \in DOMAIN wordMap : wordMap[v] \in Nat \ {0} BY <1>1 DEF Words, Found
<1>7. wordMap' \in [DOMAIN wordMap' -> Nat \ {0}] BY <1>2, <1>3, <1>6
<1>8. Words' BY <1>1, <1>4, <1>5, <1>7 DEF Words, Found
<1> QED BY <1>1, <1>8 DEF TrainerInv

\* A stale item is none that a pair needs.
LEMMA PopStaleInv == ASSUME TrainerInv, PopStale PROVE TrainerInv'
<1>1. /\ phase = "choosing" /\ phase' = phase
      /\ UNCHANGED <<wordMap, tokens, nodes>> /\ pairs' = pairs /\ job' = job
  BY DEF PopStale
<1>2. Words /\ Index /\ job = NoJob BY <1>1 DEF TrainerInv
<1>3. PICK x \in Top : ~ Current(x) /\ heap' = heap \ {x} BY DEF PopStale
<1>4. \A p : [pair |-> p, count |-> pairs[p].count] # x BY <1>3 DEF Current
<1>5. Vocabulary' /\ Chained' BY <1>1, <1>2, SameNodes DEF Index
<1>6. JobPair' = JobPair BY <1>1 DEF JobPair
<1>7. TheTable' BY <1>1, <1>2, <1>6, SameNodes DEF Index, TheTable
<1>8. OnHeap' BY <1>1, <1>2, <1>3, <1>4, <1>6 DEF Index, OnHeap
<1>9. Words' BY <1>1, <1>2 DEF Words
<1> QED BY <1>1, <1>2, <1>5, <1>7, <1>8, <1>9 DEF TrainerInv, Index

\* Training ends with the vocabulary it has.
LEMMA StopInv == ASSUME TrainerInv, Stop PROVE TrainerInv'
<1>1. /\ phase = "choosing" /\ phase' = "trained" /\ UNCHANGED <<wordMap, tokens, nodes>>
  BY DEF Stop
<1>2. Words /\ Vocabulary BY <1>1 DEF TrainerInv, Index
<1>3. Words' /\ Vocabulary' BY <1>1, <1>2, SameNodes DEF Words
<1> QED BY <1>1, <1>3 DEF TrainerInv

\* Failing leaves nothing but the words.
LEMMA FailInv == ASSUME TrainerInv, Fail PROVE TrainerInv'
<1>1. phase' = "failed" /\ wordMap' = wordMap BY DEF Fail
<1>2. Words' BY <1>1 DEF TrainerInv, Words
<1> QED BY <1>1, <1>2 DEF TrainerInv

\* Nothing happens.
LEMMA StutterInv == ASSUME TrainerInv, UNCHANGED vars PROVE TrainerInv'
<1>1. UNCHANGED <<wordMap, tokens, nodes>> /\ phase' = phase /\ pairs' = pairs /\ heap' = heap
        /\ job' = job
  BY DEF vars
<1>2. JobPair' = JobPair BY <1>1 DEF JobPair
<1>3. Words' BY <1>1 DEF TrainerInv, Words
<1>4. TheTable => TheTable' BY <1>1, <1>2, SameNodes DEF TheTable
<1>5. OnHeap => OnHeap' BY <1>1, <1>2 DEF OnHeap
<1>6. Merging => Merging' BY <1>1, <1>2, SameNodes DEF Merging
<1> QED BY <1>1, <1>3, <1>4, <1>5, <1>6, SameNodes DEF TrainerInv, Index

\* What is left of a sequence is all of it but its head.
LEMMA TailSet ==
  ASSUME NEW S, NEW s \in Seq(S), s # << >>
  PROVE  /\ ToSet(s) \subseteq {Head(s)} \cup ToSet(Tail(s))
         /\ Head(s) \in S /\ Tail(s) \in Seq(S)
<1>1. /\ Len(s) \in Nat \ {0} /\ DOMAIN s = 1 .. Len(s) /\ Head(s) = s[1] /\ Head(s) \in S
      /\ Tail(s) \in Seq(S) /\ Len(Tail(s)) = Len(s) - 1
      /\ \A i \in 1 .. Len(Tail(s)) : Tail(s)[i] = s[i + 1]
  BY HeadTailProperties, EmptySeq, LenProperties
<1>2. DOMAIN Tail(s) = 1 .. Len(Tail(s)) BY <1>1, LenProperties
<1>3. ASSUME NEW k \in DOMAIN s PROVE s[k] \in {Head(s)} \cup ToSet(Tail(s))
  <2>1. CASE k = 1 BY <1>1, <2>1
  <2>2. CASE k # 1
    <3>1. k - 1 \in 1 .. Len(Tail(s)) /\ (k - 1) + 1 = k BY <1>1, <2>2
    <3>2. Tail(s)[k - 1] = s[k] BY <1>1, <3>1
    <3>3. k - 1 \in DOMAIN Tail(s) BY <1>2, <3>1
    <3> QED BY <3>2, <3>3, Zenon DEF ToSet
  <2> QED BY <2>1, <2>2
<1> QED BY <1>1, <1>3 DEF ToSet

\* An occurrence that is skipped is no place of the pair.
LEMMA SkipInv == ASSUME TrainerInv, Skip PROVE TrainerInv'
<1> DEFINE n == Head(job.rest)
<1>1. /\ phase = "merging" /\ phase' = "merging" /\ UNCHANGED <<wordMap, tokens, nodes>>
      /\ pairs' = pairs /\ heap' = heap /\ job' = [job EXCEPT !.rest = Tail(@)]
      /\ job.rest # << >> /\ ~ OccurrenceValid(n)
  BY DEF Skip
<1>2. Words /\ Index /\ Merging BY <1>1 DEF TrainerInv
<1>3. /\ job'.left = job.left /\ job'.right = job.right /\ job'.merged = job.merged
      /\ job'.touched = job.touched /\ job'.rest = Tail(job.rest)
      /\ job.rest \in Seq(Position)
      /\ job' \in [left : Ids, right : Ids, merged : Ids, rest : Seq(Position),
                   touched : SUBSET DOMAIN pairs]
  <2>1. job \in [left : Ids, right : Ids, merged : Ids, rest : Seq(Position),
                 touched : SUBSET DOMAIN pairs]
    BY <1>2 DEF Merging
  <2>2. Tail(job.rest) \in Seq(Position) BY <1>1, <2>1, TailSet
  <2> QED BY <1>1, <2>1, <2>2
<1>4. JobPair' = JobPair BY <1>3 DEF JobPair
<1>5. Words' BY <1>1, <1>2 DEF Words
<1>6. TheTable' BY <1>1, <1>2, <1>3, <1>4, SameNodes DEF Index, TheTable
<1>7. OnHeap' BY <1>1, <1>2, <1>3, <1>4 DEF Index, OnHeap
<1>8. n \notin Where(Labels, JobPair)
  <2>1. DOMAIN Labels = Following
        /\ \A m \in Following : Labels[m] = <<nodes[m].sym, nodes[nodes[m].next].sym>>
    BY <1>2, LabelsAre DEF Index
  <2> QED BY <1>1, <2>1 DEF Where, JobPair, OccurrenceValid, Following
<1>9. ToSet(job.rest) \subseteq {n} \cup ToSet(Tail(job.rest)) BY <1>1, <1>3, TailSet
<1>10. Where(Labels, JobPair) \subseteq ToSet(job'.rest) BY <1>2, <1>3, <1>8, <1>9 DEF Merging
<1> HIDE DEF n
<1>11. Merging'
  <2>1. MergedBytes(tokens, job.left, job.right)' = MergedBytes(tokens, job.left, job.right)
    BY <1>1, <1>3 DEF MergedBytes
  <2> QED BY <1>1, <1>2, <1>3, <1>4, <1>10, <2>1, SameNodes DEF Merging
<1> QED BY <1>1, <1>2, <1>5, <1>6, <1>7, <1>11, SameNodes DEF TrainerInv, Index

----------------------------------------------------------------------------
(* Choosing a pair, which may give a token.                                *)

\* A table stays one when there are more tokens.
LEMMA MoreIds ==
  ASSUME NEW words, NEW s, NEW labels, NEW but, NEW ids, NEW more, ids \subseteq more,
         Table(words, s, labels, but, ids)
  PROVE  Table(words, s, labels, but, more)
BY DEF Table, Typed

\* A merged token keeps the vocabulary one.
LEMMA MoreTokens ==
  ASSUME Vocabulary, NEW left \in Ids, NEW right \in Ids,
         tokens' = Append(tokens, [bytes |-> MergedBytes(tokens, left, right),
                                   left |-> left, right |-> right])
  PROVE  /\ Vocabulary' /\ Ids \subseteq Ids' /\ Len(tokens) + 1 \in Ids'
         /\ \A id \in Ids : tokens'[id] = tokens[id]
         /\ tokens'[Len(tokens) + 1].bytes = MergedBytes(tokens', left, right)
         /\ Len(tokens') = Len(tokens) + 1 /\ Ids' = Ids \cup {Len(tokens) + 1}
         /\ Len(tokens) + 1 \notin Ids
         /\ tokens'[Len(tokens) + 1].left = left /\ tokens'[Len(tokens) + 1].right = right
<1> DEFINE L == Len(tokens)
           t == [bytes |-> MergedBytes(tokens, left, right), left |-> left, right |-> right]
<1>1. tokens \in Seq(Token) /\ L \in Nat /\ Ids = 1 .. L BY LenProperties DEF Vocabulary, Ids
<1>2. t \in Token
  <2> DEFINE a == tokens[left].bytes
             b == tokens[right].bytes
  <2>1. a \in Seq(Byte) /\ b \in Seq(Byte) /\ Len(a) \in Nat \ {0} /\ Len(b) \in Nat \ {0}
    BY BytesAre
  <2>2. MergedBytes(tokens, left, right) = a \o b BY DEF MergedBytes
  <2> HIDE DEF a, b
  <2>3. a \o b \in Seq(Byte) /\ Len(a \o b) = Len(a) + Len(b) BY <2>1, ConcatProperties
  <2>4. a \o b # << >> BY <2>1, <2>3, EmptySeq
  <2>5. left \in Nat /\ right \in Nat BY <1>1
  <2> QED BY <2>2, <2>3, <2>4, <2>5 DEF Token
<1>3. t.bytes = MergedBytes(tokens, left, right) /\ t.left = left /\ t.right = right OBVIOUS
<1>4. tokens' = Append(tokens, t) OBVIOUS
<1> HIDE DEF t
<1>5. /\ tokens' \in Seq(Token) /\ Len(tokens') = L + 1
      /\ \A id \in 1 .. L : tokens'[id] = tokens[id]
      /\ tokens'[L + 1] = t
  BY <1>1, <1>2, <1>4, AppendProperties
<1>6. Ids' = 1 .. L + 1 BY <1>5, LenProperties DEF Ids
<1>7. \A id \in Ids : tokens'[id] = tokens[id] BY <1>1, <1>5
<1>8. Ids \subseteq Ids' /\ L + 1 \in Ids' /\ Ids' = Ids \cup {L + 1} /\ L + 1 \notin Ids
  BY <1>1, <1>6
<1> HIDE DEF L
<1>9. \A l, r \in Ids : MergedBytes(tokens', l, r) = MergedBytes(tokens, l, r)
  BY <1>7 DEF MergedBytes
<1>10. Byte \subseteq Ids /\ \A id \in Byte : tokens[id] = ByteTokens[id] BY DEF Vocabulary
<1>11. Byte \subseteq Ids' /\ \A id \in Byte : tokens'[id] = ByteTokens[id] BY <1>7, <1>8, <1>10
<1>12. ASSUME NEW id \in Ids' \ Byte
       PROVE  /\ tokens'[id].left \in Ids' /\ tokens'[id].right \in Ids'
              /\ tokens'[id].bytes = MergedBytes(tokens', tokens'[id].left, tokens'[id].right)
  <2>1. CASE id \in Ids
    <3>1. /\ tokens[id].left \in Ids /\ tokens[id].right \in Ids
          /\ tokens[id].bytes = MergedBytes(tokens, tokens[id].left, tokens[id].right)
      BY <2>1 DEF Vocabulary
    <3>2. tokens'[id] = tokens[id] BY <1>7, <2>1
    <3>3. MergedBytes(tokens', tokens[id].left, tokens[id].right)
            = MergedBytes(tokens, tokens[id].left, tokens[id].right)
      BY <1>9, <3>1, Zenon
    <3> QED BY <1>8, <3>1, <3>2, <3>3
  <2>2. CASE id = L + 1 BY <1>3, <1>5, <1>8, <1>9, <2>2
  <2> QED BY <1>8, <2>1, <2>2
<1>13. Vocabulary' BY <1>5, <1>11, <1>12 DEF Vocabulary
<1> QED BY <1>3, <1>5, <1>7, <1>8, <1>9, <1>13 DEF L

\* More tokens do not disturb the nodes.
LEMMA OldNodes ==
  ASSUME Words, Vocabulary, Chained, UNCHANGED <<wordMap, nodes>>,
         Ids \subseteq Ids', \A id \in Ids : tokens'[id] = tokens[id]
  PROVE  Chained' /\ Labels' = Labels /\ Position' = Position
<1>1. Position' = Position BY DEF Position
<1>2. Labels' = Labels BY DEF Labels, Following
<1>3. ASSUME NEW n \in DOMAIN nodes PROVE Spelled(n)' /\ Doubly(n)'
  <2>1. Spelled(n) /\ Doubly(n) /\ nodes[n] \in Node /\ nodes[n].sym \in Ids
    BY NodeParts DEF Chained, Node
  <2>2. Bytes(n)' = Bytes(n) BY <2>1 DEF Bytes
  <2>3. End(n)' = End(n) BY <2>2 DEF End
  <2>4. nodes[n] \in Node' BY <1>1, <2>1 DEF Node
  <2>5. Spelled(n)' BY <2>1, <2>2, <2>3, <2>4 DEF Spelled
  <2>6. Doubly(n)' BY <2>1 DEF Doubly
  <2> QED BY <2>5, <2>6
<1>4. Chained' BY <1>1, <1>3 DEF Chained
<1> QED BY <1>1, <1>2, <1>4

\* The pair chosen leaves the heap, and its list is what is to be visited.
LEMMA ChooseInv == ASSUME TrainerInv, Choose PROVE TrainerInv'
<1>1. phase = "choosing" /\ phase' = "merging" /\ UNCHANGED <<wordMap, nodes>> /\ pairs' = pairs
  BY DEF Choose
<1>2. /\ Words /\ Index /\ JobPair \notin DOMAIN pairs
      /\ job.touched = {}
      /\ \A p \in DOMAIN pairs : Where(Labels, p) \subseteq ToSet(pairs[p].occs)
  BY <1>1, ChoosingParts
<1>3. Vocabulary /\ Chained /\ TheTable /\ OnHeap BY <1>2 DEF Index
<1>4. PICK x \in Top :
         LET bytes == MergedBytes(tokens, x.pair[1], x.pair[2])
             known == WithBytes(tokens, bytes)
         IN  /\ heap' = heap \ {x}
             /\ tokens' = IF known # {} THEN tokens
                          ELSE Append(tokens, [bytes |-> bytes, left |-> x.pair[1], right |-> x.pair[2]])
             /\ job' = [left |-> x.pair[1], right |-> x.pair[2],
                        merged |-> IF known # {} THEN CHOOSE id \in known : TRUE ELSE Len(tokens) + 1,
                        rest |-> pairs[x.pair].occs, touched |-> {}]
  BY DEF Choose
<1> DEFINE p == x.pair
           bytes == MergedBytes(tokens, p[1], p[2])
           known == WithBytes(tokens, bytes)
           m == IF known # {} THEN CHOOSE id \in known : TRUE ELSE Len(tokens) + 1
<1>5. x \in heap /\ p \in DOMAIN pairs BY <1>3 DEF Top, OnHeap
<1>6. p = <<p[1], p[2]>> /\ p[1] \in Ids /\ p[2] \in Ids /\ pairs[p].occs \in Seq(Position)
  <2>1. p \in Ids \X Ids /\ p = <<p[1], p[2]>> /\ pairs[p] \in [count : Nat, occs : Seq(Position)]
    BY <1>2, <1>5, PlacesAre
  <2> QED BY <2>1
<1>7. /\ job'.left = p[1] /\ job'.right = p[2] /\ job'.merged = m
      /\ job'.rest = pairs[p].occs /\ job'.touched = {} /\ JobPair' = p
      /\ job' = [left |-> p[1], right |-> p[2], merged |-> m, rest |-> pairs[p].occs, touched |-> {}]
  BY <1>4, <1>6 DEF JobPair
<1>8. heap' = heap \ {x} BY <1>4
<1>9. tokens' = IF known # {} THEN tokens
                ELSE Append(tokens, [bytes |-> bytes, left |-> p[1], right |-> p[2]])
  BY <1>4
<1>10. /\ Vocabulary' /\ Ids \subseteq Ids' /\ m \in Ids'
       /\ \A id \in Ids : tokens'[id] = tokens[id]
       /\ tokens'[m].bytes = MergedBytes(tokens', p[1], p[2])
  <2>1. CASE known # {}
    <3>1. tokens' = tokens BY <1>9, <2>1
    <3>2. m \in known BY <2>1
    <3>3. m \in Ids /\ tokens[m].bytes = bytes BY <3>2 DEF WithBytes, Ids
    <3>4. Ids' = Ids BY <3>1 DEF Ids
    <3>5. Vocabulary' BY <1>3, <3>1, <3>4 DEF Vocabulary
    <3>6. MergedBytes(tokens', p[1], p[2]) = MergedBytes(tokens, p[1], p[2]) BY <3>1
    <3> HIDE DEF m
    <3> QED BY <3>1, <3>3, <3>4, <3>5, <3>6
  <2>2. CASE known = {}
    <3>1. m = Len(tokens) + 1 BY <2>2
    <3>2. tokens' = Append(tokens, [bytes |-> bytes, left |-> p[1], right |-> p[2]]) BY <1>9, <2>2
    <3> HIDE DEF m
    <3> QED BY <1>3, <1>6, <3>1, <3>2, MoreTokens
  <2> QED BY <2>1, <2>2
<1> HIDE DEF p, m, bytes, known
<1>11. Chained' /\ Labels' = Labels /\ Position' = Position BY <1>1, <1>2, <1>3, <1>10, OldNodes
<1>12. TheTable'
  <2> DEFINE s == [pairs |-> pairs, touched |-> {}]
  <2>1. Table(wordMap, s, Labels, JobPair, Ids) BY <1>2, <1>3 DEF TheTable
  <2>2. Table(wordMap, s, Labels, JobPair, Ids') BY <1>10, <2>1, MoreIds
  <2>3. Listed(s, Labels, p) BY <1>2 DEF Listed
  <2>4. Table(wordMap, s, Labels, p, Ids') BY <2>2, <2>3 DEF Table
  <2>5. s = [pairs |-> pairs', touched |-> job'.touched] /\ wordMap' = wordMap BY <1>1, <1>7
  <2> HIDE DEF s
  <2> QED BY <1>7, <1>11, <2>4, <2>5 DEF TheTable
<1>13. OnHeap'
  <2>1. heap' \subseteq [pair : DOMAIN pairs, count : Nat \ {0}] BY <1>3, <1>8 DEF OnHeap
  <2>2. ASSUME NEW q \in DOMAIN pairs \ {p}, pairs[q].count > 0
        PROVE  [pair |-> q, count |-> pairs[q].count] \in heap'
    <3>1. [pair |-> q, count |-> pairs[q].count] \in heap BY <1>2, <1>3, <2>2 DEF OnHeap
    <3>2. [pair |-> q, count |-> pairs[q].count] # x BY DEF p
    <3> QED BY <1>8, <3>1, <3>2
  <2> QED BY <1>1, <1>7, <2>1, <2>2 DEF OnHeap
<1>14. Merging'
  <2>1. JobPair' \in DOMAIN pairs' BY <1>1, <1>5, <1>7
  <2>2. job' \in [left : Ids', right : Ids', merged : Ids', rest : Seq(Position'),
                  touched : SUBSET DOMAIN pairs']
    BY <1>6, <1>7, <1>10, <1>11
  <2>3. Where(Labels', JobPair') \subseteq ToSet(job'.rest) BY <1>2, <1>5, <1>7, <1>11
  <2>4. tokens'[job'.merged].bytes = MergedBytes(tokens', job'.left, job'.right) BY <1>7, <1>10
  <2> QED BY <1>7, <1>10, <2>1, <2>2, <2>3, <2>4 DEF Merging
<1>15. Words' BY <1>1, <1>2 DEF Words
<1> QED BY <1>1, <1>10, <1>11, <1>12, <1>13, <1>14, <1>15 DEF TrainerInv, Index

----------------------------------------------------------------------------
(* Merging.                                                                *)

\* A table is its pairs and what was touched.
LEMMA TableIs ==
  ASSUME NEW words, NEW s, NEW labels, NEW but, NEW ids, Table(words, s, labels, but, ids)
  PROVE  Table(words, [pairs |-> s.pairs, touched |-> s.touched], labels, but, ids)
BY DEF Table, Typed, Tallied, Listed

\* A merge takes the labels away that it uncounts, and gives those it counts.
LEMMA JoinInv == ASSUME TrainerInv, Join PROVE TrainerInv'
<1> DEFINE n == Head(job.rest)
           s == [pairs |-> pairs, touched |-> job.touched]
           t == Uncounted(s, n)
           u == Recounted(t, n)
           L == LabelsLess(n)
           M == LabelsMore(n, L)
<1>1. /\ phase = "merging" /\ phase' = "merging" /\ UNCHANGED <<wordMap, tokens>> /\ heap' = heap
      /\ job.rest # << >> /\ OccurrenceValid(n)
      /\ pairs' = u.pairs /\ nodes' = Joined(n)
      /\ job' = [job EXCEPT !.rest = Tail(@), !.touched = u.touched]
  BY DEF Join
<1>2. Words /\ Index /\ Merging BY <1>1 DEF TrainerInv
<1>3. Vocabulary /\ Chained /\ TheTable /\ OnHeap BY <1>2 DEF Index
<1>4. Joinable(n) /\ job.left = nodes[n].sym /\ job.right = nodes[Gone(n)].sym
  BY <1>1 DEF OccurrenceValid, Joinable, Gone
<1>5. job \in [left : Ids, right : Ids, merged : Ids, rest : Seq(Position),
               touched : SUBSET DOMAIN pairs]
      /\ job.merged \in Ids /\ job.rest \in Seq(Position)
  BY <1>2 DEF Merging
<1>6. s.pairs = pairs /\ s.touched = job.touched /\ Table(wordMap, s, Labels, JobPair, Ids)
  BY <1>3 DEF TheTable
<1> HIDE DEF n, s, t, u, L, M
<1>7. Table(wordMap, t, L, JobPair, Ids) /\ Kept(s, t)
  BY <1>2, <1>3, <1>4, <1>6, UncountedSound DEF t, L
<1>8. n \notin DOMAIN L /\ Before(n) \notin DOMAIN L BY <1>2, <1>3, <1>4, LessIs DEF L
<1>9. Table(wordMap, u, M, JobPair, Ids) /\ Kept(t, u)
  BY <1>2, <1>3, <1>4, <1>5, <1>7, <1>8, RecountedSound DEF u, M
<1>10. Kept(s, u) BY <1>7, <1>9, KeptOn
<1>11. Labels' = M BY <1>1, <1>2, <1>3, <1>4, JoinLabels DEF M, L
<1>12. /\ job'.left = job.left /\ job'.right = job.right /\ job'.merged = job.merged
       /\ job'.touched = u.touched /\ job'.rest = Tail(job.rest)
  BY <1>1, <1>5
<1>13. JobPair' = JobPair /\ Ids' = Ids /\ Position' = Position
  BY <1>1, <1>12 DEF JobPair, Ids, Position
<1>14. TheTable'
  <2>1. Table(wordMap, [pairs |-> u.pairs, touched |-> u.touched], M, JobPair, Ids)
    BY <1>9, TableIs
  <2>2. [pairs |-> pairs', touched |-> job'.touched] = [pairs |-> u.pairs, touched |-> u.touched]
        /\ wordMap' = wordMap
    BY <1>1, <1>12
  <2> QED BY <1>11, <1>13, <2>1, <2>2 DEF TheTable
<1>15. Vocabulary' BY <1>1, <1>3, <1>13 DEF Vocabulary
<1>16. Chained'
  <2>1. tokens[job.merged].bytes = MergedBytes(tokens, nodes[n].sym, nodes[Gone(n)].sym)
    BY <1>2, <1>4 DEF Merging
  <2> QED BY <1>1, <1>2, <1>3, <1>4, <1>5, <2>1, JoinSpells
<1>17. DOMAIN pairs \subseteq DOMAIN pairs' /\ job.touched \subseteq job'.touched
       /\ \A p \in DOMAIN pairs' \ job'.touched : p \in DOMAIN pairs /\ pairs'[p] = pairs[p]
  BY <1>1, <1>6, <1>10, <1>12 DEF Kept
<1>18. OnHeap' BY <1>1, <1>3, <1>13, <1>17 DEF OnHeap
<1>19. Merging'
  <2>1. /\ ToSet(job.rest) \subseteq {n} \cup ToSet(Tail(job.rest))
        /\ Tail(job.rest) \in Seq(Position)
    BY <1>1, <1>5, TailSet DEF n
  <2>2. Where(M, JobPair) \subseteq Where(Labels, JobPair) \ {n}
    BY <1>2, <1>3, <1>4, FewerPlaces DEF M, L
  <2>3. Where(Labels', JobPair') \subseteq ToSet(job'.rest)
    BY <1>2, <1>11, <1>12, <1>13, <2>1, <2>2 DEF Merging
  <2>4. u.touched \subseteq DOMAIN pairs' BY <1>1, <1>9 DEF Table, Typed
  <2>5. job' \in [left : Ids, right : Ids, merged : Ids, rest : Seq(Position),
                  touched : SUBSET DOMAIN pairs']
    BY <1>1, <1>5, <2>1, <2>4
  <2>6. tokens'[job'.merged].bytes = MergedBytes(tokens', job'.left, job'.right)
    BY <1>1, <1>2, <1>12 DEF Merging
  <2>7. JobPair' \in DOMAIN pairs' BY <1>2, <1>13, <1>17 DEF Merging
  <2> QED BY <1>5, <1>12, <1>13, <2>3, <2>5, <2>6, <2>7 DEF Merging
<1>20. Words' BY <1>1, <1>2 DEF Words
<1> QED BY <1>1, <1>14, <1>15, <1>16, <1>18, <1>19, <1>20 DEF TrainerInv, Index

\* A pair merged everywhere occurs nowhere, and what was touched is pushed.
LEMMA EndMergeInv == ASSUME TrainerInv, EndMerge PROVE TrainerInv'
<1> DEFINE p == <<job.left, job.right>>
           s == [pairs |-> pairs, touched |-> job.touched]
           t == [pairs |-> pairs', touched |-> job'.touched]
<1>1. /\ phase = "merging" /\ phase' = "choosing" /\ UNCHANGED <<wordMap, tokens, nodes>>
      /\ job.rest = << >> /\ job' = NoJob
      /\ pairs' = [pairs EXCEPT ![p].occs = << >>, ![p].count = IF job.touched = {} THEN 0 ELSE @]
      /\ heap' = heap \cup Pushed(pairs, job.touched)
  BY DEF EndMerge
<1>2. Words /\ Index /\ Merging BY <1>1 DEF TrainerInv
<1>3. Vocabulary /\ Chained /\ TheTable /\ OnHeap BY <1>2 DEF Index
<1>4. p = JobPair /\ p \in DOMAIN pairs BY <1>2 DEF JobPair, Merging
<1>5. s.pairs = pairs /\ s.touched = job.touched /\ Table(wordMap, s, Labels, p, Ids)
  BY <1>3, <1>4 DEF TheTable
<1>6. Where(Labels, p) = {}
  <2>1. ToSet(job.rest) = {} BY <1>1 DEF ToSet
  <2> QED BY <1>2, <1>4, <2>1 DEF Merging
<1> HIDE DEF p, s
<1>7. \A q \in DOMAIN pairs :
        /\ pairs[q] \in [count : Nat, occs : Seq(Position)]
        /\ IsFiniteSet(CopiesAt(wordMap, Where(Labels, q)))
        /\ pairs[q].count = Cardinality(CopiesAt(wordMap, Where(Labels, q)))
  BY <1>5 DEF Table, Typed, Tallied, Position
<1>8. pairs[p].count = 0
  <2>1. CopiesAt(wordMap, Where(Labels, p)) = {} BY <1>6 DEF CopiesAt
  <2> QED BY <1>4, <1>7, <2>1, FS_EmptySet
<1>9. /\ DOMAIN pairs' = DOMAIN pairs /\ pairs'[p].count = 0
      /\ pairs'[p] \in [count : Nat, occs : Seq(Position)]
      /\ \A q \in DOMAIN pairs \ {p} : pairs'[q] = pairs[q]
  <2>1. /\ DOMAIN pairs' = DOMAIN pairs
        /\ \A q \in DOMAIN pairs \ {p} : pairs'[q] = pairs[q]
    BY <1>1
  <2>2. pairs[p] = [count |-> 0, occs |-> pairs[p].occs] BY <1>4, <1>7, <1>8
  <2>3. pairs'[p] = [count |-> 0, occs |-> << >>]
    <3> DEFINE mid == [pairs EXCEPT ![p].occs = << >>]
    <3>1. pairs' = [mid EXCEPT ![p].count = IF job.touched = {} THEN 0 ELSE @] BY <1>1
    <3>2. DOMAIN mid = DOMAIN pairs /\ mid[p] = [count |-> 0, occs |-> << >>] BY <1>4, <2>2
    <3> HIDE DEF mid
    <3>3. pairs'[p] = [mid[p] EXCEPT !.count = IF job.touched = {} THEN 0 ELSE @]
      BY <1>4, <3>1, <3>2
    <3> QED BY <3>2, <3>3
  <2>4. << >> \in Seq(Position) BY EmptySeq
  <2> QED BY <2>1, <2>3, <2>4
<1>10. job'.touched = {} /\ JobPair' = <<NoPart, NoPart>> BY <1>1 DEF NoJob, JobPair
<1>11. t.pairs = pairs' /\ t.touched = {} BY <1>10
<1> HIDE DEF t
<1>12. Table(wordMap, t, Labels, JobPair', Ids)
  <2>1. Typed(wordMap, t, Ids)
    BY <1>5, <1>7, <1>9, <1>11 DEF Table, Typed, Position
  <2>2. Tallied(wordMap, t, Labels)
    <3>1. DOMAIN Labels \subseteq PositionIn(wordMap)
            /\ \A n \in DOMAIN Labels : Labels[n] \in DOMAIN pairs
      BY <1>5 DEF Table, Tallied
    <3>2. \A q \in DOMAIN pairs : pairs'[q].count = pairs[q].count BY <1>8, <1>9
    <3> QED BY <1>7, <1>9, <1>11, <3>1, <3>2 DEF Tallied
  <2>3. Listed(t, Labels, JobPair')
    <3>1. ASSUME NEW q \in DOMAIN pairs PROVE Where(Labels, q) \subseteq ToSet(pairs'[q].occs)
      <4>1. CASE q = p BY <1>6, <4>1
      <4>2. CASE q # p
        <5>1. Where(Labels, q) \subseteq ToSet(pairs[q].occs)
          BY <1>5, <4>2 DEF Table, Listed
        <5> QED BY <1>9, <4>2, <5>1
      <4> QED BY <4>1, <4>2
    <3> QED BY <1>9, <1>11, <3>1 DEF Listed
  <2> QED BY <2>1, <2>2, <2>3 DEF Table
<1>13. TheTable'
  BY <1>1, <1>12, SameNodes DEF TheTable, t
<1>14. OnHeap'
  <2>1. Pushed(pairs, job.touched)
          = {[pair |-> q, count |-> pairs[q].count] : q \in {r \in job.touched : pairs[r].count > 0}}
    BY DEF Pushed
  <2>2. job.touched \subseteq DOMAIN pairs BY <1>5 DEF Table, Typed
  <2>3. heap \subseteq [pair : DOMAIN pairs, count : Nat \ {0}] BY <1>3 DEF OnHeap
  <2>4. \A q \in DOMAIN pairs : pairs[q].count \in Nat BY <1>7
  <2>5. ASSUME NEW h \in heap' PROVE h \in [pair : DOMAIN pairs', count : Nat \ {0}]
    <3>1. CASE h \in heap BY <1>9, <2>3, <3>1
    <3>2. CASE h \in Pushed(pairs, job.touched)
      <4>1. PICK q \in job.touched : pairs[q].count > 0 /\ h = [pair |-> q, count |-> pairs[q].count]
        BY <2>1, <3>2
      <4>2. q \in DOMAIN pairs /\ pairs[q].count \in Nat \ {0} BY <2>2, <2>4, <4>1
      <4> QED BY <1>9, <4>1, <4>2
    <3> QED BY <1>1, <3>1, <3>2
  <2>6. ASSUME NEW q \in DOMAIN pairs', pairs'[q].count > 0
        PROVE  [pair |-> q, count |-> pairs'[q].count] \in heap'
    <3>1. q # p /\ q \in DOMAIN pairs /\ pairs'[q] = pairs[q] BY <1>9, <2>6
    <3>2. CASE q \in job.touched BY <1>1, <2>1, <2>6, <3>1, <3>2
    <3>3. CASE q \notin job.touched BY <1>1, <1>3, <1>4, <2>6, <3>1, <3>3 DEF OnHeap
    <3> QED BY <3>2, <3>3
  <2> QED BY <2>5, <2>6 DEF OnHeap
<1>15. Words' BY <1>1, <1>2 DEF Words
<1> QED BY <1>1, <1>3, <1>13, <1>14, <1>15, SameNodes DEF TrainerInv, Index

----------------------------------------------------------------------------
(* Counting the words.  Both loops are recursive functions: one that       *)
(* satisfies the equation exists, and every step of it counts a label.     *)

WordStep(s, w, i) == Increment(s, <<w[i], w[i + 1]>>, wordMap[w], <<w, i>>)

WordLoop(f, s, w, m) == f = [i \in 0 .. m |-> IF i = 0 THEN s ELSE WordStep(f[i - 1], w, i)]

Nothing == [pairs |-> Empty, touched |-> {}]

TextLoop(f, order, m) ==
  f = [k \in 0 .. m |-> IF k = 0 THEN Nothing ELSE CountedWord(f[k - 1], order[k])]

\* The equation of the loop over a word has a solution ...
LEMMA WordLoopExists == ASSUME NEW s, NEW w, NEW m \in Nat PROVE \E f : WordLoop(f, s, w, m)
<1> DEFINE bad == {k \in Nat : ~ \E f : WordLoop(f, s, w, k)}
<1>1. SUFFICES ASSUME bad # {} PROVE FALSE OBVIOUS
<1>2. PICK k \in bad : \A j \in bad : k <= j BY <1>1, LeastElement
<1>3. CASE k = 0
  <2> DEFINE f == [i \in 0 .. 0 |-> s]
  <2>1. WordLoop(f, s, w, 0) BY DEF WordLoop
  <2> QED BY <1>2, <1>3, <2>1
<1>4. CASE k # 0
  <2>1. k - 1 \in Nat /\ k - 1 \notin bad BY <1>2, <1>4
  <2>2. PICK g : WordLoop(g, s, w, k - 1) BY <2>1
  <2> DEFINE f == [i \in 0 .. k |-> IF i = 0 THEN s ELSE WordStep(g[i - 1], w, i)]
  <2>3. ASSUME NEW i \in 1 .. k PROVE f[i - 1] = g[i - 1]
    <3>1. i - 1 \in 0 .. k - 1 /\ i - 1 \in 0 .. k BY <2>1
    <3>2. g[i - 1] = IF i - 1 = 0 THEN s ELSE WordStep(g[(i - 1) - 1], w, i - 1)
      BY <2>2, <3>1 DEF WordLoop
    <3> QED BY <3>1, <3>2
  <2>4. ASSUME NEW i \in 0 .. k PROVE f[i] = IF i = 0 THEN s ELSE WordStep(f[i - 1], w, i)
    <3>1. CASE i = 0 BY <3>1
    <3>2. CASE i # 0
      <4>1. i \in 1 .. k BY <3>2
      <4>2. f[i] = WordStep(g[i - 1], w, i) BY <3>2
      <4> QED BY <2>3, <3>2, <4>1, <4>2
    <3> QED BY <3>1, <3>2
  <2>5. f = [i \in 0 .. k |-> f[i]] OBVIOUS
  <2> HIDE DEF f
  <2>6. WordLoop(f, s, w, k) BY <2>4, <2>5 DEF WordLoop
  <2> QED BY <1>2, <2>6
<1> QED BY <1>3, <1>4

\* ... whose last value CountedWord is.
LEMMA WordLoopIs ==
  ASSUME NEW s, NEW w, Len(w) \in Nat \ {0}
  PROVE  \E f : WordLoop(f, s, w, Len(w) - 1) /\ CountedWord(s, w) = f[Len(w) - 1]
<1> DEFINE f == CHOOSE f : f = [i \in 0 .. Len(w) - 1 |->
                  IF i = 0 THEN s ELSE Increment(f[i - 1], <<w[i], w[i + 1]>>, wordMap[w], <<w, i>>)]
<1>1. \E g : g = [i \in 0 .. Len(w) - 1 |->
                  IF i = 0 THEN s ELSE Increment(g[i - 1], <<w[i], w[i + 1]>>, wordMap[w], <<w, i>>)]
  <2>1. Len(w) - 1 \in Nat OBVIOUS
  <2>2. \E g : WordLoop(g, s, w, Len(w) - 1) BY <2>1, WordLoopExists
  <2> QED BY <2>2, Zenon DEF WordLoop, WordStep
<1>2. WordLoop(f, s, w, Len(w) - 1) BY <1>1, Zenon DEF WordLoop, WordStep
<1>3. CountedWord(s, w) = f[Len(w) - 1] BY Zenon DEF CountedWord
<1> HIDE DEF f
<1> QED BY <1>2, <1>3

\* The equation of the loop over the words has a solution ...
LEMMA TextLoopExists == ASSUME NEW order, NEW m \in Nat PROVE \E f : TextLoop(f, order, m)
<1> DEFINE bad == {k \in Nat : ~ \E f : TextLoop(f, order, k)}
<1>1. SUFFICES ASSUME bad # {} PROVE FALSE OBVIOUS
<1>2. PICK k \in bad : \A j \in bad : k <= j BY <1>1, LeastElement
<1>3. CASE k = 0
  <2> DEFINE f == [i \in 0 .. 0 |-> Nothing]
  <2>1. TextLoop(f, order, 0) BY DEF TextLoop
  <2> QED BY <1>2, <1>3, <2>1
<1>4. CASE k # 0
  <2>1. k - 1 \in Nat /\ k - 1 \notin bad BY <1>2, <1>4
  <2>2. PICK g : TextLoop(g, order, k - 1) BY <2>1
  <2> DEFINE f == [i \in 0 .. k |-> IF i = 0 THEN Nothing ELSE CountedWord(g[i - 1], order[i])]
  <2>3. ASSUME NEW i \in 1 .. k PROVE f[i - 1] = g[i - 1]
    <3>1. i - 1 \in 0 .. k - 1 /\ i - 1 \in 0 .. k BY <2>1
    <3>2. g[i - 1] = IF i - 1 = 0 THEN Nothing ELSE CountedWord(g[(i - 1) - 1], order[i - 1])
      BY <2>2, <3>1 DEF TextLoop
    <3> QED BY <3>1, <3>2
  <2>4. ASSUME NEW i \in 0 .. k PROVE f[i] = IF i = 0 THEN Nothing ELSE CountedWord(f[i - 1], order[i])
    <3>1. CASE i = 0 BY <3>1
    <3>2. CASE i # 0
      <4>1. i \in 1 .. k BY <3>2
      <4>2. f[i] = CountedWord(g[i - 1], order[i]) BY <3>2
      <4> QED BY <2>3, <3>2, <4>1, <4>2
    <3> QED BY <3>1, <3>2
  <2>5. f = [i \in 0 .. k |-> f[i]] OBVIOUS
  <2> HIDE DEF f
  <2>6. TextLoop(f, order, k) BY <2>4, <2>5 DEF TextLoop
  <2> QED BY <1>2, <2>6
<1> QED BY <1>3, <1>4

\* ... whose last value Counted is.
LEMMA TextLoopIs ==
  ASSUME NEW order, Len(order) \in Nat
  PROVE  \E f : TextLoop(f, order, Len(order)) /\ Counted(order) = f[Len(order)].pairs
<1> DEFINE f == CHOOSE f : f = [k \in 0 .. Len(order) |->
                  IF k = 0 THEN [pairs |-> Empty, touched |-> {}] ELSE CountedWord(f[k - 1], order[k])]
<1>1. \E g : g = [k \in 0 .. Len(order) |->
                  IF k = 0 THEN [pairs |-> Empty, touched |-> {}] ELSE CountedWord(g[k - 1], order[k])]
  BY TextLoopExists DEF TextLoop, Nothing
<1>2. TextLoop(f, order, Len(order)) BY <1>1, Zenon DEF TextLoop, Nothing
<1>3. Counted(order) = f[Len(order)].pairs BY Zenon DEF Counted
<1> HIDE DEF f
<1> QED BY <1>2, <1>3

\* The positions of a word up to one, and the labels of some positions before
\* anything is merged.
At(w, i) == <<w, i>>
UpTo(w, i) == {At(w, j) : j \in 1 .. i}
Counting(places) == [n \in places |-> <<n[1][n[2]], n[1][n[2] + 1]>>]

\* One position more.
LEMMA UpToStep ==
  ASSUME NEW w, NEW i \in Nat \ {0}
  PROVE  UpTo(w, 0) = {} /\ UpTo(w, i) = UpTo(w, i - 1) \cup {At(w, i)}
         /\ At(w, i) \notin UpTo(w, i - 1)
<1>1. 1 .. i = (1 .. i - 1) \cup {i} /\ i \notin 1 .. i - 1 /\ 1 .. 0 = {} OBVIOUS
<1>2. \A j, k : At(w, j) = At(w, k) => j = k BY DEF At
<1> QED BY <1>1, <1>2, Zenon DEF UpTo

\* One label more.
LEMMA CountingStep ==
  ASSUME NEW places, NEW w, NEW i
  PROVE  Counting(places \cup {At(w, i)}) = With(Counting(places), At(w, i), <<w[i], w[i + 1]>>)
<1>1. At(w, i)[1] = w /\ At(w, i)[2] = i BY DEF At
<1> DEFINE n == At(w, i)
           l == <<w[i], w[i + 1]>>
<1>2. <<n[1][n[2]], n[1][n[2] + 1]>> = l BY <1>1
<1> HIDE DEF n, l
<1>3. Counting(places \cup {n}) = With(Counting(places), n, l) BY <1>2 DEF Counting, With
<1> QED BY <1>3 DEF n, l

\* A word is counted when every two of its positions are.
LEMMA WordCounted ==
  ASSUME Words, NEW w \in DOMAIN wordMap, NEW places, \A j : At(w, j) \notin places,
         NEW s, NEW but, Table(wordMap, s, Counting(places), but, Byte)
  PROVE  Table(wordMap, CountedWord(s, w), Counting(places \cup UpTo(w, Len(w) - 1)), but, Byte)
<1>1. /\ w \in Seq(Byte) /\ Len(w) \in Nat \ {0} /\ DOMAIN w = 1 .. Len(w) /\ Found(wordMap)
  BY WordParts DEF Words
<1>2. PICK f : WordLoop(f, s, w, Len(w) - 1) /\ CountedWord(s, w) = f[Len(w) - 1]
  BY <1>1, WordLoopIs
<1> DEFINE good(i) == Table(wordMap, f[i], Counting(places \cup UpTo(w, i)), but, Byte)
           bad == {i \in 0 .. Len(w) - 1 : ~ good(i)}
<1>3. ASSUME bad # {} PROVE FALSE
  <2>1. PICK i \in bad : \A j \in bad : i <= j
    <3>1. bad \subseteq Nat OBVIOUS
    <3> QED BY <1>3, <3>1, LeastElement
  <2>2. i \in 0 .. Len(w) - 1 /\ ~ good(i) /\ f[i] = IF i = 0 THEN s ELSE WordStep(f[i - 1], w, i)
    BY <1>2, <2>1 DEF WordLoop
  <2>3. CASE i = 0
    <3>1. UpTo(w, 0) = {} BY <1>1, UpToStep
    <3>2. places \cup UpTo(w, i) = places BY <2>3, <3>1
    <3>3. f[i] = s BY <2>2, <2>3
    <3> QED BY <2>2, <3>2, <3>3
  <2>4. CASE i # 0
    <3> DEFINE k == i - 1
               P == places \cup UpTo(w, k)
               n == At(w, i)
               l == <<w[i], w[i + 1]>>
    <3>1. k \in 0 .. Len(w) - 1 /\ k \notin bad
      <4>1. k \in 0 .. Len(w) - 1 /\ ~ (i <= k) BY <1>1, <2>2, <2>4
      <4>2. \A j \in bad : i <= j BY <2>1
      <4> HIDE DEF bad, k
      <4> QED BY <4>1, <4>2
    <3>2. good(k) BY <3>1
    <3>3. i \in Nat \ {0} /\ i \in DOMAIN w /\ i + 1 \in DOMAIN w BY <1>1, <2>2, <2>4
    <3>4. w[i] \in Byte /\ w[i + 1] \in Byte BY <1>1, <3>3, ElementOfSeq
    <3>5. n \in PositionIn(wordMap) /\ n[1] = w BY <3>3, PositionIs DEF At
    <3>6. places \cup UpTo(w, i) = P \cup {n} /\ n \notin P BY <3>3, UpToStep
    <3>7. Counting(P \cup {n}) = With(Counting(P), n, l) BY CountingStep
    <3>8. DOMAIN Counting(P) = P BY DEF Counting
    <3>9. f[i] = Increment(f[k], l, wordMap[w], n) BY <2>2, <2>4 DEF WordStep, At
    <3>10. l \in Byte \X Byte BY <3>4
    <3>11. Table(wordMap, f[k], Counting(P), but, Byte) BY <3>2
    <3> HIDE DEF k, P, n, l
    <3>12. Table(wordMap, Increment(f[k], l, wordMap[n[1]], n), With(Counting(P), n, l), but, Byte)
      BY <1>1, <3>5, <3>6, <3>8, <3>10, <3>11, IncrementSound
    <3> QED BY <2>2, <3>5, <3>6, <3>7, <3>9, <3>12
  <2> QED BY <2>3, <2>4
<1>4. good(Len(w) - 1)
  <2>1. Len(w) - 1 \in 0 .. Len(w) - 1 BY <1>1
  <2> QED BY <1>3, <2>1
<1> QED BY <1>2, <1>4

\* The positions counted after some words.
Upto(order, k) == UNION {UpTo(order[j], Len(order[j]) - 1) : j \in 1 .. k}

\* An order of a finite set has every member once.
LEMMA OrderParts ==
  ASSUME NEW S, IsFiniteSet(S), NEW order \in SetToSeqs(S)
  PROVE  /\ Len(order) \in Nat /\ S = {order[j] : j \in 1 .. Len(order)}
         /\ \A i, j \in 1 .. Len(order) : i # j => order[i] # order[j]
<1> DEFINE D == 1 .. Cardinality(S)
<1>1. order \in [D -> S] /\ \A i, j \in D : i # j => order[i] # order[j] BY Zenon DEF SetToSeqs
<1>2. Cardinality(S) \in Nat BY FS_CardinalityType
<1>3. order \in Injection(D, S) BY <1>1 DEF Injection, IsInjective
<1>4. Cardinality(D) = Cardinality(S) /\ IsFiniteSet(D) BY <1>2, FS_Interval
<1>5. order \in Surjection(D, S) BY <1>3, <1>4, FS_Injection
<1>6. \A x \in S : \E j \in D : order[j] = x BY <1>5 DEF Surjection
<1>7. order \in Seq(S) /\ Len(order) = Cardinality(S)
  <2>1. order \in Seq(S) BY <1>1, <1>2, SeqDef
  <2>2. DOMAIN order = D BY <1>1
  <2> QED BY <1>2, <2>1, <2>2, LenProperties
<1> QED BY <1>1, <1>2, <1>6, <1>7

\* All is counted when every word is.
LEMMA AllCounted ==
  ASSUME Words, NEW order \in SetToSeqs(DOMAIN wordMap)
  PROVE  \E touched : Table(wordMap, [pairs |-> Counted(order), touched |-> touched],
                            Counting(Upto(order, Len(order))), <<NoPart, NoPart>>, Byte)
<1> DEFINE but == <<NoPart, NoPart>>
<1>1. /\ Len(order) \in Nat /\ DOMAIN wordMap = {order[j] : j \in 1 .. Len(order)}
      /\ \A i, j \in 1 .. Len(order) : i # j => order[i] # order[j]
  BY OrderParts DEF Words
<1>2. PICK f : TextLoop(f, order, Len(order)) /\ Counted(order) = f[Len(order)].pairs
  BY <1>1, TextLoopIs
<1> HIDE DEF but
<1> DEFINE good(k) == Table(wordMap, f[k], Counting(Upto(order, k)), but, Byte)
           bad == {k \in 0 .. Len(order) : ~ good(k)}
<1>3. ASSUME bad # {} PROVE FALSE
  <2>1. PICK k \in bad : \A j \in bad : k <= j
    <3>1. bad \subseteq Nat OBVIOUS
    <3> QED BY <1>3, <3>1, LeastElement
  <2>2. k \in 0 .. Len(order) /\ ~ good(k)
        /\ f[k] = IF k = 0 THEN Nothing ELSE CountedWord(f[k - 1], order[k])
    BY <1>2, <2>1 DEF TextLoop
  <2>3. CASE k = 0
    <3>1. Upto(order, k) = {} BY <2>3 DEF Upto
    <3>2. f[k] = Nothing BY <2>2, <2>3
    <3>3. Counting({}) = [n \in {} |-> n] BY DEF Counting
    <3>4. Table(wordMap, Nothing, Counting({}), but, Byte)
      BY <3>3 DEF Nothing, Empty, Table, Typed, Tallied, Listed
    <3> QED BY <2>2, <3>1, <3>2, <3>4
  <2>4. CASE k # 0
    <3> DEFINE i == k - 1
               w == order[k]
               P == Upto(order, i)
    <3>1. i \in 0 .. Len(order) /\ i \notin bad /\ k \in 1 .. Len(order) /\ 1 .. k = (1 .. i) \cup {k}
          /\ 1 .. k \subseteq 1 .. Len(order) /\ k \notin 1 .. i
      <4>1. i \in 0 .. Len(order) /\ ~ (k <= i) BY <1>1, <2>2, <2>4
      <4>2. \A j \in bad : k <= j BY <2>1
      <4>3. k \in 1 .. Len(order) /\ 1 .. k = (1 .. i) \cup {k}
            /\ 1 .. k \subseteq 1 .. Len(order) /\ k \notin 1 .. i
        BY <1>1, <2>2, <2>4
      <4> HIDE DEF bad, i
      <4> QED BY <4>1, <4>2, <4>3
    <3>2. good(i) BY <3>1
    <3>3. w \in DOMAIN wordMap BY <1>1, <3>1
    <3>4. \A j \in 1 .. i : order[j] # w BY <1>1, <3>1
    <3>5. \A j : At(w, j) \notin P
      <4> SUFFICES ASSUME NEW j, At(w, j) \in P PROVE FALSE OBVIOUS
      <4>1. PICK e \in 1 .. i : At(w, j) \in UpTo(order[e], Len(order[e]) - 1) BY DEF Upto
      <4>2. PICK d : At(w, j) = At(order[e], d) BY <4>1 DEF UpTo
      <4>3. w = order[e] BY <4>2 DEF At
      <4> QED BY <3>4, <4>3
    <3>6. Upto(order, k) = P \cup UpTo(w, Len(w) - 1) BY <3>1, Zenon DEF Upto
    <3>7. f[k] = CountedWord(f[i], w) BY <2>2, <2>4
    <3>8. Table(wordMap, f[i], Counting(P), but, Byte) BY <3>2
    <3> HIDE DEF i, w, P
    <3>9. Table(wordMap, CountedWord(f[i], w), Counting(P \cup UpTo(w, Len(w) - 1)), but, Byte)
      BY <3>3, <3>5, <3>8, WordCounted
    <3> QED BY <2>2, <3>6, <3>7, <3>9
  <2> QED BY <2>3, <2>4
<1>4. good(Len(order)) 
  <2>1. Len(order) \in 0 .. Len(order) BY <1>1
  <2> QED BY <1>3, <2>1
<1> DEFINE g == f[Len(order)]
<1>5. Table(wordMap, g, Counting(Upto(order, Len(order))), but, Byte) BY <1>4
<1>6. Counted(order) = g.pairs BY <1>2
<1> HIDE DEF g
<1>7. Table(wordMap, [pairs |-> g.pairs, touched |-> g.touched],
            Counting(Upto(order, Len(order))), but, Byte)
  BY <1>5, TableIs
<1> QED BY <1>6, <1>7 DEF but

----------------------------------------------------------------------------
(* The words as they are before any merge.                                 *)

\* The byte tokens are a vocabulary.
LEMMA BytesFirst ==
  ASSUME tokens' = ByteTokens
  PROVE  /\ Vocabulary' /\ Ids' = Byte
         /\ \A b \in Byte : tokens'[b].bytes = <<b>>
<1>1. \A b \in Byte : ByteTokens[b] = [bytes |-> <<b>>, left |-> NoPart, right |-> NoPart]
  BY DEF ByteTokens
<1>2. \A b \in Byte : ByteTokens[b] \in Token
  <2> SUFFICES ASSUME NEW b \in Byte PROVE ByteTokens[b] \in Token OBVIOUS
  <2> DEFINE u == <<b>>
  <2>1. u \in Seq(Byte) /\ u # << >> OBVIOUS
  <2>2. NoPart \in Nat BY DEF NoPart
  <2>3. ByteTokens[b] = [bytes |-> u, left |-> NoPart, right |-> NoPart] BY <1>1
  <2> HIDE DEF u
  <2> QED BY <2>1, <2>2, <2>3 DEF Token
<1>3. ByteTokens \in [1 .. NBytes -> Token] BY <1>2 DEF ByteTokens, Byte
<1>4. ByteTokens \in Seq(Token) BY <1>3, SeqDef
<1>5. Ids' = Byte BY DEF Ids, ByteTokens
<1>6. Vocabulary' BY <1>4, <1>5 DEF Vocabulary
<1>7. ASSUME NEW b \in Byte PROVE tokens'[b].bytes = <<b>>
  <2>1. tokens'[b] = [bytes |-> <<b>>, left |-> NoPart, right |-> NoPart] BY <1>1
  <2> QED BY <2>1
<1> QED BY <1>5, <1>6, <1>7

\* The nodes of the words are their positions, each linked to the next.
LEMMA LinkedIs ==
  ASSUME Words, nodes' = Linked(DOMAIN wordMap)
  PROVE  /\ DOMAIN nodes' = Position
         /\ \A w \in DOMAIN wordMap : \A i \in DOMAIN w :
              nodes'[At(w, i)] = [sym  |-> w[i],
                                  prev |-> IF i = 1 THEN NoNode ELSE At(w, i - 1),
                                  next |-> IF i = Len(w) THEN NoNode ELSE At(w, i + 1)]
<1> DEFINE D == UNION {{<<w, i>> : i \in DOMAIN w} : w \in DOMAIN wordMap}
           node(n) == LET w == n[1]  i == n[2] IN
                      [sym  |-> w[i],
                       prev |-> IF i = 1 THEN NoNode ELSE <<w, i - 1>>,
                       next |-> IF i = Len(w) THEN NoNode ELSE <<w, i + 1>>]
<1>1. nodes' = [n \in D |-> node(n)] BY DEF Linked
<1>2. D = Position BY DEF Position, PositionIn
<1> HIDE DEF D
<1>3. ASSUME NEW w \in DOMAIN wordMap, NEW i \in DOMAIN w
      PROVE  nodes'[At(w, i)] = [sym  |-> w[i],
                                 prev |-> IF i = 1 THEN NoNode ELSE At(w, i - 1),
                                 next |-> IF i = Len(w) THEN NoNode ELSE At(w, i + 1)]
  <2>1. At(w, i) \in D BY <1>2, PositionIs DEF At, Position
  <2>2. At(w, i)[1] = w /\ At(w, i)[2] = i BY DEF At
  <2>3. nodes'[At(w, i)] = node(At(w, i)) BY <1>1, <2>1
  <2>4. node(At(w, i)) = [sym  |-> w[i],
                          prev |-> IF i = 1 THEN NoNode ELSE At(w, i - 1),
                          next |-> IF i = Len(w) THEN NoNode ELSE At(w, i + 1)]
    BY <2>2, Zenon DEF At
  <2> QED BY <2>3, <2>4
<1> QED BY <1>1, <1>2, <1>3

\* Every node has one byte, that of its position.
LEMMA ChainedFirst ==
  ASSUME Words, wordMap' = wordMap, tokens' = ByteTokens, nodes' = Linked(DOMAIN wordMap)
  PROVE  Chained'
<1>1. Ids' = Byte /\ \A b \in Byte : tokens'[b].bytes = <<b>> BY BytesFirst
<1>2. DOMAIN nodes' = Position /\ Position' = Position BY LinkedIs DEF Position
<1>3. \A w \in DOMAIN wordMap : /\ w \in Seq(Byte) /\ Len(w) \in Nat \ {0} /\ DOMAIN w = 1 .. Len(w)
  BY WordParts DEF Words
<1>4. \A w \in DOMAIN wordMap : \A i \in DOMAIN w : At(w, i) \in Position /\ At(w, i) # NoNode
  BY PositionIs, PositionParts DEF At, Position
<1>5. ASSUME NEW n \in Position PROVE Spelled(n)' /\ Doubly(n)'
  <2> DEFINE w == n[1]
             i == n[2]
  <2>1. n = At(w, i) /\ w \in DOMAIN wordMap /\ i \in DOMAIN w
    BY PositionParts DEF At, Position
  <2>2. w \in Seq(Byte) /\ Len(w) \in Nat \ {0} /\ i \in 1 .. Len(w) /\ DOMAIN w = 1 .. Len(w)
    BY <1>3, <2>1
  <2> HIDE DEF w, i
  <2>3. w[i] \in Byte BY <2>2, ElementOfSeq
  <2>4. /\ nodes'[n] = [sym  |-> w[i],
                        prev |-> IF i = 1 THEN NoNode ELSE At(w, i - 1),
                        next |-> IF i = Len(w) THEN NoNode ELSE At(w, i + 1)]
    BY <2>1, LinkedIs
  <2>5. /\ nodes'[n].sym = w[i] /\ nodes'[n].prev = IF i = 1 THEN NoNode ELSE At(w, i - 1)
        /\ nodes'[n].next = IF i = Len(w) THEN NoNode ELSE At(w, i + 1)
    BY <2>4
  <2> DEFINE L == Len(w)
  <2>0. L \in Nat \ {0} /\ i \in 1 .. L /\ DOMAIN w = 1 .. L BY <2>2
  <2> HIDE DEF L
  <2>6. i # 1 => i - 1 \in DOMAIN w /\ (i - 1) + 1 = i /\ i - 1 # Len(w)
    <3>1. i # 1 => i - 1 \in 1 .. L /\ (i - 1) + 1 = i /\ i - 1 # L BY <2>0
    <3> QED BY <2>0, <3>1 DEF L
  <2>7. i # Len(w) => i + 1 \in DOMAIN w /\ (i + 1) - 1 = i /\ i + 1 # 1
    <3>1. i # L => i + 1 \in 1 .. L /\ (i + 1) - 1 = i /\ i + 1 # 1 BY <2>0
    <3> QED BY <2>0, <3>1 DEF L
  <2>8. nodes'[n] \in Node'
    <3>1. nodes'[n].prev \in Position \cup {NoNode} BY <1>4, <2>1, <2>5, <2>6, Zenon
    <3>2. nodes'[n].next \in Position \cup {NoNode} BY <1>4, <2>1, <2>5, <2>7, Zenon
    <3> QED BY <1>1, <1>2, <2>3, <2>4, <2>5, <3>1, <3>2 DEF Node
  <2>9. Bytes(n)' = <<w[i]>> BY <1>1, <2>3, <2>5 DEF Bytes
  <2>10. End(n)' = i + 1
    <3>1. Len(<<w[i]>>) = 1 OBVIOUS
    <3> QED BY <2>9, <3>1 DEF End, i
  <2>11. SubSeq(w, i, (i + 1) - 1) = <<w[i]>>
    <3>1. (i + 1) - 1 = i BY <2>2
    <3> DEFINE q == SubSeq(w, i, i)
    <3>2. q \in Seq(Byte) /\ Len(q) = 1 /\ q[1] = w[i]
      <4>1. i \in 1 .. Len(w) + 1 /\ i \in i - 1 .. Len(w) BY <2>2
      <4>2. /\ q \in Seq(Byte) /\ Len(q) = IF i <= i THEN i - i + 1 ELSE 0
            /\ \A k \in 1 .. i - i + 1 : q[k] = w[i + k - 1]
        BY <2>2, <4>1, SubSeqProperties
      <4>3. i <= i /\ i - i + 1 = 1 /\ i + 1 - 1 = i /\ 1 \in 1 .. 1 BY <2>2
      <4> HIDE DEF q
      <4> QED BY <4>2, <4>3
    <3> HIDE DEF q
    <3>3. <<w[i]>> \in Seq(Byte) /\ Len(<<w[i]>>) = 1 /\ <<w[i]>>[1] = w[i] BY <2>3
    <3>4. \A k \in 1 .. 1 : q[k] = <<w[i]>>[k] BY <3>2, <3>3
    <3>5. q = <<w[i]>> BY <3>2, <3>3, <3>4, SeqEqual
    <3> QED BY <3>1, <3>5 DEF q
  <2>12. Spelled(n)'
    <3>1. i + 1 <= Len(w) + 1 /\ i + 1 .. (i + 1) - 1 = {} /\ (i + 1 = Len(w) + 1 <=> i = Len(w))
      <4>1. i + 1 <= L + 1 BY <2>0
      <4>2. i + 1 .. (i + 1) - 1 = {} BY <2>0
      <4>3. i + 1 = L + 1 <=> i = L BY <2>0
      <4> QED BY <4>1, <4>2, <4>3 DEF L
    <3>2. nodes'[n].next = IF i + 1 = Len(w) + 1 THEN NoNode ELSE <<w, i + 1>>
      BY <2>5, <3>1, Zenon DEF At
    <3>3. End(n)' <= Len(w) + 1 BY <2>10, <3>1
    <3>4. Bytes(n)' = SubSeq(w, i, End(n)' - 1) BY <2>9, <2>10, <2>11
    <3>5. \A k \in i + 1 .. End(n)' - 1 : <<w, k>> \notin DOMAIN nodes' BY <2>10, <3>1
    <3>6. nodes'[n].next = IF End(n)' = Len(w) + 1 THEN NoNode ELSE <<w, End(n)'>>
      BY <2>10, <3>2
    <3> QED BY <2>8, <3>3, <3>4, <3>5, <3>6 DEF Spelled, WordOf, w, i
  <2>13. nodes'[n].next # NoNode => nodes'[n].next \in DOMAIN nodes' /\ nodes'[nodes'[n].next].prev = n
    <3> SUFFICES ASSUME nodes'[n].next # NoNode
                 PROVE  nodes'[n].next \in DOMAIN nodes' /\ nodes'[nodes'[n].next].prev = n
      OBVIOUS
    <3>1. i # Len(w) /\ nodes'[n].next = At(w, i + 1) BY <2>5
    <3> DEFINE j == i + 1
    <3>2. j \in DOMAIN w /\ j - 1 = i /\ j # 1 BY <2>7, <3>1
    <3>3. nodes'[n].next = At(w, j) BY <3>1
    <3> HIDE DEF j
    <3>4. nodes'[At(w, j)].prev = At(w, i)
      <4>1. nodes'[At(w, j)] = [sym  |-> w[j],
                                prev |-> IF j = 1 THEN NoNode ELSE At(w, j - 1),
                                next |-> IF j = Len(w) THEN NoNode ELSE At(w, j + 1)]
        BY <2>1, <3>2, LinkedIs
      <4>2. nodes'[At(w, j)].prev = IF j = 1 THEN NoNode ELSE At(w, j - 1) BY <4>1
      <4> QED BY <3>2, <4>2, Zenon
    <3> QED BY <1>2, <1>4, <2>1, <3>2, <3>3, <3>4
  <2>14. nodes'[n].prev # NoNode => nodes'[n].prev \in DOMAIN nodes' /\ nodes'[nodes'[n].prev].next = n
    <3> SUFFICES ASSUME nodes'[n].prev # NoNode
                 PROVE  nodes'[n].prev \in DOMAIN nodes' /\ nodes'[nodes'[n].prev].next = n
      OBVIOUS
    <3>1. i # 1 /\ nodes'[n].prev = At(w, i - 1) BY <2>5
    <3> DEFINE j == i - 1
    <3>2. j \in DOMAIN w /\ j + 1 = i /\ j # Len(w) BY <2>6, <3>1
    <3>3. nodes'[n].prev = At(w, j) BY <3>1
    <3> HIDE DEF j
    <3>4. nodes'[At(w, j)].next = At(w, i)
      <4>1. nodes'[At(w, j)] = [sym  |-> w[j],
                                prev |-> IF j = 1 THEN NoNode ELSE At(w, j - 1),
                                next |-> IF j = Len(w) THEN NoNode ELSE At(w, j + 1)]
        BY <2>1, <3>2, LinkedIs
      <4>2. nodes'[At(w, j)].next = IF j = Len(w) THEN NoNode ELSE At(w, j + 1) BY <4>1
      <4> QED BY <3>2, <4>2, Zenon
    <3> QED BY <1>2, <1>4, <2>1, <3>2, <3>3, <3>4
  <2> QED BY <2>12, <2>13, <2>14 DEF Doubly
<1>6. \A w \in DOMAIN wordMap' : <<w, 1>> \in DOMAIN nodes'
  <2> SUFFICES ASSUME NEW w \in DOMAIN wordMap PROVE <<w, 1>> \in Position BY <1>2
  <2>1. 1 \in DOMAIN w BY <1>3
  <2> QED BY <2>1, PositionIs DEF Position
<1> QED BY <1>2, <1>5, <1>6 DEF Chained

\* The labels of the nodes are those that are counted.
LEMMA LabelsFirst ==
  ASSUME Words, wordMap' = wordMap, nodes' = Linked(DOMAIN wordMap),
         NEW order \in SetToSeqs(DOMAIN wordMap)
  PROVE  Labels' = Counting(Upto(order, Len(order)))
<1> DEFINE F == Following'
           U == Upto(order, Len(order))
<1>1. \A w \in DOMAIN wordMap : Len(w) \in Nat \ {0} /\ DOMAIN w = 1 .. Len(w)
  BY WordParts DEF Words
<1>2. /\ Len(order) \in Nat /\ DOMAIN wordMap = {order[j] : j \in 1 .. Len(order)}
  <2>1. IsFiniteSet(DOMAIN wordMap) BY DEF Words
  <2>2. /\ Len(order) \in Nat /\ DOMAIN wordMap = {order[j] : j \in 1 .. Len(order)}
        /\ \A i, j \in 1 .. Len(order) : i # j => order[i] # order[j]
    BY <2>1, OrderParts
  <2> QED BY <2>2
<1>3. U = UNION {UpTo(w, Len(w) - 1) : w \in DOMAIN wordMap} BY <1>2, Zenon DEF Upto
<1>4. ASSUME NEW w \in DOMAIN wordMap, NEW i \in DOMAIN w
      PROVE  /\ At(w, i) \in DOMAIN nodes' /\ nodes'[At(w, i)].sym = w[i]
             /\ nodes'[At(w, i)].next = IF i = Len(w) THEN NoNode ELSE At(w, i + 1)
             /\ At(w, i)[1] = w /\ At(w, i)[2] = i /\ At(w, i) # NoNode
  <2>1. nodes'[At(w, i)] = [sym  |-> w[i],
                            prev |-> IF i = 1 THEN NoNode ELSE At(w, i - 1),
                            next |-> IF i = Len(w) THEN NoNode ELSE At(w, i + 1)]
    BY LinkedIs
  <2>2. At(w, i) \in Position BY PositionIs DEF At, Position
  <2>3. At(w, i) \in DOMAIN nodes' BY <2>2, LinkedIs
  <2>4. At(w, i)[1] = w /\ At(w, i)[2] = i BY DEF At
  <2>5. At(w, i) # NoNode BY <2>2, PositionParts DEF Position
  <2> QED BY <2>1, <2>3, <2>4, <2>5
<1>5. ASSUME NEW w \in DOMAIN wordMap, NEW i
      PROVE  i \in DOMAIN w /\ i # Len(w) <=> i \in 1 .. Len(w) - 1
  <2> DEFINE L == Len(w)
  <2>1. L \in Nat \ {0} /\ DOMAIN w = 1 .. L BY <1>1
  <2> HIDE DEF L
  <2>2. i \in 1 .. L /\ i # L <=> i \in 1 .. L - 1 BY <2>1
  <2> QED BY <2>1, <2>2 DEF L
<1>6. F = {n \in Position : nodes'[n].next # NoNode} BY LinkedIs DEF Following
<1> HIDE DEF F, U
<1>7. ASSUME NEW w \in DOMAIN wordMap, NEW i \in DOMAIN w, i # Len(w)
      PROVE  /\ At(w, i) \in F
             /\ <<nodes'[At(w, i)].sym, nodes'[nodes'[At(w, i)].next].sym>>
                  = <<At(w, i)[1][At(w, i)[2]], At(w, i)[1][At(w, i)[2] + 1]>>
  <2> DEFINE j == i + 1
  <2>1. j \in DOMAIN w
    <3> DEFINE L == Len(w)
    <3>1. L \in Nat \ {0} /\ DOMAIN w = 1 .. L BY <1>1
    <3> HIDE DEF L
    <3>2. i \in 1 .. L /\ i # L BY <1>7, <3>1 DEF L
    <3>3. i + 1 \in 1 .. L BY <3>1, <3>2
    <3> QED BY <3>1, <3>3
  <2>2. At(w, i) \in DOMAIN nodes' /\ nodes'[At(w, i)].sym = w[i] /\ nodes'[At(w, i)].next = At(w, j)
        /\ At(w, i)[1] = w /\ At(w, i)[2] = i
    BY <1>4, <1>7
  <2>3. At(w, i)[1][At(w, i)[2] + 1] = w[j] BY <2>2
  <2> HIDE DEF j
  <2>4. nodes'[At(w, j)].sym = w[j] /\ At(w, j) # NoNode BY <1>4, <2>1
  <2>5. At(w, i) \in Position BY PositionIs DEF At, Position
  <2> QED BY <1>6, <2>2, <2>3, <2>4, <2>5
<1>8. F = U
  <2>1. ASSUME NEW n \in F PROVE n \in U
    <3> DEFINE w == n[1]
               i == n[2]
    <3>1. n \in Position /\ nodes'[n].next # NoNode BY <1>6
    <3>2. n = At(w, i) /\ w \in DOMAIN wordMap /\ i \in DOMAIN w
      BY <3>1, PositionParts DEF At, Position
    <3> HIDE DEF w, i
    <3>3. i # Len(w) BY <1>4, <3>1, <3>2
    <3>4. i \in 1 .. Len(w) - 1 BY <1>5, <3>2, <3>3
    <3>5. At(w, i) \in UpTo(w, Len(w) - 1) BY <3>4 DEF UpTo
    <3> QED BY <1>3, <3>2, <3>5
  <2>2. ASSUME NEW n \in U PROVE n \in F
    <3>1. PICK w \in DOMAIN wordMap : n \in UpTo(w, Len(w) - 1) BY <1>3, Zenon
    <3>2. PICK i \in 1 .. Len(w) - 1 : n = At(w, i) BY <3>1, Zenon DEF UpTo
    <3>3. i \in DOMAIN w /\ i # Len(w) BY <1>5
    <3> QED BY <1>7, <3>2, <3>3
  <2> QED BY <2>1, <2>2
<1>9. ASSUME NEW n \in F
      PROVE  <<nodes'[n].sym, nodes'[nodes'[n].next].sym>> = <<n[1][n[2]], n[1][n[2] + 1]>>
  <2>1. n \in U BY <1>8
  <2>2. PICK w \in DOMAIN wordMap : n \in UpTo(w, Len(w) - 1) BY <1>3, <2>1, Zenon
  <2>3. PICK i \in 1 .. Len(w) - 1 : n = At(w, i) BY <2>2, Zenon DEF UpTo
  <2>4. i \in DOMAIN w /\ i # Len(w) BY <1>5
  <2> QED BY <1>7, <2>3, <2>4
<1>10. Labels' = [n \in F |-> <<nodes'[n].sym, nodes'[nodes'[n].next].sym>>] BY DEF Labels, F
<1>11. Labels' = [n \in F |-> <<n[1][n[2]], n[1][n[2] + 1]>>] BY <1>9, <1>10
<1> QED BY <1>8, <1>11 DEF Counting, U

\* So what training starts with is sound.
LEMMA FinishInv == ASSUME TrainerInv, Finish PROVE TrainerInv'
<1>1. /\ phase = "adding" /\ phase' = "choosing" /\ wordMap' = wordMap /\ job' = job
      /\ nodes' = Linked(DOMAIN wordMap) /\ heap' = Pushed(pairs', DOMAIN pairs')
      /\ tokens' = ByteTokens
  BY DEF Finish
<1>2. PICK order \in SetToSeqs(DOMAIN wordMap) : pairs' = Counted(order) BY DEF Finish
<1>3. Words /\ job = NoJob BY <1>1 DEF TrainerInv
<1>4. Vocabulary' /\ Ids' = Byte BY <1>1, BytesFirst
<1>5. Chained' BY <1>1, <1>3, ChainedFirst
<1>6. JobPair' = <<NoPart, NoPart>> /\ job'.touched = {} BY <1>1, <1>3 DEF JobPair, NoJob
<1>7. PICK touched : Table(wordMap, [pairs |-> pairs', touched |-> touched], Labels',
                           <<NoPart, NoPart>>, Byte)
  <2>1. \E touched : Table(wordMap, [pairs |-> Counted(order), touched |-> touched],
                           Counting(Upto(order, Len(order))), <<NoPart, NoPart>>, Byte)
    BY <1>3, AllCounted
  <2>2. Labels' = Counting(Upto(order, Len(order))) BY <1>1, <1>3, LabelsFirst
  <2> QED BY <1>2, <2>1, <2>2
<1>8. Table(wordMap, [pairs |-> pairs', touched |-> {}], Labels', <<NoPart, NoPart>>, Byte)
  BY <1>7 DEF Table, Typed, Tallied, Listed
<1>9. TheTable' BY <1>1, <1>4, <1>6, <1>8 DEF TheTable
<1>10. \A p \in DOMAIN pairs' : pairs'[p].count \in Nat BY <1>8 DEF Table, Typed
<1>11. OnHeap' BY <1>1, <1>6, <1>10 DEF OnHeap, Pushed
<1>12. Words' BY <1>1, <1>3 DEF Words
<1> QED BY <1>1, <1>3, <1>4, <1>5, <1>9, <1>11, <1>12 DEF TrainerInv, Index

----------------------------------------------------------------------------
(* The theorems.                                                           *)

\* Every step keeps the invariant.
LEMMA NextInv == ASSUME TrainerInv, [Next]_vars PROVE TrainerInv'
<1>1. ASSUME NEW w \in Pieces, AddPiece(w) PROVE TrainerInv' BY <1>1, AddPieceInv
<1>2. CASE Finish BY <1>2, FinishInv
<1>3. CASE PopStale BY <1>3, PopStaleInv
<1>4. CASE Choose BY <1>4, ChooseInv
<1>5. CASE Stop BY <1>5, StopInv
<1>6. CASE Skip BY <1>6, SkipInv
<1>7. CASE Join BY <1>7, JoinInv
<1>8. CASE EndMerge BY <1>8, EndMergeInv
<1>9. CASE Fail BY <1>9, FailInv
<1>10. CASE UNCHANGED vars BY <1>10, StutterInv
<1> QED BY <1>1, <1>2, <1>3, <1>4, <1>5, <1>6, <1>7, <1>8, <1>9, <1>10 DEF Next

\* In every reachable state the words, the vocabulary, the nodes, the table, the
\* heap and the merge under way fit together.
THEOREM TrainerInvariant == Spec => []TrainerInv
BY InitInv, NextInv, PTL DEF Spec

\* Nothing is ever recounted (gd_train_merge_pair), yet the counts, the lists and
\* the heap are at every moment what counting all words again would give.
THEOREM IndexAlwaysSound == Spec => []IndexSound
BY TrainerInvariant, InvSound, PTL

\* A step is greedy: no pair occurs more often than the one it chooses, and none
\* often enough when it stops before the vocabulary is full.
GreedyStep ==
  phase = "choosing" =>
    /\ phase' = "merging" =>
         LET f == Frequency(<<job'.left, job'.right>>) IN
         f >= MinFrequency /\ \A p \in Occurring : f >= Frequency(p)
    /\ phase' = "trained" =>
         Len(tokens) = VocabSize \/ \A p \in Occurring : Frequency(p) < MinFrequency

\* The heap's top, if it is not stale, is the most frequent pair.
LEMMA NextGreedy == ASSUME TrainerInv, [Next]_vars PROVE GreedyStep
<1> SUFFICES ASSUME phase = "choosing"
             PROVE  /\ phase' = "merging" =>
                         LET f == Frequency(<<job'.left, job'.right>>) IN
                         f >= MinFrequency /\ \A p \in Occurring : f >= Frequency(p)
                    /\ phase' = "trained" =>
                         Len(tokens) = VocabSize \/ \A p \in Occurring : Frequency(p) < MinFrequency
  BY DEF GreedyStep
<1>1. /\ Words /\ Index
      /\ \A p \in Occurring : [pair |-> p, count |-> pairs[p].count] \in heap
  BY ChoosingParts
<1>2. /\ Occurring \subseteq DOMAIN pairs
      /\ \A p \in DOMAIN pairs : p = <<p[1], p[2]>> /\ Frequency(p) = pairs[p].count
           /\ pairs[p].count \in Nat
  BY <1>1, PlacesAre
<1>3. \A x \in heap : x.pair \in DOMAIN pairs /\ x.count \in Nat BY <1>1 DEF Index, OnHeap
<1>4. ASSUME NEW x \in Top, Current(x)
      PROVE  /\ x \in heap /\ x.pair \in DOMAIN pairs /\ Frequency(x.pair) = x.count
             /\ \A p \in Occurring : x.count >= Frequency(p)
  BY <1>2, <1>3, <1>1, <1>4 DEF Top, Current
<1>5. CASE Choose
  <2>1. PICK x \in Top : Current(x) /\ x.count >= MinFrequency /\ job'.left = x.pair[1]
          /\ job'.right = x.pair[2]
    BY <1>5 DEF Choose
  <2>2. <<job'.left, job'.right>> = x.pair BY <1>2, <1>4, <2>1
  <2>3. phase' = "merging" BY <1>5 DEF Choose
  <2> QED BY <1>4, <2>1, <2>2, <2>3
<1>6. CASE Stop
  <2>1. phase' = "trained" BY <1>6 DEF Stop
  <2>2. CASE Len(tokens) = VocabSize BY <2>1, <2>2
  <2>3. CASE heap = {} BY <1>1, <2>1, <2>3
  <2>4. ASSUME NEW x \in Top, Current(x), x.count < MinFrequency
        PROVE  \A p \in Occurring : Frequency(p) < MinFrequency
    <3>1. x.count \in Nat /\ \A p \in Occurring : Frequency(p) \in Nat /\ x.count >= Frequency(p)
      BY <1>2, <1>3, <1>4, <2>4
    <3> QED BY <2>4, <3>1
  <2> QED BY <1>6, <2>1, <2>2, <2>3, <2>4 DEF Stop
<1>7. CASE ~ Choose /\ ~ Stop
  <2>1. phase' \notin {"merging", "trained"}
    BY <1>7 DEF Next, AddPiece, Finish, PopStale, Skip, Join, EndMerge, Fail, vars
  <2> QED BY <2>1
<1> QED BY <1>5, <1>6, <1>7

\* Every merge is of a most frequent pair, whatever stale counts the heap holds
\* (gd_train_heap_best_pair), and training ends only when it should.
THEOREM MergesGreedily == Spec => Greedy
<1>1. TrainerInv /\ [Next]_vars => [GreedyStep]_vars BY NextGreedy
<1> QED BY <1>1, TrainerInvariant, PTL DEF Spec, Greedy, GreedyStep
----------------------------------------------------------------------------
(* Encoding.  The ranks that are kept are those of computing all of them   *)
(* again, and no merge changes what the parts decode to.                   *)

Ranked(e) ==
  /\ e.parts \in Seq(Ids) \ {<< >>}
  /\ e.ranks = [i \in DOMAIN e.parts |-> Rank(tokens, e.parts, i)]

Encoding(e, bytes) == Ranked(e) /\ Decode(tokens, e.parts) = bytes

\* A rank is a token with the bytes of the two parts, or none.
LEMMA RankIs ==
  ASSUME Vocabulary, NEW parts \in Seq(Ids), NEW i \in 1 .. Len(parts)
  PROVE  /\ Rank(tokens, parts, i) \in Nat
         /\ Rank(tokens, parts, i) # NoRank(tokens) =>
              /\ i < Len(parts) /\ Rank(tokens, parts, i) \in Ids
              /\ tokens[Rank(tokens, parts, i)].bytes
                   = tokens[parts[i]].bytes \o tokens[parts[i + 1]].bytes
<1> DEFINE found == WithParts(tokens, parts[i], parts[i + 1])
           id == CHOOSE x \in found : TRUE
<1>1. Len(tokens) \in Nat /\ Ids = 1 .. Len(tokens) BY LenProperties DEF Vocabulary, Ids
<1>2. CASE i < Len(parts) /\ found # {}
  <2>1. Rank(tokens, parts, i) = id BY <1>2 DEF Rank
  <2>2. id \in found BY <1>2
  <2>3. id \in Ids /\ tokens[id].left = parts[i] /\ tokens[id].right = parts[i + 1]
    BY <2>2 DEF WithParts, Ids
  <2>4. Len(parts) \in Nat /\ i \in 1 .. Len(parts) BY LenProperties
  <2>5. parts[i] \in Ids BY <2>4, ElementOfSeq
  <2>6. id \notin Byte
    <3>1. SUFFICES ASSUME id \in Byte PROVE FALSE OBVIOUS
    <3> HIDE DEF id
    <3>2. tokens[id] = ByteTokens[id] BY <3>1 DEF Vocabulary
    <3>3. tokens[id].left = NoPart BY <3>1, <3>2 DEF ByteTokens
    <3> QED BY <1>1, <2>3, <2>5, <3>3 DEF NoPart
  <2>7. tokens[id].bytes = MergedBytes(tokens, parts[i], parts[i + 1])
    BY <2>3, <2>6 DEF Vocabulary
  <2> HIDE DEF id
  <2> QED BY <1>1, <1>2, <2>1, <2>3, <2>7 DEF MergedBytes
<1>3. CASE ~ (i < Len(parts) /\ found # {})
  <2>1. Rank(tokens, parts, i) = NoRank(tokens) BY <1>3 DEF Rank
  <2> QED BY <1>1, <2>1 DEF NoRank
<1> QED BY <1>2, <1>3

\* There is a lowest rank.
LEMMA LowestIs ==
  ASSUME NEW e, DOMAIN e.ranks \subseteq Nat, DOMAIN e.ranks # {},
         \A i \in DOMAIN e.ranks : e.ranks[i] \in Nat
  PROVE  Lowest(e) \in DOMAIN e.ranks
<1> DEFINE values == {e.ranks[i] : i \in DOMAIN e.ranks}
<1>0. values \subseteq Nat /\ values # {} OBVIOUS
<1>1. PICK low \in values : \A x \in values : low <= x
  <2> HIDE DEF values
  <2> QED BY <1>0, LeastElement
<1> DEFINE places == {i \in DOMAIN e.ranks : e.ranks[i] = low}
<1>2. places \subseteq Nat /\ places # {} BY <1>1
<1>3. PICK i \in places : \A j \in places : i <= j BY <1>2, LeastElement
<1>4. \A j \in DOMAIN e.ranks : e.ranks[i] < e.ranks[j] \/ (e.ranks[i] = e.ranks[j] /\ i <= j)
  <2> TAKE j \in DOMAIN e.ranks
  <2>1. e.ranks[j] \in Nat /\ low \in Nat /\ e.ranks[i] = low /\ low <= e.ranks[j]
    BY <1>0, <1>1, <1>3
  <2>2. e.ranks[j] = low => i <= j BY <1>3
  <2> QED BY <2>1, <2>2
<1>5. \E k \in DOMAIN e.ranks : \A j \in DOMAIN e.ranks :
         e.ranks[k] < e.ranks[j] \/ (e.ranks[k] = e.ranks[j] /\ k <= j)
  BY <1>3, <1>4
<1> QED BY <1>5 DEF Lowest

\* The tokens up to k decode to those before, and the bytes of one.
LEMMA DecodePrefix ==
  ASSUME Vocabulary, NEW ids \in Seq(Ids)
  PROVE  /\ Decode(tokens, SubSeq(ids, 1, 0)) = << >>
         /\ \A k \in 1 .. Len(ids) :
              /\ Decode(tokens, SubSeq(ids, 1, k - 1)) \in Seq(Byte)
              /\ Decode(tokens, SubSeq(ids, 1, k))
                   = Decode(tokens, SubSeq(ids, 1, k - 1)) \o tokens[ids[k]].bytes
         /\ Decode(tokens, SubSeq(ids, 1, Len(ids))) = Decode(tokens, ids)
<1>1. Len(ids) \in Nat BY LenProperties
<1>2. SubSeq(ids, 1, 0) = << >> BY <1>1, EmptySeq, SubSeqProperties
<1>3. SubSeq(ids, 1, Len(ids)) = ids
  <2>1. /\ SubSeq(ids, 1, Len(ids)) \in Seq(Ids) /\ Len(SubSeq(ids, 1, Len(ids))) = Len(ids)
        /\ \A i \in 1 .. Len(ids) : SubSeq(ids, 1, Len(ids))[i] = ids[i]
    BY <1>1, SubSeqProperties
  <2> QED BY <2>1, SeqEqual
<1>4. ASSUME NEW k \in 1 .. Len(ids)
      PROVE  /\ Decode(tokens, SubSeq(ids, 1, k - 1)) \in Seq(Byte)
             /\ Decode(tokens, SubSeq(ids, 1, k))
                  = Decode(tokens, SubSeq(ids, 1, k - 1)) \o tokens[ids[k]].bytes
  <2> DEFINE s == SubSeq(ids, 1, k - 1)
             t == SubSeq(ids, 1, k)
  <2>1. /\ s \in Seq(Ids) /\ Len(s) = k - 1 /\ \A i \in 1 .. k - 1 : s[i] = ids[i]
        /\ t \in Seq(Ids) /\ Len(t) = k /\ \A i \in 1 .. k : t[i] = ids[i]
    BY <1>1, SubSeqProperties
  <2>2. ids[k] \in Ids BY <1>1, ElementOfSeq
  <2> HIDE DEF s, t
  <2>3. /\ Append(s, ids[k]) \in Seq(Ids) /\ Len(Append(s, ids[k])) = Len(s) + 1
        /\ \A i \in 1 .. Len(s) : Append(s, ids[k])[i] = s[i]
        /\ Append(s, ids[k])[Len(s) + 1] = ids[k]
    BY <2>1, <2>2, AppendProperties
  <2>4. \A i \in 1 .. k : t[i] = Append(s, ids[k])[i]
    <3> TAKE i \in 1 .. k
    <3>1. CASE i = k BY <2>1, <2>3, <3>1
    <3>2. CASE i # k BY <2>1, <2>3, <3>2
    <3> QED BY <3>1, <3>2
  <2>5. t = Append(s, ids[k]) BY <2>1, <2>3, <2>4, SeqEqual
  <2>6. Decode(tokens, s) \in Seq(Byte)
        /\ Decode(tokens, Append(s, ids[k])) = Decode(tokens, s) \o tokens[ids[k]].bytes
    BY <2>1, <2>2, DecodeAppend
  <2> QED BY <2>5, <2>6 DEF s, t
<1>5. Decode(tokens, << >>) = << >>
  <2>1. << >> \in Seq(Ids) BY EmptySeq
  <2>2. 1 \in Byte BY DEF Byte
  <2>3. 1 \in Ids BY <2>2 DEF Vocabulary
  <2> QED BY <2>1, <2>3, DecodeAppend
<1> QED BY <1>2, <1>3, <1>4, <1>5

\* The bytes of a text are tokens, which decode to the text.
LEMMA StartSound ==
  ASSUME Vocabulary, NEW w \in Seq(Byte) \ {<< >>}
  PROVE  Encoding(Start(tokens, w), w)
<1>1. Len(w) \in Nat \ {0} /\ DOMAIN w = 1 .. Len(w) /\ \A i \in 1 .. Len(w) : w[i] \in Byte
  BY EmptySeq, LenProperties, ElementOfSeq
<1>2. w \in Seq(Ids) /\ w # << >>
  <2>1. Byte \subseteq Ids BY DEF Vocabulary
  <2>2. w \in [1 .. Len(w) -> Ids] BY <1>1, <2>1
  <2> QED BY <1>1, <2>2, SeqDef
<1> DEFINE good(k) == Decode(tokens, SubSeq(w, 1, k)) = SubSeq(w, 1, k)
           bad == {k \in 0 .. Len(w) : ~ good(k)}
<1>3. bad = {}
  <2>1. SUFFICES ASSUME bad # {} PROVE FALSE OBVIOUS
  <2>2. bad \subseteq Nat BY <1>1
  <2>3. PICK k \in bad : \A j \in bad : k <= j BY <2>1, <2>2, LeastElement
  <2>4. k # 0
    <3>1. SubSeq(w, 1, 0) = << >> BY SubSeqEmpty
    <3>2. Decode(tokens, SubSeq(w, 1, 0)) = << >> BY <1>2, DecodePrefix
    <3> QED BY <2>3, <3>1, <3>2
  <2>5. k \in 1 .. Len(w) /\ k - 1 \in 0 .. Len(w) BY <1>1, <2>3, <2>4
  <2>6. good(k - 1)
    <3>1. k - 1 \notin bad BY <1>1, <2>2, <2>3
    <3> QED BY <2>5, <3>1
  <2>7. tokens[w[k]].bytes = << w[k] >>
    <3>1. tokens[w[k]] = ByteTokens[w[k]] BY <1>1, <2>5 DEF Vocabulary
    <3> QED BY <1>1, <2>5, <3>1 DEF ByteTokens
  <2>8. Decode(tokens, SubSeq(w, 1, k)) = SubSeq(w, 1, k - 1) \o << w[k] >>
    <3>1. Decode(tokens, SubSeq(w, 1, k))
            = Decode(tokens, SubSeq(w, 1, k - 1)) \o tokens[w[k]].bytes
      BY <1>2, <2>5, DecodePrefix
    <3> QED BY <2>6, <2>7, <3>1
  <2>9. SubSeq(w, 1, k) = SubSeq(w, 1, k - 1) \o << w[k] >>
    <3>1. 1 \in 1 .. Len(w) /\ k \in 1 .. Len(w) BY <1>1, <2>5
    <3> QED BY <3>1, SubSeqRecursiveSecond
  <2> QED BY <2>3, <2>8, <2>9
<1>4. good(Len(w))
  <2>1. Len(w) \in 0 .. Len(w) /\ Len(w) \notin bad BY <1>1, <1>3
  <2> QED BY <2>1
<1>5. Decode(tokens, w) = w
  <2>1. SubSeq(w, 1, Len(w)) = w BY SubSeqFull
  <2> QED BY <1>4, <2>1
<1> QED BY <1>2, <1>5 DEF Encoding, Ranked, Start

\* What is left when the tokens at i and i + 1 become one.
Folded(parts, i, id) == RemoveAt([parts EXCEPT ![i] = id], i + 1)

\* One element less.
LEMMA RemoveAtIs ==
  ASSUME NEW S, NEW s \in Seq(S), NEW i \in 1 .. Len(s)
  PROVE  /\ RemoveAt(s, i) \in Seq(S) /\ Len(RemoveAt(s, i)) = Len(s) - 1
         /\ \A j \in 1 .. Len(s) - 1 : RemoveAt(s, i)[j] = IF j < i THEN s[j] ELSE s[j + 1]
<1> DEFINE a == SubSeq(s, 1, i - 1)
           b == SubSeq(s, i + 1, Len(s))
<1>1. Len(s) \in Nat /\ i \in Int /\ \A j \in 1 .. Len(s) : s[j] \in S
  BY LenProperties, ElementOfSeq
<1>2. a \in Seq(S) /\ Len(a) = i - 1 /\ \A j \in 1 .. i - 1 : a[j] = s[j]
  <2>1. \A j \in 1 .. i - 1 : s[j] \in S BY <1>1
  <2> QED BY <1>1, <2>1, SubSeqProperties
<1>3. b \in Seq(S) /\ Len(b) = Len(s) - i /\ \A j \in 1 .. Len(s) - i : b[j] = s[i + j]
  <2>1. \A j \in i + 1 .. Len(s) : s[j] \in S BY <1>1
  <2>2. /\ b \in Seq(S) /\ Len(b) = IF i + 1 <= Len(s) THEN Len(s) - (i + 1) + 1 ELSE 0
        /\ \A j \in 1 .. Len(s) - (i + 1) + 1 : b[j] = s[(i + 1) + j - 1]
    BY <1>1, <2>1, SubSeqProperties
  <2> QED BY <1>1, <2>2
<1> HIDE DEF a, b
<1>4. /\ a \o b \in Seq(S) /\ Len(a \o b) = Len(a) + Len(b)
      /\ \A j \in 1 .. Len(a) + Len(b) : (a \o b)[j] = IF j <= Len(a) THEN a[j] ELSE b[j - Len(a)]
  BY <1>2, <1>3, ConcatProperties
<1>5. RemoveAt(s, i) = a \o b BY DEF RemoveAt, a, b
<1>6. ASSUME NEW j \in 1 .. Len(s) - 1
      PROVE  (a \o b)[j] = IF j < i THEN s[j] ELSE s[j + 1]
  <2>1. CASE j < i BY <1>1, <1>2, <1>3, <1>4, <2>1
  <2>2. CASE ~ (j < i)
    <3>1. j - Len(a) \in 1 .. Len(s) - i /\ i + (j - Len(a)) = j + 1 BY <1>1, <1>2, <2>2
    <3>2. (a \o b)[j] = b[j - Len(a)] BY <1>1, <1>2, <1>3, <1>4, <2>2
    <3> QED BY <1>3, <2>2, <3>1, <3>2
  <2> QED BY <2>1, <2>2
<1>7. Len(a) + Len(b) = Len(s) - 1 BY <1>1, <1>2, <1>3
<1> QED BY <1>4, <1>5, <1>6, <1>7

\* The tokens up to the merged one, it, and those from the next but one on.
LEMMA FoldedIs ==
  ASSUME NEW parts \in Seq(Ids), NEW i \in 1 .. Len(parts) - 1, NEW id \in Ids
  PROVE  /\ Folded(parts, i, id) \in Seq(Ids) /\ Len(Folded(parts, i, id)) = Len(parts) - 1
         /\ \A j \in 1 .. Len(parts) - 1 : Folded(parts, i, id)[j] =
              IF j < i THEN parts[j] ELSE IF j = i THEN id ELSE parts[j + 1]
<1> DEFINE s == [parts EXCEPT ![i] = id]
<1>1. /\ Len(parts) \in Nat /\ DOMAIN parts = 1 .. Len(parts)
      /\ \A j \in 1 .. Len(parts) : parts[j] \in Ids
  BY LenProperties, ElementOfSeq
<1>2. s \in Seq(Ids) /\ Len(s) = Len(parts)
  <2>1. s \in [1 .. Len(parts) -> Ids] BY <1>1
  <2> QED BY <1>1, <2>1, SeqDef, LenProperties
<1>3. \A j \in 1 .. Len(parts) : s[j] = IF j = i THEN id ELSE parts[j] BY <1>1
<1> HIDE DEF s
<1>4. i + 1 \in 1 .. Len(s) BY <1>1, <1>2
<1>5. /\ RemoveAt(s, i + 1) \in Seq(Ids) /\ Len(RemoveAt(s, i + 1)) = Len(parts) - 1
      /\ \A j \in 1 .. Len(parts) - 1 :
           RemoveAt(s, i + 1)[j] = IF j < i + 1 THEN s[j] ELSE s[j + 1]
  BY <1>2, <1>4, RemoveAtIs
<1>6. Folded(parts, i, id) = RemoveAt(s, i + 1) BY DEF Folded, s
<1>7. ASSUME NEW j \in 1 .. Len(parts) - 1
      PROVE  Folded(parts, i, id)[j] =
               IF j < i THEN parts[j] ELSE IF j = i THEN id ELSE parts[j + 1]
  <2>1. CASE j < i + 1 BY <1>1, <1>3, <1>5, <1>6, <2>1
  <2>2. CASE ~ (j < i + 1)
    <3>1. j + 1 \in 1 .. Len(parts) /\ j + 1 # i BY <1>1, <2>2
    <3> QED BY <1>1, <1>3, <1>5, <1>6, <2>2, <3>1
  <2> QED BY <2>1, <2>2
<1> QED BY <1>5, <1>6, <1>7

\* Two tokens replaced by one of their bytes: the same is decoded.
LEMMA FoldedDecodes ==
  ASSUME Vocabulary, NEW parts \in Seq(Ids), NEW i \in 1 .. Len(parts) - 1, NEW id \in Ids,
         tokens[id].bytes = tokens[parts[i]].bytes \o tokens[parts[i + 1]].bytes
  PROVE  Decode(tokens, Folded(parts, i, id)) = Decode(tokens, parts)
<1> DEFINE left == Folded(parts, i, id)
           D(s, k) == Decode(tokens, SubSeq(s, 1, k))
           B(k) == tokens[k].bytes
<1>1. Len(parts) \in Nat /\ \A j \in 1 .. Len(parts) : parts[j] \in Ids
  BY LenProperties, ElementOfSeq
<1>2. /\ left \in Seq(Ids) /\ Len(left) = Len(parts) - 1
      /\ \A j \in 1 .. Len(parts) - 1 :
           left[j] = IF j < i THEN parts[j] ELSE IF j = i THEN id ELSE parts[j + 1]
  <2>1. /\ Folded(parts, i, id) \in Seq(Ids) /\ Len(Folded(parts, i, id)) = Len(parts) - 1
        /\ \A j \in 1 .. Len(parts) - 1 : Folded(parts, i, id)[j] =
             IF j < i THEN parts[j] ELSE IF j = i THEN id ELSE parts[j + 1]
    BY FoldedIs
  <2> QED BY <2>1
<1> HIDE DEF left
<1>3. /\ D(parts, 0) = << >> /\ D(left, 0) = << >>
      /\ \A k \in 1 .. Len(parts) : /\ D(parts, k - 1) \in Seq(Byte)
                                   /\ D(parts, k) = D(parts, k - 1) \o B(parts[k])
      /\ \A k \in 1 .. Len(parts) - 1 : D(left, k) = D(left, k - 1) \o B(left[k])
      /\ D(parts, Len(parts)) = Decode(tokens, parts)
      /\ D(left, Len(parts) - 1) = Decode(tokens, left)
  BY <1>2, DecodePrefix
<1>4. \A k \in Ids : B(k) \in Seq(Byte) BY BytesAre
<1> HIDE DEF D, B
<1> DEFINE good(k) == D(left, k) = IF k < i THEN D(parts, k) ELSE D(parts, k + 1)
           bad == {k \in 0 .. Len(parts) - 1 : ~ good(k)}
<1>5. bad = {}
  <2>1. SUFFICES ASSUME bad # {} PROVE FALSE OBVIOUS
  <2>2. bad \subseteq Nat BY <1>1
  <2>3. PICK k \in bad : \A j \in bad : k <= j BY <2>1, <2>2, LeastElement
  <2>4. k # 0 BY <1>1, <1>3, <2>3
  <2>5. k \in 1 .. Len(parts) - 1 /\ k - 1 \in 0 .. Len(parts) - 1 /\ k - 1 \notin bad
    BY <1>1, <2>2, <2>3, <2>4
  <2>6. good(k - 1) BY <2>5
  <2>0. k \in 1 .. Len(parts) /\ k + 1 \in 1 .. Len(parts) /\ (k + 1) - 1 = k BY <1>1, <2>5
  <2>7. D(left, k) = D(left, k - 1) \o B(left[k]) BY <1>3, <2>5
  <2>8. CASE k < i
    <3>1. D(left, k - 1) = D(parts, k - 1) /\ left[k] = parts[k] BY <1>1, <1>2, <2>5, <2>6, <2>8
    <3>2. D(parts, k) = D(parts, k - 1) \o B(parts[k]) BY <1>3, <2>0
    <3> QED BY <2>3, <2>7, <2>8, <3>1, <3>2
  <2>9. CASE k = i
    <3>1. D(left, k - 1) = D(parts, k - 1) /\ left[k] = id BY <1>1, <1>2, <2>5, <2>6, <2>9
    <3>2. D(parts, k) = D(parts, k - 1) \o B(parts[k]) /\ D(parts, k - 1) \in Seq(Byte)
      BY <1>3, <2>0
    <3>3. D(parts, k + 1) = D(parts, k) \o B(parts[k + 1]) BY <1>3, <2>0
    <3>4. B(id) = B(parts[k]) \o B(parts[k + 1]) BY <2>9 DEF B
    <3>5. B(parts[k]) \in Seq(Byte) /\ B(parts[k + 1]) \in Seq(Byte) BY <1>1, <1>4, <2>0
    <3>6. D(parts, k - 1) \o (B(parts[k]) \o B(parts[k + 1]))
            = (D(parts, k - 1) \o B(parts[k])) \o B(parts[k + 1])
      <4> DEFINE x == D(parts, k - 1)
                 y == B(parts[k])
                 z == B(parts[k + 1])
      <4>1. x \in Seq(Byte) /\ y \in Seq(Byte) /\ z \in Seq(Byte) BY <3>2, <3>5
      <4> HIDE DEF x, y, z
      <4>2. (x \o y) \o z = x \o (y \o z) BY <4>1, ConcatAssociative
      <4> QED BY <4>2 DEF x, y, z
    <3>7. D(left, k) = D(parts, k - 1) \o (B(parts[k]) \o B(parts[k + 1])) BY <2>7, <3>1, <3>4
    <3>8. D(left, k) = D(parts, k + 1) BY <3>2, <3>3, <3>6, <3>7
    <3>9. ~ (k < i) BY <1>1, <2>9
    <3> QED BY <2>3, <3>8, <3>9
  <2>10. CASE k > i
    <3>1. D(left, k - 1) = D(parts, (k - 1) + 1) /\ (k - 1) + 1 = k BY <1>1, <2>5, <2>6, <2>10
    <3>2. left[k] = parts[k + 1] BY <1>1, <1>2, <2>5, <2>10
    <3>3. D(parts, k + 1) = D(parts, k) \o B(parts[k + 1]) BY <1>3, <2>0
    <3> QED BY <2>3, <2>7, <2>10, <3>1, <3>2, <3>3
  <2> QED BY <1>1, <2>5, <2>8, <2>9, <2>10
<1>6. good(Len(parts) - 1)
  <2>1. Len(parts) - 1 \in 0 .. Len(parts) - 1 BY <1>1
  <2> QED BY <1>5, <2>1
<1>7. ~ (Len(parts) - 1 < i) /\ (Len(parts) - 1) + 1 = Len(parts) BY <1>1
<1> QED BY <1>3, <1>6, <1>7 DEF left

\* The ranks that are kept.
LEMMA RankedParts ==
  ASSUME Vocabulary, NEW e, Ranked(e)
  PROVE  /\ e.parts \in Seq(Ids) /\ Len(e.parts) \in Nat \ {0}
         /\ e.ranks \in Seq(Nat) /\ Len(e.ranks) = Len(e.parts)
         /\ DOMAIN e.ranks = 1 .. Len(e.parts)
         /\ \A j \in 1 .. Len(e.parts) : e.ranks[j] = Rank(tokens, e.parts, j)
<1>1. e.parts \in Seq(Ids) /\ e.parts # << >> BY DEF Ranked
<1>2. Len(e.parts) \in Nat \ {0} /\ DOMAIN e.parts = 1 .. Len(e.parts)
  BY <1>1, EmptySeq, LenProperties
<1>3. e.ranks = [j \in DOMAIN e.parts |-> Rank(tokens, e.parts, j)] BY DEF Ranked
<1>4. \A j \in 1 .. Len(e.parts) : e.ranks[j] = Rank(tokens, e.parts, j) /\ e.ranks[j] \in Nat
  <2> TAKE j \in 1 .. Len(e.parts)
  <2>1. e.ranks[j] = Rank(tokens, e.parts, j) BY <1>2, <1>3
  <2>2. Rank(tokens, e.parts, j) \in Nat BY <1>1, RankIs
  <2> QED BY <2>1, <2>2
<1>5. e.ranks \in Seq(Nat) /\ Len(e.ranks) = Len(e.parts)
  <2>1. e.ranks \in [1 .. Len(e.parts) -> Nat] BY <1>2, <1>3, <1>4
  <2> QED BY <1>2, <2>1, SeqDef, LenProperties
<1> QED BY <1>1, <1>2, <1>3, <1>4, <1>5

\* Only the ranks of the merged token and of the one before it can change.
LEMMA RanksStay ==
  ASSUME Vocabulary, NEW e, Ranked(e), NEW i \in 1 .. Len(e.parts) - 1, NEW id \in Ids,
         NEW left, left = Folded(e.parts, i, id)
  PROVE  Ranked([parts |-> left, ranks |-> RanksAfter(tokens, left, RemoveAt(e.ranks, i + 1), i)])
<1>0. PICK parts, ranks : parts = e.parts /\ ranks = e.ranks OBVIOUS
<1> DEFINE kept == RemoveAt(ranks, i + 1)
<1>1. /\ parts \in Seq(Ids) /\ Len(parts) \in Nat \ {0}
      /\ ranks \in Seq(Nat) /\ Len(ranks) = Len(parts)
      /\ \A j \in 1 .. Len(parts) : ranks[j] = Rank(tokens, parts, j)
  BY <1>0, RankedParts
<1>2. i \in 1 .. Len(parts) - 1 /\ left = Folded(parts, i, id) BY <1>0
<1>3. /\ left \in Seq(Ids) /\ Len(left) = Len(parts) - 1
      /\ \A j \in 1 .. Len(parts) - 1 :
           left[j] = IF j < i THEN parts[j] ELSE IF j = i THEN id ELSE parts[j + 1]
  <2>1. parts \in Seq(Ids) /\ i \in 1 .. Len(parts) - 1 /\ id \in Ids BY <1>1, <1>2
  <2>2. /\ Folded(parts, i, id) \in Seq(Ids) /\ Len(Folded(parts, i, id)) = Len(parts) - 1
        /\ \A j \in 1 .. Len(parts) - 1 : Folded(parts, i, id)[j] =
             IF j < i THEN parts[j] ELSE IF j = i THEN id ELSE parts[j + 1]
    <3>1. Folded(parts, i, id) \in Seq(Ids) BY <2>1, FoldedIs
    <3>2. Len(Folded(parts, i, id)) = Len(parts) - 1 BY <2>1, FoldedIs
    <3>3. \A j \in 1 .. Len(parts) - 1 : Folded(parts, i, id)[j] =
             IF j < i THEN parts[j] ELSE IF j = i THEN id ELSE parts[j + 1] BY <2>1, FoldedIs
    <3> QED BY <3>1, <3>2, <3>3
  <2> QED BY <1>2, <2>2
<1>4. DOMAIN left = 1 .. Len(parts) - 1 /\ left # << >> BY <1>1, <1>2, <1>3, EmptySeq, LenProperties
<1>5. \A j \in 1 .. Len(parts) - 1 : kept[j] = IF j < i + 1 THEN ranks[j] ELSE ranks[j + 1]
  <2>1. i + 1 \in 1 .. Len(ranks) BY <1>1, <1>2
  <2>2. \A j \in 1 .. Len(ranks) - 1 :
          RemoveAt(ranks, i + 1)[j] = IF j < i + 1 THEN ranks[j] ELSE ranks[j + 1]
    BY <1>1, <2>1, RemoveAtIs
  <2> QED BY <1>1, <2>2
<1> HIDE DEF kept
<1>6. ASSUME NEW j \in 1 .. Len(parts) - 1, j \notin {i - 1, i}
      PROVE  kept[j] = Rank(tokens, left, j)
  <2>0. j \in Int /\ i \in Int BY <1>1, <1>2
  <2>1. CASE j < i
    <3>1. /\ j \in 1 .. Len(parts) /\ j < Len(parts) /\ j < Len(left) /\ j < i + 1
          /\ j + 1 \in 1 .. Len(parts) - 1 /\ j + 1 < i
      BY <1>1, <1>2, <1>3, <1>6, <2>0, <2>1
    <3>2. left[j] = parts[j] /\ left[j + 1] = parts[j + 1] BY <1>3, <2>1, <3>1
    <3>3. kept[j] = ranks[j] BY <1>5, <3>1
    <3>4. kept[j] = Rank(tokens, parts, j) BY <1>1, <3>1, <3>3
    <3> QED BY <3>1, <3>2, <3>4 DEF Rank
  <2>2. CASE j > i
    <3>1. /\ j + 1 \in 1 .. Len(parts) /\ (j + 1 < Len(parts) <=> j < Len(left))
          /\ ~ (j < i) /\ j # i /\ ~ (j < i + 1)
      BY <1>1, <1>3, <2>0, <2>2
    <3>2. left[j] = parts[j + 1] BY <1>3, <3>1
    <3>3. kept[j] = ranks[j + 1] BY <1>5, <3>1
    <3>4. kept[j] = Rank(tokens, parts, j + 1) BY <1>1, <3>1, <3>3
    <3>5. ASSUME j < Len(left) PROVE left[j + 1] = parts[(j + 1) + 1]
      <4>1. j + 1 \in 1 .. Len(parts) - 1 /\ ~ (j + 1 < i) /\ j + 1 # i
        BY <1>1, <1>3, <2>0, <2>2, <3>5
      <4> QED BY <1>3, <4>1
    <3> QED BY <3>1, <3>2, <3>4, <3>5 DEF Rank, NoRank
  <2> QED BY <1>6, <2>0, <2>1, <2>2
<1>7. RanksAfter(tokens, left, kept, i) = [j \in DOMAIN left |-> Rank(tokens, left, j)]
  BY <1>4, <1>6 DEF RanksAfter
<1> QED BY <1>0, <1>3, <1>4, <1>7 DEF Ranked, kept

\* A turn of the loop of gd_encode_piece.
LEMMA MergeLowestSound ==
  ASSUME Vocabulary, NEW e, NEW w, Encoding(e, w)
  PROVE  Encoding(MergeLowest(tokens, e), w)
<1> DEFINE i == Lowest(e)
           id == e.ranks[i]
           left == Folded(e.parts, i, id)
<1>1. Ranked(e) /\ Decode(tokens, e.parts) = w BY DEF Encoding
<1>2. /\ e.parts \in Seq(Ids) /\ Len(e.parts) \in Nat \ {0}
      /\ e.ranks \in Seq(Nat) /\ Len(e.ranks) = Len(e.parts)
      /\ DOMAIN e.ranks = 1 .. Len(e.parts)
      /\ \A j \in 1 .. Len(e.parts) : e.ranks[j] = Rank(tokens, e.parts, j)
  BY <1>1, RankedParts
<1>3. i \in 1 .. Len(e.parts)
  <2>1. 1 \in 1 .. Len(e.parts) /\ 1 .. Len(e.parts) \subseteq Nat BY <1>2
  <2>2. \A j \in DOMAIN e.ranks : e.ranks[j] \in Nat BY <1>2, ElementOfSeq
  <2>3. Lowest(e) \in DOMAIN e.ranks BY <1>2, <2>1, <2>2, LowestIs
  <2> QED BY <1>2, <2>3
<1>4. CASE id = NoRank(tokens)
  <2>1. MergeLowest(tokens, e) = e BY <1>4 DEF MergeLowest
  <2> QED BY <2>1
<1>5. CASE id # NoRank(tokens)
  <2> DEFINE after == RanksAfter(tokens, left, RemoveAt(e.ranks, i + 1), i)
  <2>1. MergeLowest(tokens, e) = [parts |-> left, ranks |-> after] BY <1>5 DEF MergeLowest, Folded
  <2> HIDE DEF i
  <2>2. id = Rank(tokens, e.parts, i) BY <1>2, <1>3
  <2>3. /\ i < Len(e.parts) /\ id \in Ids
        /\ tokens[id].bytes = tokens[e.parts[i]].bytes \o tokens[e.parts[i + 1]].bytes
    BY <1>2, <1>3, <1>5, <2>2, RankIs
  <2>4. i \in 1 .. Len(e.parts) - 1 BY <1>2, <1>3, <2>3
  <2> HIDE DEF id
  <2>5. Decode(tokens, left) = w BY <1>1, <1>2, <2>3, <2>4, FoldedDecodes
  <2>6. left = Folded(e.parts, i, id) OBVIOUS
  <2> HIDE DEF left
  <2>7. Ranked([parts |-> left, ranks |-> after]) BY <1>1, <2>3, <2>4, <2>6, RanksStay
  <2> HIDE DEF after
  <2> QED BY <2>1, <2>5, <2>7 DEF Encoding
<1> QED BY <1>4, <1>5

\* The loop, which is a recursive function.
EncodeLoop(f, w, m) ==
  f = [n \in 0 .. m |-> IF n = 0 THEN Start(tokens, w) ELSE MergeLowest(tokens, f[n - 1])]

\* The equation of the loop has a solution ...
LEMMA EncodeLoopExists == ASSUME NEW w, NEW m \in Nat PROVE \E f : EncodeLoop(f, w, m)
<1> DEFINE bad == {k \in Nat : ~ \E f : EncodeLoop(f, w, k)}
<1>1. SUFFICES ASSUME bad # {} PROVE FALSE OBVIOUS
<1>2. PICK k \in bad : \A j \in bad : k <= j BY <1>1, LeastElement
<1>3. CASE k = 0
  <2> DEFINE f == [n \in 0 .. 0 |-> Start(tokens, w)]
  <2>1. EncodeLoop(f, w, 0) BY DEF EncodeLoop
  <2> QED BY <1>2, <1>3, <2>1
<1>4. CASE k # 0
  <2>1. k - 1 \in Nat /\ k - 1 \notin bad BY <1>2, <1>4
  <2>2. PICK g : EncodeLoop(g, w, k - 1) BY <2>1
  <2> DEFINE f == [n \in 0 .. k |->
                    IF n = 0 THEN Start(tokens, w) ELSE MergeLowest(tokens, g[n - 1])]
  <2>3. ASSUME NEW n \in 1 .. k PROVE f[n - 1] = g[n - 1]
    <3>1. n - 1 \in 0 .. k - 1 /\ n - 1 \in 0 .. k BY <2>1
    <3>2. g[n - 1] = IF n - 1 = 0 THEN Start(tokens, w) ELSE MergeLowest(tokens, g[(n - 1) - 1])
      BY <2>2, <3>1 DEF EncodeLoop
    <3> QED BY <3>1, <3>2
  <2>4. ASSUME NEW n \in 0 .. k
        PROVE  f[n] = IF n = 0 THEN Start(tokens, w) ELSE MergeLowest(tokens, f[n - 1])
    <3>1. CASE n = 0 BY <3>1
    <3>2. CASE n # 0
      <4>1. n \in 1 .. k BY <3>2
      <4>2. f[n] = MergeLowest(tokens, g[n - 1]) BY <3>2
      <4> QED BY <2>3, <3>2, <4>1, <4>2
    <3> QED BY <3>1, <3>2
  <2>5. f = [n \in 0 .. k |-> f[n]] OBVIOUS
  <2> HIDE DEF f
  <2>6. EncodeLoop(f, w, k) BY <2>4, <2>5 DEF EncodeLoop
  <2> QED BY <1>2, <2>6
<1> QED BY <1>3, <1>4

\* ... and each turn leaves parts that decode to the text.
LEMMA MergedPartsDecode ==
  ASSUME Vocabulary, NEW w \in Seq(Byte) \ {<< >>}
  PROVE  Decode(tokens, MergedParts(tokens, w)) = w
<1> DEFINE f == CHOOSE f : f = [n \in 0 .. Len(w) |->
                  IF n = 0 THEN Start(tokens, w) ELSE MergeLowest(tokens, f[n - 1])]
<1>0. Len(w) \in Nat BY LenProperties
<1>1. \E g : g = [n \in 0 .. Len(w) |->
                  IF n = 0 THEN Start(tokens, w) ELSE MergeLowest(tokens, g[n - 1])]
  <2>1. \E g : EncodeLoop(g, w, Len(w)) BY <1>0, EncodeLoopExists
  <2> QED BY <2>1, Zenon DEF EncodeLoop
<1>2. EncodeLoop(f, w, Len(w)) BY <1>1, Zenon DEF EncodeLoop
<1>3. MergedParts(tokens, w) = f[Len(w)].parts BY Zenon DEF MergedParts
<1> HIDE DEF f
<1> DEFINE bad == {n \in 0 .. Len(w) : ~ Encoding(f[n], w)}
<1>4. bad = {}
  <2>1. SUFFICES ASSUME bad # {} PROVE FALSE OBVIOUS
  <2>2. bad \subseteq Nat BY <1>0
  <2>3. PICK n \in bad : \A k \in bad : n <= k BY <2>1, <2>2, LeastElement
  <2>4. f[n] = IF n = 0 THEN Start(tokens, w) ELSE MergeLowest(tokens, f[n - 1])
    BY <1>2, <2>3 DEF EncodeLoop
  <2>5. CASE n = 0 BY <2>3, <2>4, <2>5, StartSound
  <2>6. CASE n # 0
    <3>1. n - 1 \in 0 .. Len(w) /\ n - 1 \notin bad BY <1>0, <2>2, <2>3, <2>6
    <3>2. Encoding(f[n - 1], w) BY <3>1
    <3>3. Encoding(MergeLowest(tokens, f[n - 1]), w) BY <3>2, MergeLowestSound
    <3> QED BY <2>3, <2>4, <2>6, <3>3
  <2> QED BY <2>5, <2>6
<1>5. Len(w) \in 0 .. Len(w) /\ Len(w) \notin bad BY <1>0, <1>4
<1>6. Encoding(f[Len(w)], w) BY <1>5
<1> QED BY <1>3, <1>6 DEF Encoding

\* So does a text that is a token.
LEMMA EncodeDecodes ==
  ASSUME Vocabulary, NEW w \in Seq(Byte) \ {<< >>}
  PROVE  Decode(tokens, Encode(tokens, w)) = w
<1>1. CASE WithBytes(tokens, w) = {}
  <2>1. Encode(tokens, w) = MergedParts(tokens, w) BY <1>1 DEF Encode
  <2> QED BY <2>1, MergedPartsDecode
<1>2. CASE WithBytes(tokens, w) # {}
  <2> DEFINE id == CHOOSE id \in WithBytes(tokens, w) : TRUE
  <2>1. Encode(tokens, w) = << id >> BY <1>2 DEF Encode
  <2>2. id \in WithBytes(tokens, w) BY <1>2
  <2> HIDE DEF id
  <2>3. id \in Ids /\ tokens[id].bytes = w BY <2>2 DEF WithBytes, Ids
  <2>4. << >> \in Seq(Ids) /\ Append(<< >>, id) = << id >> BY <2>3
  <2>5. Decode(tokens, << id >>) = Decode(tokens, << >>) \o tokens[id].bytes
        /\ Decode(tokens, << >>) = << >>
    BY <2>3, <2>4, DecodeAppend
  <2>6. << >> \o w = w BY ConcatProperties, EmptySeq, SeqEqual
  <2> QED BY <2>1, <2>3, <2>5, <2>6
<1> QED BY <1>1, <1>2

\* A trained tokenizer decodes what it encodes to the same text: the ranks that
\* gd_encode_piece keeps between merges are never out of date.
THEOREM AlwaysRoundTrip == Spec => []RoundTrip
<1>1. TrainerInv => RoundTrip
  <2> SUFFICES ASSUME TrainerInv, phase = "trained", NEW w \in Texts
               PROVE  Decode(tokens, Encode(tokens, w)) = w
    BY DEF RoundTrip
  <2>1. Vocabulary BY DEF TrainerInv
  <2>2. w \in Seq(Byte) \ {<< >>} BY DEF BpeTrainerAssumption
  <2> QED BY <2>1, <2>2, EncodeDecodes
<1> QED BY <1>1, TrainerInvariant, PTL

----------------------------------------------------------------------------
(* Segmentations: the nodes of the words and, in the middle of a merge,    *)
(* those that were there before it.                                        *)

Size(id) == Len(tokens[id].bytes)

\* A segmentation is a function from the positions of nodes to tokens.
Syms == [n \in DOMAIN nodes |-> nodes[n].sym]

\* One of its nodes ends k bytes after n begins.
EndsAt(f, n, k) == n[2] + k = Len(n[1]) + 1 \/ <<n[1], n[2] + k>> \in DOMAIN f

\* The same k bytes are at m and at n.
Alike(m, n, k) ==
  /\ m[2] + k <= Len(m[1]) + 1 /\ n[2] + k <= Len(n[1]) + 1
  /\ \A j \in 0 .. k - 1 : m[1][m[2] + j] = n[1][n[2] + j]

\* Like bytes between nodes begin with the same token.
Uniform(f) ==
  \A m, n \in DOMAIN f : \A k \in 1 .. Len(m[1]) :
    Alike(m, n, k) /\ EndsAt(f, m, k) /\ EndsAt(f, n, k) => f[m] = f[n]

\* The bytes of a token are at n.
Reads(n, id) ==
  /\ n[2] + Len(tokens[id].bytes) <= Len(n[1]) + 1
  /\ \A j \in 1 .. Len(tokens[id].bytes) : n[1][n[2] + j - 1] = tokens[id].bytes[j]

\* Each node is a token, has its bytes, and the next node is behind them.
Chain(f) ==
  \A n \in DOMAIN f :
    /\ n \in Position /\ f[n] \in Ids /\ Reads(n, f[n]) /\ EndsAt(f, n, Size(f[n]))
    /\ \A k \in 1 .. Size(f[n]) - 1 : <<n[1], n[2] + k>> \notin DOMAIN f

\* The bytes of a token between nodes are that token.
Whole(id) ==
  \A n \in DOMAIN nodes :
    Reads(n, id) /\ EndsAt(Syms, n, Len(tokens[id].bytes)) => nodes[n].sym = id

\* The order of a list in each word.
Down(s) == \A i, j \in DOMAIN s : i < j /\ s[i][1] = s[j][1] => s[j][2] <= s[i][2]
Up(s) == \A i, j \in DOMAIN s : i < j /\ s[i][1] = s[j][1] => s[i][2] <= s[j][2]

Directed(p) == Down(pairs[p].occs) \/ Up(pairs[p].occs)

\* The nodes merged so far, and the segmentation there was before.
Merged == {n \in DOMAIN nodes : nodes[n].sym = job.merged}
Half(n) == <<n[1], n[2] + Len(tokens[job.left].bytes)>>
Unfolded ==
  [n \in DOMAIN nodes \cup {Half(m) : m \in Merged} |->
     IF n \notin DOMAIN nodes THEN job.right ELSE IF n \in Merged THEN job.left ELSE nodes[n].sym]

\* An occurrence there was.
Sample ==
  \E n \in DOMAIN Unfolded : /\ Half(n) \in DOMAIN Unfolded
                             /\ Unfolded[n] = job.left /\ Unfolded[Half(n)] = job.right

NewPairs == {p \in DOMAIN pairs : job.merged \in {p[1], p[2]}}

\* What is still to be visited.
Waiting == {n \in ToSet(job.rest) : OccurrenceValid(n)}

\* Occurrences are merged from the right of a word ...
Descending ==
  /\ Down(job.rest)
  /\ \A m \in Merged : /\ \A r \in Waiting : r[1] = m[1] => r[2] < m[2]
                       /\ job.left = job.right /\ nodes[m].next # NoNode =>
                            nodes[nodes[m].next].sym # job.left
  /\ \A p \in NewPairs : /\ Up(pairs[p].occs)
                         /\ \A f \in ToSet(pairs[p].occs) : \A r \in Waiting :
                              r[1] = f[1] => r[2] <= f[2]

\* ... or from the left.
Ascending ==
  /\ Up(job.rest)
  /\ \A m \in Merged : /\ \A r \in Waiting : r[1] = m[1] => m[2] < r[2]
                       /\ job.left = job.right /\ nodes[m].prev # NoNode =>
                            nodes[nodes[m].prev].sym # job.left
  /\ \A p \in NewPairs : /\ Down(pairs[p].occs)
                         /\ \A f \in ToSet(pairs[p].occs) : \E m \in Merged :
                              m[1] = f[1] /\ f[2] <= m[2]

Settled ==
  /\ Uniform(Syms)
  /\ \A id \in Ids : Whole(id)
  /\ \A p \in DOMAIN pairs : Directed(p)

Settling ==
  /\ job.merged = Len(tokens) /\ WithParts(tokens, job.left, job.right) = {job.merged}
  /\ Chain(Unfolded) /\ Uniform(Unfolded) /\ Sample
  /\ \A id \in Ids \ {job.merged} : Whole(id)
  /\ \A p \in DOMAIN pairs \ NewPairs : Directed(p)
  /\ Descending \/ Ascending

MergeInv ==
  /\ phase = "choosing" => Settled
  /\ phase = "merging" => Settling

----------------------------------------------------------------------------
(* Chains.                                                                 *)

\* The position k bytes further on.
Shifted(n, k) == <<n[1], n[2] + k>>

\* A token has bytes.
LEMMA SizeIs ==
  ASSUME Vocabulary, NEW id \in Ids
  PROVE  Size(id) \in Nat \ {0} /\ DOMAIN tokens[id].bytes = 1 .. Size(id)
BY BytesAre, LenProperties DEF Size

\* A position is a place in a word.
LEMMA AtPosition ==
  ASSUME Words, NEW n \in Position
  PROVE  /\ n = <<n[1], n[2]>> /\ n[1] \in DOMAIN wordMap /\ Len(n[1]) \in Nat
         /\ n[2] \in 1 .. Len(n[1]) /\ n # NoNode
<1>1. n = <<n[1], n[2]>> /\ n[1] \in DOMAIN wordMap /\ n[2] \in DOMAIN n[1] /\ n # NoNode
  BY PositionParts DEF Position
<1>2. n[1] \in Seq(Byte) BY <1>1 DEF Words, Found
<1> QED BY <1>1, <1>2, LenProperties

\* The nodes are a chain.
LEMMA SymsChain == ASSUME Words, Vocabulary, Chained PROVE Chain(Syms)
<1> SUFFICES ASSUME NEW n \in DOMAIN nodes
             PROVE  /\ n \in Position /\ nodes[n].sym \in Ids /\ Reads(n, nodes[n].sym)
                    /\ EndsAt(Syms, n, Size(nodes[n].sym))
                    /\ \A k \in 1 .. Size(nodes[n].sym) - 1 : <<n[1], n[2] + k>> \notin DOMAIN nodes
  BY DEF Chain, Syms
<1>1. /\ n \in Position /\ n[1] \in Seq(Byte) /\ n[2] \in 1 .. Len(n[1]) /\ Len(n[1]) \in Nat
      /\ nodes[n] \in Node /\ Bytes(n) \in Seq(Byte) /\ Len(Bytes(n)) \in Nat \ {0}
      /\ End(n) \in Nat /\ End(n) <= Len(n[1]) + 1
  BY NodeParts
<1>2. Size(nodes[n].sym) = Len(Bytes(n)) /\ End(n) = n[2] + Size(nodes[n].sym)
  BY DEF Size, Bytes, End
<1>3. /\ Bytes(n) = SubSeq(n[1], n[2], End(n) - 1)
      /\ \A k \in n[2] + 1 .. End(n) - 1 : <<n[1], k>> \notin DOMAIN nodes
      /\ nodes[n].next = IF End(n) = Len(n[1]) + 1 THEN NoNode ELSE <<n[1], End(n)>>
  BY DEF Chained, Spelled, WordOf
<1>4. Reads(n, nodes[n].sym)
  <2>1. \A j \in n[2] .. End(n) - 1 : n[1][j] \in Byte
    <3>1. n[2] .. End(n) - 1 \subseteq 1 .. Len(n[1]) BY <1>1
    <3> QED BY <1>1, <3>1, ElementOfSeq
  <2>2. \A j \in 1 .. (End(n) - 1) - n[2] + 1 :
           SubSeq(n[1], n[2], End(n) - 1)[j] = n[1][n[2] + j - 1]
    BY <1>1, <2>1, SubSeqProperties
  <2>3. (End(n) - 1) - n[2] + 1 = Len(Bytes(n)) BY <1>1, <1>2
  <2> QED BY <1>1, <1>2, <1>3, <2>2, <2>3 DEF Reads, Size, Bytes
<1>5. EndsAt(Syms, n, Size(nodes[n].sym))
  <2>1. CASE End(n) = Len(n[1]) + 1 BY <1>2, <2>1 DEF EndsAt
  <2>2. CASE End(n) # Len(n[1]) + 1
    <3>1. nodes[n].next = <<n[1], End(n)>> BY <1>3, <2>2
    <3>2. nodes[n].next # NoNode
      <4>1. n[1] # << >> BY <1>1, EmptySeq
      <4> QED BY <1>1, <3>1 DEF NoNode
    <3>3. <<n[1], End(n)>> \in DOMAIN nodes BY <3>1, <3>2, NextParts
    <3> QED BY <1>2, <3>3 DEF EndsAt, Syms
  <2> QED BY <2>1, <2>2
<1>6. \A k \in 1 .. Size(nodes[n].sym) - 1 : <<n[1], n[2] + k>> \notin DOMAIN nodes
  <2> TAKE k \in 1 .. Size(nodes[n].sym) - 1
  <2>1. n[2] + k \in n[2] + 1 .. End(n) - 1 BY <1>1, <1>2
  <2> QED BY <1>3, <2>1
<1> QED BY <1>1, <1>4, <1>5, <1>6 DEF Node

\* Where a node of a chain ends among others that end.
LEMMA ChainFits ==
  ASSUME Words, Vocabulary, NEW f, Chain(f), NEW n \in DOMAIN f, NEW k \in Nat \ {0},
         EndsAt(f, n, k), n[2] + k <= Len(n[1]) + 1
  PROVE  /\ Size(f[n]) <= k
         /\ Size(f[n]) < k => Shifted(n, Size(f[n])) \in DOMAIN f
<1>1. /\ n \in Position /\ f[n] \in Ids /\ Reads(n, f[n]) /\ EndsAt(f, n, Size(f[n]))
      /\ \A j \in 1 .. Size(f[n]) - 1 : <<n[1], n[2] + j>> \notin DOMAIN f
  BY DEF Chain
<1>2. n[2] \in Nat /\ Len(n[1]) \in Nat /\ Size(f[n]) \in Nat \ {0} BY <1>1, AtPosition, SizeIs
<1>3. n[2] + Size(f[n]) <= Len(n[1]) + 1 BY <1>1 DEF Reads, Size
<1>4. ASSUME k < Size(f[n]) PROVE FALSE
  <2>1. k \in 1 .. Size(f[n]) - 1 BY <1>2, <1>4
  <2>2. n[2] + k = Len(n[1]) + 1 BY <1>1, <2>1 DEF EndsAt
  <2> QED BY <1>2, <1>3, <1>4, <2>2
<1>5. ASSUME Size(f[n]) < k PROVE Shifted(n, Size(f[n])) \in DOMAIN f
  <2>1. n[2] + Size(f[n]) # Len(n[1]) + 1 BY <1>2, <1>5
  <2> QED BY <1>1, <2>1 DEF EndsAt, Shifted
<1> QED BY <1>2, <1>4, <1>5

\* What is alike is alike from further on.
LEMMA AlikeAfter ==
  ASSUME NEW m, NEW n, NEW k \in Nat, NEW d \in 0 .. k, Alike(m, n, k),
         m[2] \in Nat, n[2] \in Nat, Len(m[1]) \in Nat, Len(n[1]) \in Nat
  PROVE  /\ Alike(Shifted(m, d), Shifted(n, d), k - d) /\ Alike(n, m, k)
         /\ \A f : EndsAt(f, m, k) <=> EndsAt(f, Shifted(m, d), k - d)
<1>1. (m[2] + d) + (k - d) = m[2] + k /\ (n[2] + d) + (k - d) = n[2] + k OBVIOUS
<1>2. \A f : EndsAt(f, m, k) <=> EndsAt(f, Shifted(m, d), k - d) BY <1>1 DEF EndsAt, Shifted
<1>3. ASSUME NEW j \in 0 .. (k - d) - 1 PROVE m[1][(m[2] + d) + j] = n[1][(n[2] + d) + j]
  <2>1. d + j \in 0 .. k - 1 /\ (m[2] + d) + j = m[2] + (d + j) /\ (n[2] + d) + j = n[2] + (d + j)
    OBVIOUS
  <2> QED BY <2>1 DEF Alike
<1>4. Alike(Shifted(m, d), Shifted(n, d), k - d) BY <1>1, <1>3 DEF Alike, Shifted
<1>5. Alike(n, m, k) BY DEF Alike
<1> QED BY <1>2, <1>4, <1>5

\* A node's end is that of its token's place.
LEMMA ReadsAlike ==
  ASSUME Vocabulary, NEW id \in Ids, NEW m, NEW n, Reads(m, id), Reads(n, id),
         m[2] \in Nat, n[2] \in Nat
  PROVE  Alike(m, n, Size(id))
<1>1. Size(id) \in Nat \ {0} BY SizeIs
<1>2. ASSUME NEW j \in 0 .. Size(id) - 1 PROVE m[1][m[2] + j] = n[1][n[2] + j]
  <2>1. j + 1 \in 1 .. Size(id) /\ m[2] + (j + 1) - 1 = m[2] + j /\ n[2] + (j + 1) - 1 = n[2] + j
    BY <1>1
  <2>2. m[1][m[2] + (j + 1) - 1] = tokens[id].bytes[j + 1] BY <2>1 DEF Reads, Size
  <2>3. n[1][n[2] + (j + 1) - 1] = tokens[id].bytes[j + 1] BY <2>1 DEF Reads, Size
  <2> QED BY <2>1, <2>2, <2>3
<1> QED BY <1>2 DEF Alike, Reads, Size

----------------------------------------------------------------------------
(* Segmentations during a merge.                                           *)

\* A new token for two others: it is none of them, and it has their bytes.
NewToken ==
  /\ job.left \in Ids /\ job.right \in Ids /\ job.merged \in Ids
  /\ job.merged # job.left /\ job.merged # job.right
  /\ tokens[job.merged].bytes = MergedBytes(tokens, job.left, job.right)

\* As many bytes as the two have.
LEMMA SizeMerged ==
  ASSUME Vocabulary, NewToken
  PROVE  Size(job.merged) = Size(job.left) + Size(job.right)
<1>1. tokens[job.left].bytes \in Seq(Byte) /\ tokens[job.right].bytes \in Seq(Byte)
  BY BytesAre DEF NewToken
<1> QED BY <1>1, ConcatProperties DEF NewToken, MergedBytes, Size

\* The bytes of the two, one after the other, are those of a token merged of them.
LEMMA ReadsConcat ==
  ASSUME Vocabulary, NEW left \in Ids, NEW right \in Ids, NEW merged \in Ids,
         tokens[merged].bytes = MergedBytes(tokens, left, right),
         NEW n, n[2] \in Nat, Len(n[1]) \in Nat
  PROVE  Reads(n, merged) <=> Reads(n, left) /\ Reads(Shifted(n, Size(left)), right)
<1> DEFINE a == tokens[left].bytes
           b == tokens[right].bytes
           c == tokens[merged].bytes
<1>1. a \in Seq(Byte) /\ b \in Seq(Byte) /\ Len(a) \in Nat /\ Len(b) \in Nat
  BY BytesAre
<1>2. c = a \o b BY DEF MergedBytes
<1>3. Len(c) = Len(a) + Len(b)
      /\ \A j \in 1 .. Len(a) + Len(b) : c[j] = IF j <= Len(a) THEN a[j] ELSE b[j - Len(a)]
  <2> HIDE DEF a, b, c
  <2>1. /\ Len(a \o b) = Len(a) + Len(b)
        /\ \A j \in 1 .. Len(a) + Len(b) : (a \o b)[j] = IF j <= Len(a) THEN a[j] ELSE b[j - Len(a)]
    BY <1>1, ConcatProperties
  <2> QED BY <1>2, <2>1
<1>4. Shifted(n, Size(left))[1] = n[1] /\ Shifted(n, Size(left))[2] = n[2] + Len(a)
  BY DEF Shifted, Size
<1> DEFINE w == n[1]
           p == n[2]
<1>5. Reads(n, left) <=> p + Len(a) <= Len(w) + 1 /\ \A j \in 1 .. Len(a) : w[p + j - 1] = a[j]
  BY DEF Reads
<1>6. Reads(Shifted(n, Size(left)), right) <=>
        (p + Len(a)) + Len(b) <= Len(w) + 1 /\ \A j \in 1 .. Len(b) : w[(p + Len(a)) + j - 1] = b[j]
  BY <1>4 DEF Reads
<1>7. Reads(n, merged) <=> p + Len(c) <= Len(w) + 1 /\ \A j \in 1 .. Len(c) : w[p + j - 1] = c[j]
  BY DEF Reads
<1>8. p \in Nat /\ Len(w) \in Nat OBVIOUS
<1> HIDE DEF a, b, c, w, p
<1>9. ASSUME Reads(n, merged) PROVE Reads(n, left) /\ Reads(Shifted(n, Size(left)), right)
  <2>1. ASSUME NEW j \in 1 .. Len(a) PROVE w[p + j - 1] = a[j]
    <3>1. j \in 1 .. Len(c) /\ c[j] = a[j] BY <1>1, <1>3
    <3> QED BY <1>7, <1>9, <3>1
  <2>2. ASSUME NEW j \in 1 .. Len(b) PROVE w[(p + Len(a)) + j - 1] = b[j]
    <3>1. /\ Len(a) + j \in 1 .. Len(c) /\ ~ (Len(a) + j <= Len(a)) /\ (Len(a) + j) - Len(a) = j
          /\ p + (Len(a) + j) - 1 = (p + Len(a)) + j - 1
      BY <1>1, <1>3, <1>8
    <3>2. c[Len(a) + j] = b[j] BY <1>3, <3>1
    <3>3. w[p + (Len(a) + j) - 1] = c[Len(a) + j] BY <1>7, <1>9, <3>1
    <3> QED BY <3>1, <3>2, <3>3
  <2>3. p + Len(a) <= Len(w) + 1 /\ (p + Len(a)) + Len(b) <= Len(w) + 1
    BY <1>1, <1>3, <1>7, <1>8, <1>9
  <2> QED BY <1>5, <1>6, <2>1, <2>2, <2>3
<1>10. ASSUME Reads(n, left), Reads(Shifted(n, Size(left)), right) PROVE Reads(n, merged)
  <2>1. ASSUME NEW j \in 1 .. Len(c) PROVE w[p + j - 1] = c[j]
    <3>1. CASE j <= Len(a)
      <4>1. j \in 1 .. Len(a) /\ c[j] = a[j] BY <1>1, <1>3, <3>1
      <4> QED BY <1>5, <1>10, <4>1
    <3>2. CASE ~ (j <= Len(a))
      <4>1. /\ j - Len(a) \in 1 .. Len(b) /\ c[j] = b[j - Len(a)]
            /\ (p + Len(a)) + (j - Len(a)) - 1 = p + j - 1
        BY <1>1, <1>3, <1>8, <3>2
      <4>2. w[(p + Len(a)) + (j - Len(a)) - 1] = b[j - Len(a)] BY <1>6, <1>10, <4>1
      <4> QED BY <4>1, <4>2
    <3> QED BY <3>1, <3>2
  <2>2. p + Len(c) <= Len(w) + 1 BY <1>1, <1>3, <1>6, <1>8, <1>10
  <2> QED BY <1>7, <2>1, <2>2
<1> QED BY <1>9, <1>10

\* So they are in the middle of a merge.
LEMMA ReadsBoth ==
  ASSUME Vocabulary, NewToken, NEW n, n[2] \in Nat, Len(n[1]) \in Nat
  PROVE  Reads(n, job.merged) <=> Reads(n, job.left) /\ Reads(Half(n), job.right)
<1>1. Half(n) = Shifted(n, Size(job.left)) BY DEF Half, Shifted, Size
<1> QED BY <1>1, ReadsConcat DEF NewToken

\* What the unfolded segmentation is, next to the nodes.
LEMMA UnfoldedIs ==
  ASSUME Words, Vocabulary, Chained, NewToken
  PROVE  /\ Chain(Syms) /\ DOMAIN nodes \subseteq DOMAIN Unfolded /\ DOMAIN Syms = DOMAIN nodes
         /\ \A n \in DOMAIN nodes :
              /\ Syms[n] = nodes[n].sym /\ Half(n) = Shifted(n, Size(job.left))
              /\ n \in Merged => /\ Unfolded[n] = job.left /\ Half(n) \in DOMAIN Unfolded
                                 /\ Half(n) \notin DOMAIN nodes /\ Unfolded[Half(n)] = job.right
              /\ n \notin Merged => Unfolded[n] = nodes[n].sym
         /\ \A n \in DOMAIN Unfolded \ DOMAIN nodes :
              \E m \in Merged : n = Half(m) /\ Unfolded[n] = job.right
<1>1. Chain(Syms) BY SymsChain
<1>2. ASSUME NEW n \in Merged PROVE Half(n) \notin DOMAIN nodes
  <2>1. n \in DOMAIN nodes /\ Syms[n] = job.merged BY DEF Merged, Syms
  <2>2. \A k \in 1 .. Size(job.merged) - 1 : <<n[1], n[2] + k>> \notin DOMAIN nodes
    BY <1>1, <2>1 DEF Chain, Syms
  <2>3. Size(job.left) \in 1 .. Size(job.merged) - 1
    <3>1. Size(job.left) \in Nat \ {0} /\ Size(job.right) \in Nat \ {0} BY SizeIs DEF NewToken
    <3> QED BY <3>1, SizeMerged
  <2> QED BY <2>2, <2>3 DEF Half, Size
<1>3. Merged \subseteq DOMAIN nodes BY DEF Merged
<1>4. DOMAIN Unfolded = DOMAIN nodes \cup {Half(m) : m \in Merged} BY DEF Unfolded
<1>5. \A n \in DOMAIN Unfolded :
        Unfolded[n] = IF n \notin DOMAIN nodes THEN job.right
                      ELSE IF n \in Merged THEN job.left ELSE nodes[n].sym
  BY DEF Unfolded
<1>6. DOMAIN Syms = DOMAIN nodes /\ \A n \in DOMAIN nodes : Syms[n] = nodes[n].sym BY DEF Syms
<1>7. \A n : Half(n) = Shifted(n, Size(job.left)) BY DEF Half, Shifted, Size
<1>8. \A n \in Merged : Half(n) \in DOMAIN Unfolded BY <1>4
<1> QED BY <1>1, <1>2, <1>3, <1>4, <1>5, <1>6, <1>7, <1>8

----------------------------------------------------------------------------
(* The end of a merge.                                                     *)

\* In the middle of a merge, and before it.
Unfolding ==
  Words /\ Vocabulary /\ Chained /\ NewToken /\ Chain(Unfolded) /\ Uniform(Unfolded)

\* What both segmentations are, and their sizes.
LEMMA Unfolds ==
  ASSUME Unfolding
  PROVE  /\ DOMAIN Unfolded \subseteq Position /\ Merged \subseteq DOMAIN nodes
         /\ DOMAIN nodes \subseteq DOMAIN Unfolded /\ DOMAIN Syms = DOMAIN nodes
         /\ Size(job.left) \in Nat \ {0} /\ Size(job.right) \in Nat \ {0}
         /\ Size(job.merged) = Size(job.left) + Size(job.right)
         /\ \A n \in DOMAIN Unfolded :
              /\ n = <<n[1], n[2]>> /\ n[1] \in DOMAIN wordMap /\ Len(n[1]) \in Nat
              /\ n[2] \in 1 .. Len(n[1])
         /\ \A n, k : EndsAt(Syms, n, k) => EndsAt(Unfolded, n, k)
<1>1. Words /\ Vocabulary /\ Chained /\ NewToken /\ Chain(Unfolded) BY DEF Unfolding
<1>2. DOMAIN Unfolded \subseteq Position BY <1>1 DEF Chain
<1>3. Merged \subseteq DOMAIN nodes BY DEF Merged
<1>4. DOMAIN nodes \subseteq DOMAIN Unfolded /\ DOMAIN Syms = DOMAIN nodes BY DEF Unfolded, Syms
<1>5. Size(job.left) \in Nat \ {0} /\ Size(job.right) \in Nat \ {0} BY <1>1, SizeIs DEF NewToken
<1>6. Size(job.merged) = Size(job.left) + Size(job.right) BY <1>1, SizeMerged
<1>7. \A n, k : EndsAt(Syms, n, k) => EndsAt(Unfolded, n, k) BY <1>4 DEF EndsAt
<1>8. ASSUME NEW n \in DOMAIN Unfolded
      PROVE  /\ n = <<n[1], n[2]>> /\ n[1] \in DOMAIN wordMap /\ Len(n[1]) \in Nat
             /\ n[2] \in 1 .. Len(n[1])
  BY <1>1, <1>2, <1>8, AtPosition
<1> QED BY <1>2, <1>3, <1>4, <1>5, <1>6, <1>7, <1>8

\* The next of a node that is not at the end of its word.
LEMMA NextAt ==
  ASSUME Words, Vocabulary, Chained, NEW n \in DOMAIN nodes,
         n[2] + Size(nodes[n].sym) # Len(n[1]) + 1
  PROVE  LET m == Shifted(n, Size(nodes[n].sym)) IN
         /\ nodes[n].next = m /\ nodes[n].next # NoNode /\ m \in DOMAIN nodes /\ nodes[m].prev = n
<1>1. End(n) = n[2] + Size(nodes[n].sym) BY DEF End, Bytes, Size
<1>2. nodes[n].next = <<n[1], End(n)>> BY <1>1 DEF Chained, Spelled, WordOf
<1>3. n[1] \in Seq(Byte) /\ Len(n[1]) \in Nat /\ n[2] \in 1 .. Len(n[1]) BY NodeParts
<1>4. n[1] # << >> BY <1>3, EmptySeq
<1>5. nodes[n].next # NoNode BY <1>2, <1>4 DEF NoNode
<1>6. nodes[n].next \in DOMAIN nodes /\ nodes[nodes[n].next].prev = n BY <1>5, NextParts
<1> QED BY <1>1, <1>2, <1>5, <1>6 DEF Shifted

\* Where one of two like places was merged and the other not, both had the pair.
LEMMA BothHalves ==
  ASSUME Unfolding, NEW u \in Merged, NEW v \in DOMAIN Unfolded \ Merged, NEW k \in Nat \ {0},
         Alike(u, v, k), EndsAt(Syms, u, k), EndsAt(Syms, v, k)
  PROVE  /\ Unfolded[v] = job.left /\ Unfolded[Half(u)] = job.right /\ Unfolded[Half(v)] = job.right
         /\ Half(u) \in DOMAIN Unfolded \ DOMAIN nodes /\ Half(v) \in DOMAIN Unfolded
         /\ k - Size(job.left) \in Nat \ {0} /\ k - Size(job.left) < k
         /\ Alike(Half(u), Half(v), k - Size(job.left))
         /\ EndsAt(Syms, Half(u), k - Size(job.left)) /\ EndsAt(Syms, Half(v), k - Size(job.left))
<1> DEFINE l == Size(job.left)
<1>1. Words /\ Vocabulary /\ Chained /\ NewToken /\ Chain(Unfolded) /\ Uniform(Unfolded)
  BY DEF Unfolding
<1>2. u \in DOMAIN nodes /\ u \in DOMAIN Unfolded /\ l \in Nat \ {0} /\ Size(job.right) \in Nat \ {0}
      /\ Size(job.merged) = l + Size(job.right)
  BY Unfolds
<1>3. /\ u[2] \in 1 .. Len(u[1]) /\ Len(u[1]) \in Nat /\ v[2] \in 1 .. Len(v[1]) /\ Len(v[1]) \in Nat
  BY <1>2, Unfolds
<1>4. EndsAt(Unfolded, u, k) /\ EndsAt(Unfolded, v, k) BY Unfolds
<1>5. /\ Unfolded[u] = job.left /\ Half(u) \in DOMAIN Unfolded /\ Half(u) \notin DOMAIN nodes
      /\ Unfolded[Half(u)] = job.right /\ Syms[u] = job.merged /\ Chain(Syms) /\ u \in DOMAIN Syms
  BY <1>1, <1>2, UnfoldedIs DEF Merged
<1>6. u[2] + k <= Len(u[1]) + 1 /\ v[2] + k <= Len(v[1]) + 1 BY DEF Alike
<1>7. k \in 1 .. Len(u[1]) BY <1>3, <1>6
<1>8. Unfolded[u] = Unfolded[v] BY <1>1, <1>2, <1>4, <1>7 DEF Uniform
<1>9. Size(job.merged) <= k
  <2>1. Size(Syms[u]) <= k BY <1>1, <1>5, <1>6, ChainFits
  <2> QED BY <1>5, <2>1
<1>10. l < k /\ k - l \in Nat \ {0} /\ k - l < k /\ l \in 0 .. k BY <1>2, <1>9
<1>11. Half(u) = Shifted(u, l) /\ Half(v) = Shifted(v, l) BY DEF Half, Shifted, Size
<1>12. Half(v) \in DOMAIN Unfolded
  <2>1. Size(Unfolded[v]) = l BY <1>5, <1>8
  <2> QED BY <1>1, <1>4, <1>6, <1>10, <1>11, <2>1, ChainFits
<1> HIDE DEF l
<1>13. Alike(Half(u), Half(v), k - l) /\ Alike(v, u, k)
       /\ \A f : EndsAt(f, u, k) <=> EndsAt(f, Half(u), k - l)
  BY <1>3, <1>10, <1>11, AlikeAfter
<1>14. \A f : EndsAt(f, v, k) <=> EndsAt(f, Half(v), k - l)
  BY <1>3, <1>10, <1>11, <1>13, AlikeAfter
<1>15. Unfolded[Half(u)] = Unfolded[Half(v)]
  <2>1. EndsAt(Unfolded, Half(u), k - l) /\ EndsAt(Unfolded, Half(v), k - l) BY <1>4, <1>13, <1>14
  <2>2. Half(u)[1] = u[1] BY DEF Half
  <2>3. k - l \in 1 .. Len(Half(u)[1]) BY <1>7, <1>10, <2>2
  <2> QED BY <1>1, <1>5, <1>12, <1>13, <2>1, <2>3 DEF Uniform
<1> QED BY <1>5, <1>8, <1>10, <1>12, <1>13, <1>14, <1>15 DEF l

\* No pair is left, and no token it is made of stands where a merge came from.
NoneLeft == \A n : ~ OccurrenceValid(n)

FromRight ==
  \A m \in Merged : job.left = job.right /\ nodes[m].next # NoNode =>
                      nodes[nodes[m].next].sym # job.left
FromLeft ==
  \A m \in Merged : job.left = job.right /\ nodes[m].prev # NoNode =>
                      nodes[nodes[m].prev].sym # job.left

\* A node and the half of a merged node at which the pair would be.
LEMMA PairAt ==
  ASSUME Unfolding, NoneLeft, NEW v \in DOMAIN nodes \ Merged,
         Unfolded[v] = job.left, Half(v) \in DOMAIN Unfolded, Unfolded[Half(v)] = job.right
  PROVE  /\ nodes[v].sym = job.left /\ Half(v) \in Merged /\ nodes[Half(v)].prev = v /\ v # NoNode
         /\ job.left = job.right
<1>1. Words /\ Vocabulary /\ Chained /\ NewToken BY DEF Unfolding
<1>2. nodes[v].sym = job.left BY <1>1, UnfoldedIs
<1>3. Half(v) = Shifted(v, Size(job.left)) /\ Half(v)[1] = v[1] /\ Half(v)[2] = v[2] + Size(job.left)
  BY DEF Half, Shifted, Size
<1>4. Half(v)[2] <= Len(v[1]) /\ Len(v[1]) \in Nat /\ Half(v)[2] \in Nat BY <1>3, Unfolds
<1>5. v[2] + Size(nodes[v].sym) # Len(v[1]) + 1 BY <1>2, <1>3, <1>4
<1>6. /\ nodes[v].next = Half(v) /\ nodes[v].next # NoNode
      /\ Half(v) \in DOMAIN nodes /\ nodes[Half(v)].prev = v
  BY <1>1, <1>2, <1>3, <1>5, NextAt
<1>7. Half(v) \in Merged
  <2>1. SUFFICES ASSUME Half(v) \notin Merged PROVE FALSE OBVIOUS
  <2>2. nodes[Half(v)].sym = job.right BY <1>1, <1>6, <2>1, UnfoldedIs
  <2>3. OccurrenceValid(v) BY <1>2, <1>6, <2>2 DEF OccurrenceValid
  <2> QED BY <2>3 DEF NoneLeft
<1>8. Unfolded[Half(v)] = job.left BY <1>1, <1>6, <1>7, UnfoldedIs
<1>9. v # NoNode BY <1>1, NodeParts
<1> QED BY <1>2, <1>6, <1>7, <1>8, <1>9

\* Merged from the left, a place like a merged one is merged.
LEMMA AlikeFromLeft ==
  ASSUME Unfolding, NoneLeft, FromLeft,
         NEW u \in Merged, NEW v \in DOMAIN nodes \ Merged, NEW k \in Nat \ {0},
         Alike(u, v, k), EndsAt(Syms, u, k), EndsAt(Syms, v, k)
  PROVE  FALSE
<1>1. v \in DOMAIN Unfolded \ Merged BY Unfolds
<1>2. Unfolded[v] = job.left /\ Half(v) \in DOMAIN Unfolded /\ Unfolded[Half(v)] = job.right
  BY <1>1, BothHalves
<1>3. nodes[v].sym = job.left /\ Half(v) \in Merged /\ nodes[Half(v)].prev = v /\ v # NoNode
      /\ job.left = job.right
  BY <1>2, PairAt
<1> QED BY <1>3 DEF FromLeft

\* Merged from the right, so is it, and likewise for places that were nodes: the
\* second halves decide, which are alike over fewer bytes.
LEMMA AlikeFromRight ==
  ASSUME Unfolding, NoneLeft, FromRight
  PROVE  \A u \in Merged : \A v \in DOMAIN Unfolded \ Merged : \A k \in Nat \ {0} :
           ~ (Alike(u, v, k) /\ EndsAt(Syms, u, k) /\ EndsAt(Syms, v, k))
<1> DEFINE Bad(k) == \E u \in Merged : \E v \in DOMAIN Unfolded \ Merged :
                       Alike(u, v, k) /\ EndsAt(Syms, u, k) /\ EndsAt(Syms, v, k)
           bad == {k \in Nat \ {0} : Bad(k)}
<1>1. SUFFICES ASSUME bad # {} PROVE FALSE OBVIOUS
<1>2. PICK k \in bad : \A j \in bad : k <= j
  <2>1. bad \subseteq Nat OBVIOUS
  <2> HIDE DEF bad
  <2> QED BY <1>1, <2>1, LeastElement
<1>3. k \in Nat \ {0} /\ Bad(k) OBVIOUS
<1>4. PICK u \in Merged, v \in DOMAIN Unfolded \ Merged :
        Alike(u, v, k) /\ EndsAt(Syms, u, k) /\ EndsAt(Syms, v, k)
  BY <1>3
<1> DEFINE j == k - Size(job.left)
<1>5. /\ Unfolded[v] = job.left /\ Unfolded[Half(u)] = job.right /\ Unfolded[Half(v)] = job.right
      /\ Half(u) \in DOMAIN Unfolded \ DOMAIN nodes /\ Half(v) \in DOMAIN Unfolded
      /\ j \in Nat \ {0} /\ j < k /\ Alike(Half(u), Half(v), j)
      /\ EndsAt(Syms, Half(u), j) /\ EndsAt(Syms, Half(v), j)
  BY <1>3, <1>4, BothHalves
<1>6. Half(u) \in DOMAIN Unfolded \ Merged BY <1>5, Unfolds
<1>7. Half(v) \notin Merged
  <2>1. SUFFICES ASSUME Half(v) \in Merged PROVE FALSE OBVIOUS
  <2>2. Alike(Half(v), Half(u), j) BY <1>5 DEF Alike
  <2>3. Bad(j) BY <1>5, <1>6, <2>1, <2>2
  <2>4. j \in bad BY <1>5, <2>3
  <2> QED BY <1>2, <1>3, <1>5, <2>4
<1>8. Words /\ Vocabulary /\ Chained /\ NewToken BY DEF Unfolding
<1>9. CASE v \in DOMAIN nodes
  <2>1. v \in DOMAIN nodes \ Merged BY <1>4, <1>9
  <2> QED BY <1>5, <1>7, <2>1, PairAt
<1>10. CASE v \notin DOMAIN nodes
  <2>1. PICK w \in Merged : v = Half(w) /\ Unfolded[v] = job.right BY <1>4, <1>8, <1>10, UnfoldedIs
  <2>2. job.left = job.right BY <1>5, <2>1
  <2>3. w \in DOMAIN nodes /\ nodes[w].sym = job.merged BY <2>1 DEF Merged
  <2>4. Size(job.merged) = Size(job.left) + Size(job.left) /\ Size(job.left) \in Nat
    BY <2>2, Unfolds
  <2>5. w[2] \in Nat BY <2>3, Unfolds
  <2>6. Half(v) = Shifted(w, Size(job.merged)) /\ Half(v)[2] = w[2] + Size(job.merged) /\ Half(v)[1] = w[1]
    BY <2>1, <2>4, <2>5 DEF Half, Shifted, Size
  <2>7. Half(v)[2] <= Len(w[1]) /\ Len(w[1]) \in Nat BY <1>5, <2>6, Unfolds
  <2>8. w[2] + Size(nodes[w].sym) # Len(w[1]) + 1 BY <2>3, <2>6, <2>7
  <2>9. nodes[w].next = Half(v) /\ nodes[w].next # NoNode /\ Half(v) \in DOMAIN nodes
    BY <1>8, <2>3, <2>6, <2>8, NextAt
  <2>10. nodes[Half(v)].sym = job.right BY <1>5, <1>7, <1>8, <2>9, UnfoldedIs
  <2> QED BY <2>1, <2>2, <2>9, <2>10 DEF FromRight
<1> QED BY <1>9, <1>10

\* Then like bytes are segmented alike after the merge, too.
LEMMA MergeUniform ==
  ASSUME Unfolding, NoneLeft, FromRight \/ FromLeft
  PROVE  Uniform(Syms)
<1>1. ASSUME NEW u \in Merged, NEW v \in DOMAIN nodes \ Merged, NEW k \in Nat \ {0},
             Alike(u, v, k), EndsAt(Syms, u, k), EndsAt(Syms, v, k)
      PROVE  FALSE
  <2>1. v \in DOMAIN Unfolded \ Merged BY Unfolds
  <2>2. CASE FromRight BY <1>1, <2>1, <2>2, AlikeFromRight
  <2>3. CASE FromLeft BY <1>1, <2>3, AlikeFromLeft
  <2> QED BY <2>2, <2>3
<1>2. DOMAIN Syms = DOMAIN nodes /\ DOMAIN nodes \subseteq DOMAIN Unfolded BY Unfolds
<1>3. SUFFICES ASSUME NEW m \in DOMAIN nodes, NEW n \in DOMAIN nodes, NEW k \in 1 .. Len(m[1]),
                      Alike(m, n, k), EndsAt(Syms, m, k), EndsAt(Syms, n, k)
               PROVE  Syms[m] = Syms[n]
  BY <1>2 DEF Uniform
<1>4. k \in Nat \ {0} BY <1>2, Unfolds
<1>5. Alike(n, m, k) BY <1>3 DEF Alike
<1>6. m \in Merged <=> n \in Merged BY <1>1, <1>3, <1>4, <1>5
<1>7. EndsAt(Unfolded, m, k) /\ EndsAt(Unfolded, n, k) BY <1>3, Unfolds
<1>8. Unfolded[m] = Unfolded[n] BY <1>2, <1>3, <1>7 DEF Unfolding, Uniform
<1>9. Words /\ Vocabulary /\ Chained /\ NewToken BY DEF Unfolding
<1>10. CASE m \in Merged BY <1>2, <1>6, <1>10 DEF Merged, Syms
<1>11. CASE m \notin Merged
  <2>1. Unfolded[m] = nodes[m].sym /\ Unfolded[n] = nodes[n].sym BY <1>6, <1>9, <1>11, UnfoldedIs
  <2> QED BY <1>8, <2>1 DEF Syms
<1> QED BY <1>10, <1>11

\* Every place with the bytes of the merged token is one.
LEMMA MergedWhole ==
  ASSUME Unfolding, NoneLeft, Sample PROVE Whole(job.merged)
<1> SUFFICES ASSUME NEW n \in DOMAIN nodes, Reads(n, job.merged),
                    EndsAt(Syms, n, Size(job.merged)), n \notin Merged
             PROVE  FALSE
  BY DEF Whole, Merged, Size
<1> DEFINE l == Size(job.left)
           r == Size(job.right)
<1>1. Words /\ Vocabulary /\ Chained /\ NewToken /\ Chain(Unfolded) /\ Uniform(Unfolded)
  BY DEF Unfolding
<1>2. /\ l \in Nat \ {0} /\ r \in Nat \ {0} /\ Size(job.merged) = l + r
      /\ DOMAIN nodes \subseteq DOMAIN Unfolded /\ job.merged \in Ids
  BY <1>1, Unfolds DEF NewToken
<1>3. PICK u \in DOMAIN Unfolded : /\ Half(u) \in DOMAIN Unfolded
                                   /\ Unfolded[u] = job.left /\ Unfolded[Half(u)] = job.right
  BY DEF Sample
<1>4. /\ u[2] \in 1 .. Len(u[1]) /\ Len(u[1]) \in Nat /\ n[2] \in 1 .. Len(n[1]) /\ Len(n[1]) \in Nat
  BY <1>2, <1>3, Unfolds
<1>5. \A m : Half(m) = Shifted(m, l) /\ Half(m)[1] = m[1] /\ Half(m)[2] = m[2] + l
  BY DEF Half, Shifted, Size
<1>6. Reads(u, job.merged)
  <2>1. Reads(u, job.left) /\ Reads(Half(u), job.right) BY <1>1, <1>3 DEF Chain
  <2> QED BY <1>1, <1>4, <2>1, ReadsBoth
<1>7. EndsAt(Unfolded, u, l + r) /\ EndsAt(Unfolded, Half(u), r)
  <2>1. EndsAt(Unfolded, Half(u), r) BY <1>1, <1>3 DEF Chain
  <2>2. (u[2] + l) + r = u[2] + (l + r) BY <1>2, <1>4
  <2> HIDE DEF l, r
  <2> QED BY <1>5, <2>1, <2>2 DEF EndsAt
<1>8. Alike(u, n, l + r)
  <2>1. Alike(u, n, Size(job.merged)) BY <1>1, <1>2, <1>4, <1>6, ReadsAlike
  <2> QED BY <1>2, <2>1
<1>9. EndsAt(Unfolded, n, l + r)
  <2>1. EndsAt(Unfolded, n, Size(job.merged)) BY Unfolds
  <2> QED BY <1>2, <2>1
<1> HIDE DEF l, r
<1>10. u[2] + (l + r) <= Len(u[1]) + 1 /\ n[2] + (l + r) <= Len(n[1]) + 1 BY <1>8 DEF Alike
<1>11. Unfolded[n] = job.left
  <2>1. l + r \in 1 .. Len(u[1]) BY <1>2, <1>4, <1>10
  <2> QED BY <1>1, <1>2, <1>3, <1>7, <1>8, <1>9, <2>1 DEF Uniform
<1>12. Half(n) \in DOMAIN Unfolded
  <2>1. l + r \in Nat \ {0} /\ l < l + r BY <1>2
  <2>2. Size(Unfolded[n]) = l BY <1>11 DEF l
  <2> QED BY <1>1, <1>2, <1>5, <1>9, <1>10, <2>1, <2>2, ChainFits
<1>13. Alike(Half(u), Half(n), r) /\ (\A f : EndsAt(f, n, l + r) <=> EndsAt(f, Half(n), r))
  <2>1. l + r \in Nat /\ l \in 0 .. l + r /\ (l + r) - l = r BY <1>2
  <2>2. Alike(n, u, l + r) BY <1>8 DEF Alike
  <2>3. Alike(Shifted(u, l), Shifted(n, l), (l + r) - l) BY <1>4, <1>8, <2>1, AlikeAfter
  <2>4. \A f : EndsAt(f, n, l + r) <=> EndsAt(f, Shifted(n, l), (l + r) - l)
    BY <1>4, <2>1, <2>2, AlikeAfter
  <2> QED BY <1>5, <2>1, <2>3, <2>4
<1>14. Unfolded[Half(n)] = job.right
  <2>1. EndsAt(Unfolded, Half(n), r) BY <1>9, <1>13
  <2>2. r \in 1 .. Len(Half(u)[1]) BY <1>2, <1>4, <1>5, <1>10
  <2> QED BY <1>1, <1>3, <1>7, <1>12, <1>13, <2>1, <2>2 DEF Uniform
<1>15. Half(n) \in Merged BY <1>11, <1>12, <1>14, PairAt
<1>16. EndsAt(Syms, Half(n), r)
  <2>1. EndsAt(Syms, n, l + r) BY <1>2
  <2> QED BY <1>13, <2>1
<1>17. Size(Syms[Half(n)]) <= r
  <2>1. Chain(Syms) /\ Half(n) \in DOMAIN Syms BY <1>1, <1>15, SymsChain DEF Merged, Syms
  <2>2. Half(n)[2] + r <= Len(Half(n)[1]) + 1 BY <1>2, <1>4, <1>5, <1>10
  <2> QED BY <1>1, <1>2, <1>16, <2>1, <2>2, ChainFits
<1>18. Syms[Half(n)] = job.merged BY <1>15 DEF Merged, Syms
<1> QED BY <1>2, <1>17, <1>18

----------------------------------------------------------------------------
(* Lists of occurrences.                                                   *)

\* The first of a list and the others.
LEMMA DownHead ==
  ASSUME NEW S, NEW s \in Seq(S), s # << >>, Down(s)
  PROVE  Down(Tail(s)) /\ \A f \in ToSet(Tail(s)) : f[1] = Head(s)[1] => f[2] <= Head(s)[2]
<1>1. /\ Len(s) \in Nat \ {0} /\ DOMAIN s = 1 .. Len(s) /\ Head(s) = s[1]
      /\ Tail(s) \in Seq(S) /\ Len(Tail(s)) = Len(s) - 1
      /\ \A i \in 1 .. Len(Tail(s)) : Tail(s)[i] = s[i + 1]
  BY HeadTailProperties, EmptySeq, LenProperties
<1>2. DOMAIN Tail(s) = 1 .. Len(Tail(s)) BY <1>1, LenProperties
<1>3. \A i \in DOMAIN Tail(s) : i \in Nat \ {0} /\ i + 1 \in DOMAIN s /\ Tail(s)[i] = s[i + 1]
  BY <1>1, <1>2
<1>4. 1 \in DOMAIN s BY <1>1
<1>5. Down(Tail(s))
  <2> SUFFICES ASSUME NEW i \in DOMAIN Tail(s), NEW j \in DOMAIN Tail(s), i < j,
                      Tail(s)[i][1] = Tail(s)[j][1]
               PROVE  Tail(s)[j][2] <= Tail(s)[i][2]
    BY DEF Down
  <2>1. i + 1 < j + 1 BY <1>3
  <2> QED BY <1>3, <2>1 DEF Down
<1>6. ASSUME NEW i \in DOMAIN Tail(s), Tail(s)[i][1] = s[1][1] PROVE Tail(s)[i][2] <= s[1][2]
  <2>1. 1 < i + 1 BY <1>3
  <2> QED BY <1>3, <1>4, <1>6, <2>1 DEF Down
<1> QED BY <1>1, <1>5, <1>6 DEF ToSet

\* Likewise the other way round.
LEMMA UpHead ==
  ASSUME NEW S, NEW s \in Seq(S), s # << >>, Up(s)
  PROVE  Up(Tail(s)) /\ \A f \in ToSet(Tail(s)) : f[1] = Head(s)[1] => Head(s)[2] <= f[2]
<1>1. /\ Len(s) \in Nat \ {0} /\ DOMAIN s = 1 .. Len(s) /\ Head(s) = s[1]
      /\ Tail(s) \in Seq(S) /\ Len(Tail(s)) = Len(s) - 1
      /\ \A i \in 1 .. Len(Tail(s)) : Tail(s)[i] = s[i + 1]
  BY HeadTailProperties, EmptySeq, LenProperties
<1>2. DOMAIN Tail(s) = 1 .. Len(Tail(s)) BY <1>1, LenProperties
<1>3. \A i \in DOMAIN Tail(s) : i \in Nat \ {0} /\ i + 1 \in DOMAIN s /\ Tail(s)[i] = s[i + 1]
  BY <1>1, <1>2
<1>4. 1 \in DOMAIN s BY <1>1
<1>5. Up(Tail(s))
  <2> SUFFICES ASSUME NEW i \in DOMAIN Tail(s), NEW j \in DOMAIN Tail(s), i < j,
                      Tail(s)[i][1] = Tail(s)[j][1]
               PROVE  Tail(s)[i][2] <= Tail(s)[j][2]
    BY DEF Up
  <2>1. i + 1 < j + 1 BY <1>3
  <2> QED BY <1>3, <2>1 DEF Up
<1>6. ASSUME NEW i \in DOMAIN Tail(s), Tail(s)[i][1] = s[1][1] PROVE s[1][2] <= Tail(s)[i][2]
  <2>1. 1 < i + 1 BY <1>3
  <2> QED BY <1>3, <1>4, <1>6, <2>1 DEF Up
<1> QED BY <1>1, <1>5, <1>6 DEF ToSet

\* A list with one more in front.
LEMMA InFront ==
  ASSUME NEW S, NEW s \in Seq(S), NEW e \in S
  PROVE  /\ ToSet(<<e>> \o s) = {e} \cup ToSet(s)
         /\ Down(s) /\ (\A f \in ToSet(s) : f[1] = e[1] => f[2] <= e[2]) => Down(<<e>> \o s)
         /\ Up(s) /\ (\A f \in ToSet(s) : f[1] = e[1] => e[2] <= f[2]) => Up(<<e>> \o s)
<1> DEFINE t == <<e>> \o s
<1>1. /\ Len(s) \in Nat /\ DOMAIN s = 1 .. Len(s) /\ Len(t) = Len(s) + 1
      /\ t[1] = e /\ \A i \in 1 .. Len(s) : t[i + 1] = s[i]
      /\ DOMAIN t = 1 .. Len(t)
  <2>1. <<e>> \in Seq(S) /\ Len(<<e>>) = 1 /\ <<e>>[1] = e OBVIOUS
  <2>2. /\ t \in Seq(S) /\ Len(t) = 1 + Len(s)
        /\ \A i \in 1 .. 1 + Len(s) : t[i] = IF i <= 1 THEN <<e>>[i] ELSE s[i - 1]
    BY <2>1, ConcatProperties
  <2>3. Len(s) \in Nat /\ DOMAIN s = 1 .. Len(s) /\ DOMAIN t = 1 .. Len(t)
    BY <2>2, LenProperties
  <2> HIDE DEF t
  <2>4. t[1] = e BY <2>1, <2>2, <2>3
  <2>5. ASSUME NEW i \in 1 .. Len(s) PROVE t[i + 1] = s[i]
    <3>1. i + 1 \in 1 .. 1 + Len(s) /\ ~ (i + 1 <= 1) /\ (i + 1) - 1 = i BY <2>3
    <3> QED BY <2>2, <3>1
  <2> QED BY <2>2, <2>3, <2>4, <2>5
<1> HIDE DEF t
<1>2. \A i \in DOMAIN t : /\ i \in Nat
                          /\ (i = 1 /\ t[i] = e) \/ (i > 1 /\ i - 1 \in DOMAIN s /\ t[i] = s[i - 1])
  <2> SUFFICES ASSUME NEW i \in 1 .. Len(t)
               PROVE  (i = 1 /\ t[i] = e) \/ (i > 1 /\ i - 1 \in DOMAIN s /\ t[i] = s[i - 1])
    BY <1>1
  <2>1. CASE i = 1
    <3>1. t[i] = e BY <1>1, <2>1
    <3> QED BY <2>1, <3>1
  <2>2. CASE i # 1
    <3>1. i > 1 /\ i - 1 \in 1 .. Len(s) /\ (i - 1) + 1 = i BY <1>1, <2>2
    <3> QED BY <1>1, <3>1
  <2> QED BY <2>1, <2>2
<1>3. ToSet(t) = {e} \cup ToSet(s)
  <2>1. ASSUME NEW i \in DOMAIN t PROVE t[i] \in {e} \cup ToSet(s) BY <1>2, Zenon DEF ToSet
  <2>2. 1 \in DOMAIN t BY <1>1
  <2>3. e \in ToSet(t) BY <1>1, <2>2 DEF ToSet
  <2>4. ASSUME NEW i \in DOMAIN s PROVE s[i] \in ToSet(t)
    <3>1. i + 1 \in DOMAIN t /\ t[i + 1] = s[i] BY <1>1
    <3> QED BY <3>1, Zenon DEF ToSet
  <2>5. ToSet(t) \subseteq {e} \cup ToSet(s) BY <2>1 DEF ToSet
  <2>6. ToSet(s) \subseteq ToSet(t) BY <2>4 DEF ToSet
  <2> QED BY <2>3, <2>5, <2>6
<1>4. \A i \in DOMAIN s : s[i] \in ToSet(s) BY DEF ToSet
<1>5. ASSUME Down(s), \A f \in ToSet(s) : f[1] = e[1] => f[2] <= e[2] PROVE Down(t)
  <2> SUFFICES ASSUME NEW i \in DOMAIN t, NEW j \in DOMAIN t, i < j, t[i][1] = t[j][1]
               PROVE  t[j][2] <= t[i][2]
    BY DEF Down
  <2>1. j # 1 /\ t[j] = s[j - 1] /\ j - 1 \in DOMAIN s /\ i \in Nat /\ j \in Nat BY <1>1, <1>2
  <2>2. CASE i = 1 BY <1>1, <1>4, <1>5, <2>1, <2>2
  <2>3. CASE i # 1
    <3>1. t[i] = s[i - 1] /\ i - 1 \in DOMAIN s /\ i - 1 < j - 1 BY <1>2, <2>1, <2>3
    <3> QED BY <1>5, <2>1, <3>1 DEF Down
  <2> QED BY <2>2, <2>3
<1>6. ASSUME Up(s), \A f \in ToSet(s) : f[1] = e[1] => e[2] <= f[2] PROVE Up(t)
  <2> SUFFICES ASSUME NEW i \in DOMAIN t, NEW j \in DOMAIN t, i < j, t[i][1] = t[j][1]
               PROVE  t[i][2] <= t[j][2]
    BY DEF Up
  <2>1. j # 1 /\ t[j] = s[j - 1] /\ j - 1 \in DOMAIN s /\ i \in Nat /\ j \in Nat BY <1>1, <1>2
  <2>2. CASE i = 1 BY <1>1, <1>4, <1>6, <2>1, <2>2
  <2>3. CASE i # 1
    <3>1. t[i] = s[i - 1] /\ i - 1 \in DOMAIN s /\ i - 1 < j - 1 BY <1>2, <2>1, <2>3
    <3> QED BY <1>6, <2>1, <3>1 DEF Up
  <2> QED BY <2>2, <2>3
<1> QED BY <1>3, <1>5, <1>6 DEF t

\* What is in a list.
LEMMA Members == ASSUME NEW S, NEW s \in Seq(S) PROVE \A f \in ToSet(s) : f \in S
BY DEF ToSet

\* A list is one of a larger set too.
LEMMA Widened == ASSUME NEW S, NEW T, S \subseteq T PROVE \A s \in Seq(S) : s \in Seq(T)
<1> SUFFICES ASSUME NEW s \in Seq(S) PROVE s \in Seq(T) OBVIOUS
<1>1. /\ Len(s) \in Nat /\ s \in [1 .. Len(s) -> S] BY LenProperties
<1>2. s \in [1 .. Len(s) -> T] BY <1>1
<1> QED BY <1>1, <1>2, SeqDef

\* A list that is empty has any order.
LEMMA NoOrder == Down(<< >>) /\ Up(<< >>) /\ ToSet(<< >>) = {}
BY DEF Down, Up, ToSet

\* The others are in the list.
LEMMA TailIn ==
  ASSUME NEW S, NEW s \in Seq(S), s # << >> PROVE ToSet(Tail(s)) \subseteq ToSet(s)
<1>1. /\ Len(s) \in Nat \ {0} /\ DOMAIN s = 1 .. Len(s)
      /\ Tail(s) \in Seq(S) /\ Len(Tail(s)) = Len(s) - 1
      /\ \A i \in 1 .. Len(Tail(s)) : Tail(s)[i] = s[i + 1]
  BY HeadTailProperties, EmptySeq, LenProperties
<1>2. DOMAIN Tail(s) = 1 .. Len(Tail(s)) BY <1>1, LenProperties
<1>3. \A i \in DOMAIN Tail(s) : i + 1 \in DOMAIN s /\ Tail(s)[i] = s[i + 1] BY <1>1, <1>2
<1> QED BY <1>3 DEF ToSet

----------------------------------------------------------------------------
(* One merge more.                                                         *)

\* Between a node and the one before it there is none.
LEMMA NodeBefore ==
  ASSUME Words, Vocabulary, Chained, NEW n \in DOMAIN nodes, NEW m \in DOMAIN nodes,
         m[1] = n[1], m[2] < n[2], nodes[n].prev # NoNode
  PROVE  m[2] <= nodes[n].prev[2]
<1> DEFINE p == nodes[n].prev
<1>1. p \in DOMAIN nodes /\ nodes[p].next = n /\ nodes[p].next # NoNode /\ p[1] = n[1]
  BY PrevParts
<1>2. n[2] = End(p) BY <1>1, NextParts
<1>3. p[2] \in Nat /\ m[2] \in Nat /\ n[2] \in Nat /\ m = <<m[1], m[2]>> BY <1>1, NodeParts
<1>4. Spelled(p) BY <1>1 DEF Chained
<1>5. ASSUME ~ (m[2] <= p[2]) PROVE FALSE
  <2>1. m[2] \in p[2] + 1 .. End(p) - 1 BY <1>2, <1>3, <1>5
  <2>2. <<p[1], m[2]>> \notin DOMAIN nodes BY <1>4, <2>1 DEF Spelled, WordOf
  <2> QED BY <1>1, <1>3, <2>2
<1> QED BY <1>5

\* What is waiting are the places of the pair.
LEMMA WaitingIs ==
  ASSUME Words, Vocabulary, Chained, Merging
  PROVE  /\ Waiting = Where(Labels, JobPair) /\ Waiting \subseteq DOMAIN nodes
         /\ \A r : r \in Waiting <=> OccurrenceValid(r)
<1>1. ASSUME NEW r PROVE OccurrenceValid(r) <=> r \in Where(Labels, JobPair)
  BY DEF OccurrenceValid, Where, Labels, Following, JobPair
<1>2. Where(Labels, JobPair) \subseteq ToSet(job.rest) BY DEF Merging
<1>3. \A r : OccurrenceValid(r) => r \in DOMAIN nodes BY DEF OccurrenceValid
<1> QED BY <1>1, <1>2, <1>3 DEF Waiting

\* What a merge at n does to the nodes and to what is to be visited.
MergesAt(n) ==
  /\ Words /\ Vocabulary /\ Chained /\ Merging /\ NewToken
  /\ UNCHANGED <<wordMap, tokens>> /\ job.rest # << >> /\ n = Head(job.rest)
  /\ Joinable(n) /\ OccurrenceValid(n) /\ n \in Waiting /\ n \notin Merged
  /\ nodes[n].sym = job.left /\ nodes[Gone(n)].sym = job.right /\ Gone(n) \notin Merged
  /\ DOMAIN nodes' = DOMAIN nodes \ {Gone(n)}
  /\ nodes'[n] = [sym |-> job.merged, prev |-> Before(n), next |-> Behind(n)]
  /\ \A m \in DOMAIN nodes' \ {n} :
       /\ nodes'[m].sym = nodes[m].sym /\ nodes'[m].next = nodes[m].next
       /\ nodes'[m].prev = IF m = Behind(n) THEN n ELSE nodes[m].prev
  /\ job'.left = job.left /\ job'.right = job.right /\ job'.merged = job.merged
  /\ job'.rest = Tail(job.rest)
  /\ Merged' = Merged \cup {n} /\ Waiting' \subseteq Waiting \ {n}
  /\ Waiting' \subseteq ToSet(Tail(job.rest))

\* This is what Join does.
LEMMA JoinMergesAt == ASSUME TrainerInv, Join PROVE MergesAt(Head(job.rest))
<1> DEFINE n == Head(job.rest)
<1>1. /\ phase = "merging" /\ phase' = "merging" /\ UNCHANGED <<wordMap, tokens>>
      /\ job.rest # << >> /\ OccurrenceValid(n) /\ nodes' = Joined(n)
      /\ \E t : job' = [job EXCEPT !.rest = Tail(@), !.touched = t]
  BY DEF Join
<1>2. Words /\ Index /\ Merging BY <1>1 DEF TrainerInv
<1>3. Vocabulary /\ Chained BY <1>2 DEF Index
<1>4. Joinable(n) /\ nodes[n].sym = job.left /\ nodes[Gone(n)].sym = job.right /\ n \in DOMAIN nodes
  BY <1>1 DEF OccurrenceValid, Joinable, Gone
<1>5. job \in [left : Ids, right : Ids, merged : Ids, rest : Seq(Position),
               touched : SUBSET DOMAIN pairs]
  BY <1>2 DEF Merging
<1>6. NewToken BY <1>2, <1>3, <1>5, MergedIsNew DEF NewToken, Merging
<1>7. /\ job'.left = job.left /\ job'.right = job.right /\ job'.merged = job.merged
      /\ job'.rest = Tail(job.rest)
  BY <1>1, <1>5
<1> HIDE DEF n
<1>8. n \in Waiting BY <1>1, <1>2, <1>3, WaitingIs
<1>9. /\ Gone(n) \in DOMAIN nodes /\ Gone(n) # n /\ Behind(n) # n /\ Behind(n) # Gone(n)
      /\ Behind(n) # NoNode => Behind(n) \in DOMAIN nodes /\ nodes[Behind(n)].prev = Gone(n)
  BY <1>2, <1>3, <1>4, Neighbours
<1>10. n \notin Merged /\ Gone(n) \notin Merged BY <1>4, <1>6 DEF Merged, NewToken
<1>11. /\ DOMAIN nodes' = DOMAIN nodes \ {Gone(n)}
       /\ nodes'[n] = [sym |-> job.merged, prev |-> Before(n), next |-> Behind(n)]
       /\ Behind(n) # NoNode =>
            nodes'[Behind(n)] = [sym |-> nodes[Behind(n)].sym, prev |-> n, next |-> nodes[Behind(n)].next]
       /\ \A m \in DOMAIN nodes \ {n, Gone(n), Behind(n)} : nodes'[m] = nodes[m]
  BY <1>1, <1>2, <1>3, <1>4, JoinedIs
<1>12. ASSUME NEW m \in DOMAIN nodes' \ {n}
       PROVE  /\ nodes'[m].sym = nodes[m].sym /\ nodes'[m].next = nodes[m].next
              /\ nodes'[m].prev = IF m = Behind(n) THEN n ELSE nodes[m].prev
  <2>1. m \in DOMAIN nodes /\ m # n /\ m # Gone(n) /\ m # NoNode BY <1>2, <1>3, <1>11, NodeParts
  <2>2. CASE m = Behind(n) BY <1>11, <2>1, <2>2
  <2>3. CASE m # Behind(n) BY <1>11, <2>1, <2>3
  <2> QED BY <2>2, <2>3
<1>13. Merged' = Merged \cup {n}
  <2>1. nodes'[n].sym = job.merged BY <1>11
  <2> QED BY <1>4, <1>7, <1>9, <1>10, <1>11, <1>12, <2>1 DEF Merged
<1>14. Waiting' \subseteq Waiting \ {n}
  <2>1. Waiting' \subseteq Where(Labels', JobPair')
    BY DEF Waiting, OccurrenceValid, Where, Labels, Following, JobPair
  <2>2. Labels' = LabelsMore(n, LabelsLess(n)) BY <1>1, <1>2, <1>3, <1>4, JoinLabels DEF n
  <2>3. JobPair' = JobPair BY <1>7 DEF JobPair
  <2>4. Where(LabelsMore(n, LabelsLess(n)), JobPair) \subseteq Where(Labels, JobPair) \ {n}
    BY <1>2, <1>3, <1>4, FewerPlaces
  <2>5. Waiting = Where(Labels, JobPair) BY <1>2, <1>3, WaitingIs
  <2> QED BY <2>1, <2>2, <2>3, <2>4, <2>5
<1>15. Waiting' \subseteq ToSet(Tail(job.rest)) BY <1>7 DEF Waiting
<1> QED BY <1>1, <1>2, <1>3, <1>4, <1>6, <1>7, <1>8, <1>10, <1>11, <1>12, <1>13, <1>14, <1>15
        DEF MergesAt, n

\* What it was before the merge does not depend on how far the merge is.
LEMMA JoinUnfolded == ASSUME NEW n, MergesAt(n) PROVE Unfolded' = Unfolded
<1> DEFINE H == {Half(m) : m \in Merged}
           F(k) == IF k \notin DOMAIN nodes THEN job.right
                   ELSE IF k \in Merged THEN job.left ELSE nodes[k].sym
           G(k) == IF k \notin DOMAIN nodes' THEN job'.right
                   ELSE IF k \in Merged' THEN job'.left ELSE nodes'[k].sym
<1>1. \A m : Half(m)' = Half(m) BY DEF MergesAt, Half
<1>2. Half(n) = Gone(n)
  <2>1. n \in DOMAIN nodes /\ nodes[n].next # NoNode BY DEF MergesAt, Joinable, Gone
  <2>2. Gone(n) = <<n[1], End(n)>> BY <2>1, NextParts DEF MergesAt, Gone
  <2> QED BY <2>2 DEF Half, End, Bytes, MergesAt
<1>3. {Half(m)' : m \in Merged'} = H \cup {Gone(n)}
  <2>1. Merged' = Merged \cup {n} BY DEF MergesAt
  <2> QED BY <1>1, <1>2, <2>1
<1>4. n \in DOMAIN nodes /\ Gone(n) \in DOMAIN nodes /\ Gone(n) # n
  <2>1. Words /\ Vocabulary /\ Chained /\ Joinable(n) BY DEF MergesAt
  <2> QED BY <2>1, Neighbours DEF Joinable
<1>5. DOMAIN nodes' \cup {Half(m)' : m \in Merged'} = DOMAIN nodes \cup H
  BY <1>3, <1>4 DEF MergesAt
<1>6. ASSUME NEW k \in DOMAIN nodes \cup H PROVE G(k) = F(k)
  <2>1. CASE k = Gone(n) BY <1>4, <2>1 DEF MergesAt
  <2>2. CASE k = n BY <1>4, <2>2 DEF MergesAt
  <2>3. CASE k # n /\ k # Gone(n)
    <3>1. k \in DOMAIN nodes' <=> k \in DOMAIN nodes BY <2>3 DEF MergesAt
    <3>2. k \in Merged' <=> k \in Merged BY <2>3 DEF MergesAt
    <3>3. k \in DOMAIN nodes => nodes'[k].sym = nodes[k].sym BY <2>3, <3>1 DEF MergesAt
    <3>4. job'.right = job.right /\ job'.left = job.left BY DEF MergesAt
    <3> QED BY <3>1, <3>2, <3>3, <3>4
  <2> QED BY <2>1, <2>2, <2>3
<1>7. Unfolded = [k \in DOMAIN nodes \cup H |-> F(k)] BY DEF Unfolded
<1>8. Unfolded' = [k \in DOMAIN nodes' \cup {Half(m)' : m \in Merged'} |-> G(k)] BY DEF Unfolded
<1> HIDE DEF H, F, G
<1>9. Unfolded' = [k \in DOMAIN nodes \cup H |-> G(k)] BY <1>5, <1>8
<1> QED BY <1>6, <1>7, <1>9

\* The tokens that were nowhere taken apart still are not.
LEMMA JoinWhole ==
  ASSUME NEW n, MergesAt(n), NEW id \in Ids \ {job.merged}, Whole(id)
  PROVE  Whole(id)'
<1>1. Words /\ Vocabulary /\ Chained /\ Joinable(n) BY DEF MergesAt
<1>2. tokens' = tokens /\ DOMAIN nodes' = DOMAIN nodes \ {Gone(n)} BY DEF MergesAt
<1>3. SUFFICES ASSUME NEW m \in DOMAIN nodes', Reads(m, id),
                      EndsAt(Syms', m, Len(tokens[id].bytes))
               PROVE  nodes'[m].sym = id
  BY <1>2 DEF Whole, Reads
<1>4. DOMAIN Syms' = DOMAIN nodes' /\ DOMAIN Syms = DOMAIN nodes BY DEF Syms
<1>5. m \in DOMAIN nodes /\ EndsAt(Syms, m, Len(tokens[id].bytes)) BY <1>2, <1>3, <1>4 DEF EndsAt
<1>6. nodes[m].sym = id BY <1>3, <1>5 DEF Whole
<1>7. CASE m # n BY <1>6, <1>7 DEF MergesAt
<1>8. CASE m = n
  <2>1. id = job.left BY <1>6, <1>8 DEF MergesAt
  <2>2. Gone(n) \in DOMAIN nodes /\ Gone(n)[1] = n[1] /\ Gone(n)[2] = End(n) BY <1>1, Neighbours
  <2>3. /\ Gone(n) = <<Gone(n)[1], Gone(n)[2]>> /\ Gone(n)[2] \in 1 .. Len(Gone(n)[1])
        /\ Len(Gone(n)[1]) \in Nat
    BY <1>1, <2>2, NodeParts
  <2>4. End(n) = n[2] + Len(tokens[id].bytes) BY <1>6, <1>8 DEF End, Bytes
  <2>5. n[2] + Len(tokens[id].bytes) # Len(n[1]) + 1 BY <2>2, <2>3, <2>4
  <2>6. <<n[1], n[2] + Len(tokens[id].bytes)>> = Gone(n) BY <2>2, <2>3, <2>4
  <2> QED BY <1>2, <1>3, <1>4, <1>8, <2>5, <2>6 DEF EndsAt
<1> QED BY <1>7, <1>8

\* The list of a pair, also of one that is not known.
Occs(p) == IF p \in DOMAIN pairs THEN pairs[p].occs ELSE << >>

\* It is a list of positions.
LEMMA OccsType ==
  ASSUME Index PROVE \A p : Occs(p) \in Seq(Position)
<1>1. \A p \in DOMAIN pairs : pairs[p] \in [count : Nat, occs : Seq(Position)]
  BY DEF Index, TheTable, Table, Typed, Position
<1>2. << >> \in Seq(Position) BY EmptySeq
<1> QED BY <1>1, <1>2 DEF Occs

\* To count off does not change a list.
LEMMA DecrementOccs ==
  ASSUME NEW s, NEW p, NEW weight
  PROVE  LET t == Decrement(s, p, weight) IN
         /\ DOMAIN t.pairs = DOMAIN s.pairs
         /\ \A q \in DOMAIN s.pairs : "occs" \in DOMAIN s.pairs[q] =>
              t.pairs[q].occs = s.pairs[q].occs /\ "occs" \in DOMAIN t.pairs[q]
<1> DEFINE t == Decrement(s, p, weight)
           c == IF s.pairs[p].count > weight THEN s.pairs[p].count - weight ELSE 0
<1>1. CASE p \notin DOMAIN s.pairs BY <1>1 DEF Decrement
<1>2. CASE p \in DOMAIN s.pairs
  <2>1. t.pairs = [s.pairs EXCEPT ![p].count = c] BY <1>2 DEF Decrement
  <2> HIDE DEF t, c
  <2>2. DOMAIN t.pairs = DOMAIN s.pairs /\ \A q \in DOMAIN s.pairs \ {p} : t.pairs[q] = s.pairs[q]
    BY <2>1
  <2>3. t.pairs[p] = [s.pairs[p] EXCEPT !.count = c] BY <1>2, <2>1
  <2>4. "occs" \in DOMAIN s.pairs[p] =>
          t.pairs[p].occs = s.pairs[p].occs /\ "occs" \in DOMAIN t.pairs[p]
    BY <2>3
  <2> QED BY <1>2, <2>2, <2>4 DEF t
<1> QED BY <1>1, <1>2

\* To count is to put a node in front of the list.
LEMMA IncrementOccs ==
  ASSUME NEW s, NEW p, NEW weight, NEW n
  PROVE  LET t == Increment(s, p, weight, n) IN
         /\ DOMAIN t.pairs = DOMAIN s.pairs \cup {p}
         /\ t.pairs[p].occs = <<n>> \o (IF p \in DOMAIN s.pairs THEN s.pairs[p] ELSE NoPair).occs
         /\ \A q \in DOMAIN s.pairs \ {p} : t.pairs[q] = s.pairs[q]
<1> DEFINE old == IF p \in DOMAIN s.pairs THEN s.pairs[p] ELSE NoPair
           t == Increment(s, p, weight, n)
<1>1. /\ DOMAIN t.pairs = DOMAIN s.pairs \cup {p}
      /\ t.pairs[p] = [count |-> old.count + weight, occs |-> <<n>> \o old.occs]
      /\ \A q \in DOMAIN s.pairs \ {p} : t.pairs[q] = s.pairs[q]
  BY IncrementIs
<1> HIDE DEF t, old
<1> QED BY <1>1 DEF t, old

\* Neither does all that a merge counts off.
LEMMA UncountedOccs ==
  ASSUME NEW s, NEW n, \A q \in DOMAIN s.pairs : "occs" \in DOMAIN s.pairs[q]
  PROVE  LET t == Uncounted(s, n) IN
         /\ DOMAIN t.pairs = DOMAIN s.pairs
         /\ \A q \in DOMAIN s.pairs : t.pairs[q].occs = s.pairs[q].occs
<1> DEFINE before == nodes[n].prev
           behind == nodes[nodes[n].next].next
           s1 == IF before = NoNode THEN s
                 ELSE Decrement(s, <<nodes[before].sym, job.left>>, Weight(n))
           s2 == Decrement(s1, <<job.left, job.right>>, Weight(n))
           t == IF behind = NoNode THEN s2
                ELSE Decrement(s2, <<job.right, nodes[behind].sym>>, Weight(n))
           Same(a, b) == /\ DOMAIN b.pairs = DOMAIN a.pairs
                         /\ \A q \in DOMAIN a.pairs : /\ b.pairs[q].occs = a.pairs[q].occs
                                                      /\ "occs" \in DOMAIN b.pairs[q]
<1>1. Uncounted(s, n) = t BY DEF Uncounted
<1>2. Same(s, s1) BY DecrementOccs
<1> HIDE DEF s1
<1>3. Same(s1, s2) BY <1>2, DecrementOccs
<1> HIDE DEF s2
<1>4. Same(s2, t) BY <1>2, <1>3, DecrementOccs
<1> HIDE DEF t
<1> QED BY <1>1, <1>2, <1>3, <1>4

\* A merge puts two nodes in front of two lists, if there are two neighbours.
LEMMA JoinOccs ==
  ASSUME TrainerInv, Join, NEW n, n = Head(job.rest),
         Before(n) # NoNode /\ Behind(n) # NoNode =>
           nodes[Before(n)].sym # job.merged \/ nodes[Behind(n)].sym # job.merged,
         NEW p \in DOMAIN pairs'
  PROVE  \/ p \in DOMAIN pairs /\ pairs'[p].occs = pairs[p].occs
         \/ /\ Behind(n) # NoNode /\ p = <<job.merged, nodes[Behind(n)].sym>>
            /\ pairs'[p].occs = <<n>> \o Occs(p)
         \/ /\ Before(n) # NoNode /\ p = <<nodes[Before(n)].sym, job.merged>>
            /\ pairs'[p].occs = <<Before(n)>> \o Occs(p)
<1> DEFINE s == [pairs |-> pairs, touched |-> job.touched]
           t == Uncounted(s, n)
           pb == <<nodes[Before(n)].sym, job.merged>>
           pe == <<job.merged, nodes[Behind(n)].sym>>
           u == IF Before(n) = NoNode THEN t ELSE Increment(t, pb, Weight(n), Before(n))
           v == IF Behind(n) = NoNode THEN u ELSE Increment(u, pe, Weight(n), n)
<1>1. pairs' = v.pairs
  <2>1. pairs' = Recounted(t, n).pairs BY DEF Join
  <2>2. Recounted(t, n) = v BY DEF Recounted, Before, Behind, Gone
  <2> QED BY <2>1, <2>2
<1>2. \A q \in DOMAIN pairs : pairs[q] \in [count : Nat, occs : Seq(Position)]
  <2>1. phase = "merging" BY DEF Join
  <2> QED BY <2>1 DEF TrainerInv, Index, TheTable, Table, Typed, Position
<1>3. s.pairs = pairs /\ \A q \in DOMAIN s.pairs : "occs" \in DOMAIN s.pairs[q] BY <1>2
<1>4. DOMAIN t.pairs = DOMAIN pairs /\ \A q \in DOMAIN pairs : t.pairs[q].occs = pairs[q].occs
  <2> HIDE DEF s
  <2> QED BY <1>3, UncountedOccs
<1> HIDE DEF s, t
<1>5. \A q : (IF q \in DOMAIN t.pairs THEN t.pairs[q] ELSE NoPair).occs = Occs(q)
  BY <1>4 DEF Occs, NoPair
<1>6. /\ Before(n) = NoNode => u = t
      /\ Before(n) # NoNode =>
           /\ DOMAIN u.pairs = DOMAIN t.pairs \cup {pb}
           /\ u.pairs[pb].occs = <<Before(n)>> \o Occs(pb)
           /\ \A q \in DOMAIN t.pairs \ {pb} : u.pairs[q] = t.pairs[q]
  <2>1. CASE Before(n) = NoNode BY <2>1
  <2>2. CASE Before(n) # NoNode
    <3>1. u = Increment(t, pb, Weight(n), Before(n)) BY <2>2
    <3> HIDE DEF pb, u
    <3>2. /\ DOMAIN u.pairs = DOMAIN t.pairs \cup {pb}
          /\ u.pairs[pb].occs = <<Before(n)>> \o
                                (IF pb \in DOMAIN t.pairs THEN t.pairs[pb] ELSE NoPair).occs
          /\ \A q \in DOMAIN t.pairs \ {pb} : u.pairs[q] = t.pairs[q]
      BY <3>1, IncrementOccs
    <3> QED BY <1>5, <2>2, <3>2
  <2> QED BY <2>1, <2>2
<1> HIDE DEF u
<1>7. /\ Behind(n) = NoNode => v = u
      /\ Behind(n) # NoNode =>
           /\ DOMAIN v.pairs = DOMAIN u.pairs \cup {pe}
           /\ v.pairs[pe].occs = <<n>> \o (IF pe \in DOMAIN u.pairs THEN u.pairs[pe] ELSE NoPair).occs
           /\ \A q \in DOMAIN u.pairs \ {pe} : v.pairs[q] = u.pairs[q]
  <2>1. CASE Behind(n) = NoNode BY <2>1
  <2>2. CASE Behind(n) # NoNode
    <3>1. v = Increment(u, pe, Weight(n), n) BY <2>2
    <3> HIDE DEF pe, v
    <3>2. /\ DOMAIN v.pairs = DOMAIN u.pairs \cup {pe}
          /\ v.pairs[pe].occs = <<n>> \o
                                (IF pe \in DOMAIN u.pairs THEN u.pairs[pe] ELSE NoPair).occs
          /\ \A q \in DOMAIN u.pairs \ {pe} : v.pairs[q] = u.pairs[q]
      BY <3>1, IncrementOccs
    <3> QED BY <2>2, <3>2
  <2> QED BY <2>1, <2>2
<1> HIDE DEF v
<1>8. Before(n) # NoNode /\ Behind(n) # NoNode => pb # pe OBVIOUS
<1> DEFINE hasBefore == Before(n) # NoNode
           hasBehind == Behind(n) # NoNode
<1>9. CASE hasBehind /\ p = pe
  <2>1. (IF pe \in DOMAIN u.pairs THEN u.pairs[pe] ELSE NoPair)
          = (IF pe \in DOMAIN t.pairs THEN t.pairs[pe] ELSE NoPair)
    <3> HIDE DEF pb, pe
    <3> QED BY <1>6, <1>8, <1>9
  <2> QED BY <1>1, <1>5, <1>7, <1>9, <2>1
<1>10. CASE ~ (hasBehind /\ p = pe)
  <2>1. p \in DOMAIN u.pairs /\ v.pairs[p] = u.pairs[p]
    <3> HIDE DEF pb, pe
    <3> QED BY <1>1, <1>7, <1>10
  <2>2. CASE hasBefore /\ p = pb BY <1>1, <1>6, <2>1, <2>2
  <2>3. CASE ~ (hasBefore /\ p = pb)
    <3>1. p \in DOMAIN t.pairs /\ u.pairs[p] = t.pairs[p]
      <4> HIDE DEF pb
      <4> QED BY <1>6, <2>1, <2>3
    <3> QED BY <1>1, <1>4, <2>1, <3>1
  <2> QED BY <2>2, <2>3
<1> QED BY <1>9, <1>10

\* The members of a list of positions.
LEMMA ListedAt ==
  ASSUME Words, NEW s \in Seq(Position), NEW f \in ToSet(s)
  PROVE  /\ f = <<f[1], f[2]>> /\ f[2] \in Nat /\ f \in Position
<1>1. f \in Position BY DEF ToSet
<1>2. f = <<f[1], f[2]>> /\ Len(f[1]) \in Nat /\ f[2] \in 1 .. Len(f[1]) BY <1>1, AtPosition
<1> QED BY <1>1, <1>2

\* The neighbours of a node that is merged.
LEMMA Around ==
  ASSUME NEW n, MergesAt(n)
  PROVE  /\ n \in DOMAIN nodes /\ n \in Position /\ n = <<n[1], n[2]>> /\ n[2] \in Nat
         /\ nodes[n].prev = Before(n) /\ nodes[n].next = Gone(n)
         /\ Gone(n) \in DOMAIN nodes /\ Gone(n) # n /\ Gone(n) # NoNode
         /\ Gone(n)[1] = n[1] /\ Gone(n)[2] \in Nat /\ n[2] < Gone(n)[2]
         /\ nodes[Gone(n)].prev = n /\ nodes[Gone(n)].next = Behind(n)
         /\ Behind(n) # NoNode => /\ Behind(n) \in DOMAIN nodes' /\ Behind(n) # n
                                  /\ Behind(n)[1] = n[1] /\ Behind(n)[2] \in Nat
                                  /\ n[2] < Behind(n)[2]
         /\ Before(n) # NoNode => /\ Before(n) \in DOMAIN nodes' /\ Before(n) # n
                                  /\ Before(n)[1] = n[1] /\ Before(n)[2] \in Nat
                                  /\ Before(n)[2] < n[2] /\ Before(n) \in Position
                                  /\ nodes[Before(n)].next = n
         /\ job.merged # job.left /\ job.merged # job.right
         /\ DOMAIN nodes' \subseteq DOMAIN nodes
         /\ \A m \in DOMAIN nodes : /\ m = <<m[1], m[2]>> /\ m[2] \in Nat /\ m # NoNode /\ m \in Position
                                    /\ nodes[m].next # NoNode => /\ nodes[m].next \in DOMAIN nodes
                                                                 /\ nodes[nodes[m].next].prev = m
                                    /\ nodes[m].prev # NoNode => /\ nodes[m].prev \in DOMAIN nodes
                                                                 /\ nodes[nodes[m].prev].next = m
<1>1. Words /\ Vocabulary /\ Chained /\ Joinable(n) BY DEF MergesAt
<1>2. n \in DOMAIN nodes /\ nodes[n].next # NoNode BY <1>1 DEF Joinable, Gone
<1>3. \A m \in DOMAIN nodes : m = <<m[1], m[2]>> /\ m[2] \in Nat /\ m # NoNode /\ m \in Position
  BY <1>1, NodeParts
<1>4. \A m \in DOMAIN nodes : nodes[m].next # NoNode =>
        /\ nodes[m].next \in DOMAIN nodes /\ nodes[nodes[m].next].prev = m
        /\ nodes[m].next[1] = m[1] /\ nodes[m].next[2] > m[2]
  BY <1>1, NextParts
<1>5. \A m \in DOMAIN nodes : nodes[m].prev # NoNode =>
        /\ nodes[m].prev \in DOMAIN nodes /\ nodes[nodes[m].prev].next = m
        /\ nodes[m].prev[1] = m[1] /\ nodes[m].prev[2] < m[2]
  BY <1>1, PrevParts
<1>6. nodes[n].prev = Before(n) /\ nodes[n].next = Gone(n) /\ nodes[Gone(n)].next = Behind(n)
  BY DEF Before, Gone, Behind
<1>7. Gone(n) \in DOMAIN nodes /\ Gone(n) # n /\ Before(n) # Gone(n) /\ Before(n) # n
      /\ Behind(n) # n /\ Behind(n) # Gone(n)
  BY <1>1, Neighbours
<1>8. Behind(n) # NoNode =>
        /\ Behind(n) \in DOMAIN nodes' /\ Behind(n) # n /\ Behind(n)[1] = n[1]
        /\ Behind(n)[2] \in Nat /\ n[2] < Behind(n)[2]
  <2> SUFFICES ASSUME Behind(n) # NoNode
               PROVE  /\ Behind(n) \in DOMAIN nodes' /\ Behind(n) # n /\ Behind(n)[1] = n[1]
                      /\ Behind(n)[2] \in Nat /\ n[2] < Behind(n)[2]
    OBVIOUS
  <2>1. Behind(n) \in DOMAIN nodes /\ Behind(n)[1] = Gone(n)[1] /\ Behind(n)[2] > Gone(n)[2]
    BY <1>4, <1>6, <1>7
  <2>2. Gone(n)[1] = n[1] /\ Gone(n)[2] > n[2] BY <1>2, <1>4, <1>6
  <2>3. Behind(n)[2] \in Nat /\ Gone(n)[2] \in Nat /\ n[2] \in Nat BY <1>2, <1>3, <1>7, <2>1
  <2>4. Behind(n) \in DOMAIN nodes' BY <1>7, <2>1 DEF MergesAt
  <2> QED BY <1>7, <2>1, <2>2, <2>3, <2>4
<1>9. Before(n) # NoNode =>
        /\ Before(n) \in DOMAIN nodes' /\ Before(n) # n /\ Before(n)[1] = n[1]
        /\ Before(n)[2] \in Nat /\ Before(n)[2] < n[2] /\ Before(n) \in Position
        /\ nodes[Before(n)].next = n
  <2> SUFFICES ASSUME Before(n) # NoNode
               PROVE  /\ Before(n) \in DOMAIN nodes' /\ Before(n) # n /\ Before(n)[1] = n[1]
                      /\ Before(n)[2] \in Nat /\ Before(n)[2] < n[2] /\ Before(n) \in Position
                      /\ nodes[Before(n)].next = n
    OBVIOUS
  <2>1. /\ Before(n) \in DOMAIN nodes /\ Before(n)[1] = n[1] /\ Before(n)[2] < n[2]
        /\ nodes[Before(n)].next = n
    BY <1>2, <1>5, <1>6
  <2>2. Before(n) \in DOMAIN nodes' BY <1>7, <2>1 DEF MergesAt
  <2> QED BY <1>3, <1>7, <2>1, <2>2
<1>10. Gone(n)[1] = n[1] /\ Gone(n)[2] \in Nat /\ n[2] < Gone(n)[2] /\ nodes[Gone(n)].prev = n
       /\ Gone(n) # NoNode
  BY <1>2, <1>3, <1>4, <1>6, <1>7
<1>11. job.merged # job.left /\ job.merged # job.right BY DEF MergesAt, NewToken
<1>12. DOMAIN nodes' \subseteq DOMAIN nodes BY DEF MergesAt
<1>13. n \in Position /\ n = <<n[1], n[2]>> /\ n[2] \in Nat BY <1>2, <1>3
<1>14. \A m \in DOMAIN nodes :
         /\ nodes[m].next # NoNode => nodes[m].next \in DOMAIN nodes /\ nodes[nodes[m].next].prev = m
         /\ nodes[m].prev # NoNode => nodes[m].prev \in DOMAIN nodes /\ nodes[nodes[m].prev].next = m
  BY <1>4, <1>5
<1> QED BY <1>2, <1>3, <1>6, <1>7, <1>8, <1>9, <1>10, <1>11, <1>12, <1>13, <1>14

\* The lists with the merged token were either known before or are empty.
LEMMA NewOccs ==
  ASSUME NEW p, job.merged \in {p[1], p[2]}
  PROVE  (p \in NewPairs /\ Occs(p) = pairs[p].occs) \/ Occs(p) = << >>
BY DEF NewPairs, Occs

\* A merge is never between two merged tokens.
LEMMA OneMerged ==
  ASSUME NEW n, MergesAt(n), Descending \/ Ascending, Before(n) # NoNode, Behind(n) # NoNode
  PROVE  nodes[Before(n)].sym # job.merged \/ nodes[Behind(n)].sym # job.merged
<1>1. /\ n[2] \in Nat
      /\ Behind(n) \in DOMAIN nodes /\ Behind(n)[1] = n[1] /\ Behind(n)[2] \in Nat /\ n[2] < Behind(n)[2]
      /\ Before(n) \in DOMAIN nodes /\ Before(n)[1] = n[1] /\ Before(n)[2] \in Nat /\ Before(n)[2] < n[2]
  BY Around
<1>2. n \in Waiting BY DEF MergesAt
<1>3. CASE Descending
  <2>1. SUFFICES ASSUME Before(n) \in Merged PROVE FALSE BY <1>1 DEF Merged
  <2>2. n[2] < Before(n)[2] BY <1>1, <1>2, <1>3, <2>1 DEF Descending
  <2> QED BY <1>1, <2>2
<1>4. CASE Ascending
  <2>1. SUFFICES ASSUME Behind(n) \in Merged PROVE FALSE BY <1>1 DEF Merged
  <2>2. Behind(n)[2] < n[2] BY <1>1, <1>2, <1>4, <2>1 DEF Ascending
  <2> QED BY <1>1, <2>2
<1> QED BY <1>3, <1>4

\* From the right, merges go on from the right ...
LEMMA JoinDescending == ASSUME TrainerInv, Join, Descending PROVE Descending'
<1> DEFINE n == Head(job.rest)
<1>1. MergesAt(n) BY JoinMergesAt
<1> HIDE DEF n
<1>2. /\ n \in DOMAIN nodes /\ n \in Position /\ n = <<n[1], n[2]>> /\ n[2] \in Nat
      /\ nodes[n].prev = Before(n) /\ Gone(n) \in DOMAIN nodes /\ Gone(n) # n /\ Gone(n) # NoNode
      /\ Gone(n)[1] = n[1] /\ Gone(n)[2] \in Nat /\ n[2] < Gone(n)[2]
      /\ nodes[Gone(n)].prev = n /\ nodes[Gone(n)].next = Behind(n)
      /\ Behind(n) # NoNode => Behind(n) \in DOMAIN nodes' /\ Behind(n) # n
      /\ Before(n) # NoNode => /\ Before(n) \in DOMAIN nodes' /\ Before(n)[1] = n[1]
                               /\ Before(n)[2] \in Nat /\ Before(n)[2] < n[2]
                               /\ Before(n) \in Position
      /\ job.merged # job.left /\ DOMAIN nodes' \subseteq DOMAIN nodes
      /\ \A m \in DOMAIN nodes : /\ m = <<m[1], m[2]>> /\ m[2] \in Nat
                                 /\ nodes[m].next # NoNode => /\ nodes[m].next \in DOMAIN nodes
                                                              /\ nodes[nodes[m].next].prev = m
  BY <1>1, Around
<1>3. /\ Words /\ Vocabulary /\ Chained /\ Merging /\ job.rest # << >> /\ job.rest \in Seq(Position)
      /\ n = Head(job.rest) /\ n \in Waiting /\ n \notin Merged
      /\ nodes[n].sym = job.left /\ nodes[Gone(n)].sym = job.right
      /\ nodes'[n] = [sym |-> job.merged, prev |-> Before(n), next |-> Behind(n)]
      /\ job'.left = job.left /\ job'.right = job.right /\ job'.merged = job.merged
      /\ job'.rest = Tail(job.rest)
      /\ Merged' = Merged \cup {n} /\ Waiting' \subseteq Waiting \ {n}
  BY <1>1 DEF MergesAt, Merging
<1>4. Index BY DEF Join, TrainerInv
<1>5. /\ Waiting \subseteq DOMAIN nodes /\ \A r : r \in Waiting <=> OccurrenceValid(r)
  BY <1>3, WaitingIs
<1>6. Down(job'.rest) /\ \A f \in ToSet(Tail(job.rest)) : f[1] = n[1] => f[2] <= n[2]
  BY <1>3, DownHead DEF Descending
<1>7. ASSUME NEW r \in Waiting, r # n, r[1] = n[1] PROVE r[2] < n[2]
  <2>1. r \in ToSet(Tail(job.rest)) BY <1>3, <1>7, TailSet DEF Waiting
  <2>2. r = <<r[1], r[2]>> /\ r[2] \in Nat BY <1>2, <1>5
  <2>3. r[2] # n[2] BY <1>2, <1>7, <2>2
  <2> QED BY <1>2, <1>6, <1>7, <2>1, <2>2, <2>3
<1>8. /\ \A m \in Merged : \A r \in Waiting : r[1] = m[1] => r[2] < m[2]
      /\ \A m \in Merged : job.left = job.right /\ nodes[m].next # NoNode =>
           nodes[nodes[m].next].sym # job.left
      /\ \A p \in NewPairs : /\ Up(pairs[p].occs)
                             /\ \A f \in ToSet(pairs[p].occs) : \A r \in Waiting :
                                  r[1] = f[1] => r[2] <= f[2]
  BY DEF Descending
<1>9. Before(n) # NoNode /\ Behind(n) # NoNode =>
        nodes[Before(n)].sym # job.merged \/ nodes[Behind(n)].sym # job.merged
  BY <1>1, OneMerged
<1>10. ASSUME NEW m \in Merged', NEW r \in Waiting', r[1] = m[1] PROVE r[2] < m[2]
  <2>1. r \in Waiting /\ r # n BY <1>3
  <2>2. CASE m = n BY <1>7, <1>10, <2>1, <2>2
  <2>3. CASE m # n BY <1>3, <1>8, <1>10, <2>1, <2>3
  <2> QED BY <2>2, <2>3
<1>11. ASSUME NEW m \in Merged', job.left = job.right, nodes'[m].next # NoNode
       PROVE  nodes'[nodes'[m].next].sym # job.left
  <2>1. CASE m = n
    <3>1. nodes'[m].next = Behind(n) BY <1>3, <2>1
    <3>2. nodes'[Behind(n)].sym = nodes[Behind(n)].sym BY <1>1, <1>2, <1>11, <3>1 DEF MergesAt
    <3>3. SUFFICES ASSUME nodes[Behind(n)].sym = job.left PROVE FALSE BY <3>1, <3>2
    <3>4. OccurrenceValid(Gone(n)) BY <1>2, <1>3, <1>11, <3>1, <3>3 DEF OccurrenceValid
    <3>5. Gone(n) \in Waiting BY <1>5, <3>4
    <3>6. Gone(n)[2] < n[2] BY <1>2, <1>7, <3>5
    <3> QED BY <1>2, <3>6
  <2>2. CASE m # n
    <3>1. m \in Merged /\ m \in DOMAIN nodes /\ m \in DOMAIN nodes' BY <1>3, <2>2 DEF Merged
    <3>2. nodes'[m].next = nodes[m].next BY <1>1, <2>2, <3>1 DEF MergesAt
    <3> DEFINE q == nodes[m].next
    <3>3. q \in DOMAIN nodes /\ nodes[q].prev = m /\ nodes[q].sym # job.left
      BY <1>2, <1>8, <1>11, <3>1, <3>2
    <3>4. q # Gone(n) BY <1>2, <2>2, <3>3
    <3> HIDE DEF q
    <3>5. CASE q = n BY <1>2, <1>3, <3>2, <3>5 DEF q
    <3>6. CASE q # n
      <4>1. q \in DOMAIN nodes' \ {n} BY <1>1, <3>3, <3>4, <3>6 DEF MergesAt
      <4>2. nodes'[q].sym = nodes[q].sym BY <1>1, <4>1 DEF MergesAt
      <4> QED BY <3>2, <3>3, <4>2 DEF q
    <3> QED BY <3>5, <3>6
  <2> QED BY <2>1, <2>2
<1>12. ASSUME NEW p \in NewPairs'
       PROVE  /\ Up(pairs'[p].occs)
              /\ \A f \in ToSet(pairs'[p].occs) : \A r \in Waiting' : r[1] = f[1] => r[2] <= f[2]
  <2>1. p \in DOMAIN pairs' /\ job.merged \in {p[1], p[2]} BY <1>3 DEF NewPairs
  <2>2. Occs(p) \in Seq(Position) BY <1>4, OccsType
  <2>3. /\ Up(Occs(p))
        /\ \A f \in ToSet(Occs(p)) : \A r \in Waiting : r[1] = f[1] => r[2] <= f[2]
    <3>1. (p \in NewPairs /\ Occs(p) = pairs[p].occs) \/ Occs(p) = << >> BY <2>1, NewOccs
    <3> QED BY <1>8, <3>1, NoOrder
  <2>4. \A f \in ToSet(Occs(p)) : f[2] \in Nat BY <1>3, <2>2, ListedAt
  <2>5. CASE p \in DOMAIN pairs /\ pairs'[p].occs = pairs[p].occs
    <3>1. pairs'[p].occs = Occs(p) BY <2>5 DEF Occs
    <3> QED BY <1>3, <2>3, <3>1
  <2>6. CASE pairs'[p].occs = <<n>> \o Occs(p)
    <3>1. Up(<<n>> \o Occs(p)) /\ ToSet(<<n>> \o Occs(p)) = {n} \cup ToSet(Occs(p))
      BY <1>2, <1>3, <2>2, <2>3, InFront
    <3>2. \A r \in Waiting' : r \in Waiting /\ r # n /\ r[2] \in Nat BY <1>2, <1>3, <1>5
    <3>3. \A r \in Waiting' : r[1] = n[1] => r[2] <= n[2] BY <1>2, <1>7, <3>2
    <3> QED BY <2>3, <2>6, <3>1, <3>2, <3>3
  <2>7. CASE Before(n) # NoNode /\ pairs'[p].occs = <<Before(n)>> \o Occs(p)
    <3> DEFINE b == Before(n)
    <3>1. b[1] = n[1] /\ b[2] \in Nat /\ b[2] < n[2] /\ b \in Position BY <1>2, <2>7
    <3>2. \A f \in ToSet(Occs(p)) : f[1] = b[1] => b[2] <= f[2]
      <4>1. \A f \in ToSet(Occs(p)) : n[1] = f[1] => n[2] <= f[2] BY <1>3, <2>3
      <4> QED BY <1>2, <2>4, <3>1, <4>1
    <3> HIDE DEF b
    <3>3. Up(<<b>> \o Occs(p)) /\ ToSet(<<b>> \o Occs(p)) = {b} \cup ToSet(Occs(p))
      BY <2>2, <2>3, <3>1, <3>2, InFront
    <3>4. ASSUME NEW r \in Waiting', r[1] = b[1] PROVE r[2] <= b[2]
      <4>1. r \in Waiting /\ r # n /\ r \in DOMAIN nodes /\ r[1] = n[1] BY <1>3, <1>5, <3>1, <3>4
      <4>2. r[2] < n[2] BY <1>7, <4>1
      <4> QED BY <1>2, <1>3, <2>7, <4>1, <4>2, NodeBefore DEF b
    <3> QED BY <1>3, <2>3, <2>7, <3>3, <3>4 DEF b
  <2> QED BY <1>3, <1>9, <2>1, <2>5, <2>6, <2>7, JoinOccs
<1> QED BY <1>3, <1>6, <1>10, <1>11, <1>12 DEF Descending

\* ... and from the left, from the left.
LEMMA JoinAscending == ASSUME TrainerInv, Join, Ascending PROVE Ascending'
<1> DEFINE n == Head(job.rest)
<1>1. MergesAt(n) BY JoinMergesAt
<1> HIDE DEF n
<1>2. /\ n \in DOMAIN nodes /\ n \in Position /\ n = <<n[1], n[2]>> /\ n[2] \in Nat
      /\ nodes[n].next = Gone(n) /\ Gone(n) \in DOMAIN nodes /\ Gone(n) # n /\ Gone(n) # NoNode
      /\ nodes[n].prev = Before(n)
      /\ Gone(n)[1] = n[1] /\ Gone(n)[2] \in Nat /\ n[2] < Gone(n)[2]
      /\ nodes[Gone(n)].prev = n /\ nodes[Gone(n)].next = Behind(n)
      /\ Behind(n) # NoNode => /\ Behind(n) \in DOMAIN nodes' /\ Behind(n)[1] = n[1]
                               /\ Behind(n)[2] \in Nat /\ n[2] < Behind(n)[2]
      /\ Before(n) # NoNode => /\ Before(n) \in DOMAIN nodes' /\ Before(n)[1] = n[1]
                               /\ Before(n)[2] \in Nat /\ Before(n)[2] < n[2]
                               /\ Before(n) \in Position /\ Before(n) # n
                               /\ nodes[Before(n)].next = n
      /\ job.merged # job.left /\ DOMAIN nodes' \subseteq DOMAIN nodes
      /\ \A m \in DOMAIN nodes : /\ m = <<m[1], m[2]>> /\ m[2] \in Nat
                                 /\ nodes[m].prev # NoNode => /\ nodes[m].prev \in DOMAIN nodes
                                                              /\ nodes[nodes[m].prev].next = m
  BY <1>1, Around
<1>3. /\ Words /\ Vocabulary /\ Chained /\ Merging /\ job.rest # << >> /\ job.rest \in Seq(Position)
      /\ n = Head(job.rest) /\ n \in Waiting /\ n \notin Merged /\ Gone(n) \notin Merged
      /\ nodes[n].sym = job.left /\ nodes[Gone(n)].sym = job.right
      /\ nodes'[n] = [sym |-> job.merged, prev |-> Before(n), next |-> Behind(n)]
      /\ job'.left = job.left /\ job'.right = job.right /\ job'.merged = job.merged
      /\ job'.rest = Tail(job.rest)
      /\ Merged' = Merged \cup {n} /\ Waiting' \subseteq Waiting \ {n}
  BY <1>1 DEF MergesAt, Merging
<1>4. Index BY DEF Join, TrainerInv
<1>5. /\ Waiting \subseteq DOMAIN nodes /\ \A r : r \in Waiting <=> OccurrenceValid(r)
  BY <1>3, WaitingIs
<1>6. Up(job'.rest) /\ \A f \in ToSet(Tail(job.rest)) : f[1] = n[1] => n[2] <= f[2]
  BY <1>3, UpHead DEF Ascending
<1>7. ASSUME NEW r \in Waiting, r # n, r[1] = n[1] PROVE n[2] < r[2]
  <2>1. r \in ToSet(Tail(job.rest)) BY <1>3, <1>7, TailSet DEF Waiting
  <2>2. r = <<r[1], r[2]>> /\ r[2] \in Nat BY <1>2, <1>5
  <2>3. r[2] # n[2] BY <1>2, <1>7, <2>2
  <2> QED BY <1>2, <1>6, <1>7, <2>1, <2>2, <2>3
<1>8. /\ \A m \in Merged : \A r \in Waiting : r[1] = m[1] => m[2] < r[2]
      /\ \A m \in Merged : job.left = job.right /\ nodes[m].prev # NoNode =>
           nodes[nodes[m].prev].sym # job.left
      /\ \A p \in NewPairs : /\ Down(pairs[p].occs)
                             /\ \A f \in ToSet(pairs[p].occs) : \E m \in Merged :
                                  m[1] = f[1] /\ f[2] <= m[2]
  BY DEF Ascending
<1>9. Before(n) # NoNode /\ Behind(n) # NoNode =>
        nodes[Before(n)].sym # job.merged \/ nodes[Behind(n)].sym # job.merged
  BY <1>1, OneMerged
<1>10. ASSUME NEW m \in Merged', NEW r \in Waiting', r[1] = m[1] PROVE m[2] < r[2]
  <2>1. r \in Waiting /\ r # n BY <1>3
  <2>2. CASE m = n BY <1>7, <1>10, <2>1, <2>2
  <2>3. CASE m # n BY <1>3, <1>8, <1>10, <2>1, <2>3
  <2> QED BY <2>2, <2>3
<1>11. ASSUME NEW m \in Merged', job.left = job.right, nodes'[m].prev # NoNode
       PROVE  nodes'[nodes'[m].prev].sym # job.left
  <2>1. CASE m = n
    <3>1. nodes'[m].prev = Before(n) BY <1>3, <2>1
    <3>2. nodes'[Before(n)].sym = nodes[Before(n)].sym BY <1>1, <1>2, <1>11, <3>1 DEF MergesAt
    <3>3. SUFFICES ASSUME nodes[Before(n)].sym = job.left PROVE FALSE BY <3>1, <3>2
    <3>4. n # NoNode BY <1>2, <1>3, NodeParts
    <3>5. OccurrenceValid(Before(n)) BY <1>2, <1>3, <1>11, <3>1, <3>3, <3>4 DEF OccurrenceValid
    <3>6. Before(n) \in Waiting BY <1>5, <3>5
    <3>7. n[2] < Before(n)[2] BY <1>2, <1>7, <1>11, <3>1, <3>6
    <3> QED BY <1>2, <1>11, <3>1, <3>7
  <2>2. CASE m # n
    <3>1. m \in Merged /\ m \in DOMAIN nodes /\ m # Gone(n) BY <1>3, <2>2 DEF Merged
    <3>2. m \in DOMAIN nodes' \ {n} BY <1>1, <2>2, <3>1 DEF MergesAt
    <3>3. nodes'[m].prev = IF m = Behind(n) THEN n ELSE nodes[m].prev BY <1>1, <3>2 DEF MergesAt
    <3>4. CASE nodes'[m].prev = n BY <1>2, <1>3, <3>4
    <3>5. CASE nodes'[m].prev # n
      <4> DEFINE q == nodes[m].prev
      <4>1. nodes'[m].prev = q /\ m # Behind(n) /\ q # n BY <3>3, <3>5
      <4>2. q \in DOMAIN nodes /\ nodes[q].next = m /\ nodes[q].sym # job.left
        BY <1>2, <1>8, <1>11, <3>1, <4>1
      <4>3. q # Gone(n)
        <5>1. nodes[Gone(n)].next = Behind(n) BY <1>2
        <5> QED BY <4>1, <4>2, <5>1
      <4> HIDE DEF q
      <4>4. q \in DOMAIN nodes' \ {n} BY <1>1, <4>1, <4>2, <4>3 DEF MergesAt
      <4>5. nodes'[q].sym = nodes[q].sym BY <1>1, <4>4 DEF MergesAt
      <4> QED BY <4>1, <4>2, <4>5
    <3> QED BY <3>4, <3>5
  <2> QED BY <2>1, <2>2
<1>12. ASSUME NEW p \in NewPairs'
       PROVE  /\ Down(pairs'[p].occs)
              /\ \A f \in ToSet(pairs'[p].occs) : \E m \in Merged' : m[1] = f[1] /\ f[2] <= m[2]
  <2>1. p \in DOMAIN pairs' /\ job.merged \in {p[1], p[2]} BY <1>3 DEF NewPairs
  <2>2. Occs(p) \in Seq(Position) BY <1>4, OccsType
  <2>3. /\ Down(Occs(p))
        /\ \A f \in ToSet(Occs(p)) : \E m \in Merged : m[1] = f[1] /\ f[2] <= m[2]
    <3>1. (p \in NewPairs /\ Occs(p) = pairs[p].occs) \/ Occs(p) = << >> BY <2>1, NewOccs
    <3> QED BY <1>8, <3>1, NoOrder
  <2>4. \A f \in ToSet(Occs(p)) : f[2] \in Nat BY <1>3, <2>2, ListedAt
  <2>5. \A f \in ToSet(Occs(p)) : \E m \in Merged' : m[1] = f[1] /\ f[2] <= m[2] BY <1>3, <2>3
  <2>6. CASE p \in DOMAIN pairs /\ pairs'[p].occs = pairs[p].occs
    <3>1. pairs'[p].occs = Occs(p) BY <2>6 DEF Occs
    <3> QED BY <2>3, <2>5, <3>1
  <2>7. CASE pairs'[p].occs = <<n>> \o Occs(p)
    <3>1. ASSUME NEW f \in ToSet(Occs(p)), f[1] = n[1] PROVE f[2] <= n[2]
      <4>1. PICK m \in Merged : m[1] = f[1] /\ f[2] <= m[2] BY <2>3
      <4>2. m[2] < n[2] /\ m[2] \in Nat BY <1>2, <1>3, <1>8, <3>1, <4>1 DEF Merged
      <4> QED BY <1>2, <2>4, <4>1, <4>2
    <3>2. Down(<<n>> \o Occs(p)) /\ ToSet(<<n>> \o Occs(p)) = {n} \cup ToSet(Occs(p))
      BY <1>2, <2>2, <2>3, <3>1, InFront
    <3>3. n \in Merged' /\ n[2] <= n[2] BY <1>2, <1>3
    <3> QED BY <2>5, <2>7, <3>2, <3>3
  <2>8. CASE Before(n) # NoNode /\ pairs'[p].occs = <<Before(n)>> \o Occs(p)
    <3> DEFINE b == Before(n)
    <3>1. b[1] = n[1] /\ b[2] \in Nat /\ b[2] < n[2] /\ b \in Position BY <1>2, <2>8
    <3>2. ASSUME NEW f \in ToSet(Occs(p)), f[1] = b[1] PROVE f[2] <= b[2]
      <4>1. PICK m \in Merged : m[1] = f[1] /\ f[2] <= m[2] BY <2>3
      <4>2. m \in DOMAIN nodes /\ m[1] = n[1] /\ m[2] < n[2] /\ m[2] \in Nat
        BY <1>2, <1>3, <1>8, <3>1, <3>2, <4>1 DEF Merged
      <4>3. m[2] <= b[2] BY <1>2, <1>3, <2>8, <4>2, NodeBefore
      <4> QED BY <2>4, <3>1, <4>1, <4>2, <4>3
    <3> HIDE DEF b
    <3>3. Down(<<b>> \o Occs(p)) /\ ToSet(<<b>> \o Occs(p)) = {b} \cup ToSet(Occs(p))
      BY <2>2, <2>3, <3>1, <3>2, InFront
    <3>4. n \in Merged' /\ b[2] <= n[2] BY <1>2, <1>3, <3>1
    <3> QED BY <2>5, <2>8, <3>1, <3>3, <3>4 DEF b
  <2> QED BY <1>3, <1>9, <2>1, <2>6, <2>7, <2>8, JoinOccs
<1> QED BY <1>3, <1>6, <1>10, <1>11, <1>12 DEF Ascending

\* Nothing else that holds in the middle of a merge is lost.
LEMMA JoinSettling == ASSUME TrainerInv, Join, Settling PROVE Settling'
<1> DEFINE n == Head(job.rest)
<1>1. MergesAt(n) /\ n = Head(job.rest) BY JoinMergesAt
<1> HIDE DEF n
<1>2. /\ tokens' = tokens /\ wordMap' = wordMap
      /\ job'.left = job.left /\ job'.right = job.right /\ job'.merged = job.merged
  BY <1>1 DEF MergesAt
<1>3. Unfolded' = Unfolded BY <1>1, JoinUnfolded
<1>4. /\ job.merged = Len(tokens) /\ WithParts(tokens, job.left, job.right) = {job.merged}
      /\ Chain(Unfolded) /\ Uniform(Unfolded) /\ Sample
      /\ \A id \in Ids \ {job.merged} : Whole(id)
      /\ \A p \in DOMAIN pairs \ NewPairs : Directed(p)
      /\ Descending \/ Ascending
  BY DEF Settling
<1>5. Ids' = Ids /\ Position' = Position BY <1>2 DEF Ids, Position
<1>6. Chain(Unfolded)' BY <1>2, <1>3, <1>4, <1>5 DEF Chain, Reads, Size, EndsAt
<1>7. Uniform(Unfolded)' BY <1>3, <1>4 DEF Uniform, EndsAt
<1>8. Sample'
  <2>1. \A m : Half(m)' = Half(m) BY <1>2 DEF Half
  <2> QED BY <1>2, <1>3, <1>4, <2>1 DEF Sample
<1>9. ASSUME NEW id \in Ids' \ {job'.merged} PROVE Whole(id)'
  BY <1>1, <1>2, <1>4, <1>5, JoinWhole
<1>10. ASSUME NEW p \in DOMAIN pairs' \ NewPairs' PROVE Directed(p)'
  <2>1. job.merged \notin {p[1], p[2]} BY <1>2 DEF NewPairs
  <2>2. Before(n) # NoNode /\ Behind(n) # NoNode =>
          nodes[Before(n)].sym # job.merged \/ nodes[Behind(n)].sym # job.merged
    BY <1>1, <1>4, OneMerged
  <2>3. \/ p \in DOMAIN pairs /\ pairs'[p].occs = pairs[p].occs
        \/ p = <<job.merged, nodes[Behind(n)].sym>>
        \/ p = <<nodes[Before(n)].sym, job.merged>>
    BY <1>1, <2>2, JoinOccs
  <2>4. p \in DOMAIN pairs /\ pairs'[p].occs = pairs[p].occs BY <2>1, <2>3
  <2>5. Directed(p) BY <1>4, <2>1, <2>4 DEF NewPairs
  <2> QED BY <2>4, <2>5 DEF Directed
<1>11. (Descending \/ Ascending)' BY <1>4, JoinDescending, JoinAscending
<1> QED BY <1>2, <1>4, <1>6, <1>7, <1>8, <1>9, <1>10, <1>11 DEF Settling

\* To skip what is no place of the pair changes only what is to be visited.
LEMMA SkipSettling == ASSUME TrainerInv, Skip, Settling PROVE Settling'
<1>1. /\ phase = "merging" /\ job.rest # << >> /\ ~ OccurrenceValid(Head(job.rest))
      /\ job' = [job EXCEPT !.rest = Tail(@)]
      /\ UNCHANGED <<phase, wordMap, tokens, nodes, pairs, heap>>
  BY DEF Skip
<1>2. Merging /\ job.rest \in Seq(Position) BY <1>1 DEF TrainerInv, Merging
<1>3. /\ job'.left = job.left /\ job'.right = job.right /\ job'.merged = job.merged
      /\ job'.rest = Tail(job.rest)
  BY <1>1, <1>2 DEF Merging
<1>4. /\ \A n : OccurrenceValid(n)' <=> OccurrenceValid(n)
      /\ Merged' = Merged /\ NewPairs' = NewPairs /\ \A m : Half(m)' = Half(m)
      /\ Ids' = Ids /\ Position' = Position /\ Syms' = Syms
  BY <1>1, <1>3 DEF OccurrenceValid, Merged, NewPairs, Half, Ids, Position, Syms
<1>5. Waiting' \subseteq Waiting
  <2>1. ToSet(Tail(job.rest)) \subseteq ToSet(job.rest) BY <1>1, <1>2, TailIn
  <2> QED BY <1>3, <1>4, <2>1 DEF Waiting
<1>6. Unfolded' = Unfolded BY <1>1, <1>3, <1>4 DEF Unfolded
<1>7. Chain(Unfolded)' <=> Chain(Unfolded)
  BY <1>1, <1>4, <1>6 DEF Chain, Reads, Size, EndsAt
<1>8. Uniform(Unfolded)' <=> Uniform(Unfolded) BY <1>6 DEF Uniform, EndsAt
<1>9. Sample' <=> Sample BY <1>3, <1>4, <1>6 DEF Sample
<1>10. \A id : Whole(id)' <=> Whole(id) BY <1>1, <1>4 DEF Whole, Reads, EndsAt
<1>11. \A p : Directed(p)' <=> Directed(p) BY <1>1 DEF Directed
<1>12. ASSUME Descending PROVE Descending'
  <2>1. Down(job'.rest) BY <1>1, <1>2, <1>3, <1>12, DownHead DEF Descending
  <2> QED BY <1>1, <1>3, <1>4, <1>5, <1>12, <2>1 DEF Descending
<1>13. ASSUME Ascending PROVE Ascending'
  <2>1. Up(job'.rest) BY <1>1, <1>2, <1>3, <1>13, UpHead DEF Ascending
  <2> QED BY <1>1, <1>3, <1>4, <1>5, <1>13, <2>1 DEF Ascending
<1> QED BY <1>1, <1>3, <1>4, <1>7, <1>8, <1>9, <1>10, <1>11, <1>12, <1>13 DEF Settling

----------------------------------------------------------------------------
(* The end of a merge: all is settled again.                               *)

\* By then all places of the pair are merged, and like bytes are still alike.
LEMMA EndSettled == ASSUME TrainerInv, EndMerge, Settling PROVE Settled'
<1>1. /\ phase = "merging" /\ UNCHANGED <<wordMap, tokens, nodes>> /\ job.rest = << >>
      /\ pairs' = [pairs EXCEPT ![JobPair].occs = << >>,
                                ![JobPair].count = IF job.touched = {} THEN 0 ELSE @]
  BY DEF EndMerge, JobPair
<1>2. Words /\ Index /\ Merging BY <1>1 DEF TrainerInv
<1>3. Vocabulary /\ Chained BY <1>2 DEF Index
<1>4. /\ Chain(Unfolded) /\ Uniform(Unfolded) /\ Sample
      /\ \A id \in Ids \ {job.merged} : Whole(id)
      /\ \A p \in DOMAIN pairs \ NewPairs : Directed(p)
      /\ Descending \/ Ascending
  BY DEF Settling
<1>5. NewToken BY <1>2, <1>3, MergedIsNew DEF NewToken, Merging
<1>6. Unfolding BY <1>2, <1>3, <1>4, <1>5 DEF Unfolding
<1>7. NoneLeft
  <2>1. Waiting = {} BY <1>1 DEF Waiting, ToSet
  <2> QED BY <1>2, <1>3, <2>1, WaitingIs DEF NoneLeft
<1>8. FromRight \/ FromLeft BY <1>4 DEF Descending, Ascending, FromRight, FromLeft
<1>9. Uniform(Syms) BY <1>6, <1>7, <1>8, MergeUniform
<1>10. \A id \in Ids : Whole(id) BY <1>4, <1>6, <1>7, MergedWhole
<1>11. Syms' = Syms /\ Ids' = Ids BY <1>1 DEF Syms, Ids
<1>12. Uniform(Syms)' BY <1>9, <1>11 DEF Uniform, EndsAt
<1>13. \A id : Whole(id)' <=> Whole(id) BY <1>1, <1>11 DEF Whole, Reads, EndsAt
<1>14. JobPair \in DOMAIN pairs BY <1>2 DEF Merging
<1>15. /\ DOMAIN pairs' = DOMAIN pairs /\ pairs'[JobPair].occs = << >>
       /\ \A q \in DOMAIN pairs \ {JobPair} : pairs'[q] = pairs[q]
  <2> DEFINE mid == [pairs EXCEPT ![JobPair].occs = << >>]
             c == IF job.touched = {} THEN 0 ELSE mid[JobPair].count
  <2>1. pairs' = [mid EXCEPT ![JobPair].count = c] BY <1>1
  <2>2. pairs[JobPair] \in [count : Nat, occs : Seq(Position)] BY <1>2, <1>14, PlacesAre
  <2>3. DOMAIN mid = DOMAIN pairs /\ \A q \in DOMAIN pairs \ {JobPair} : mid[q] = pairs[q] OBVIOUS
  <2>4. mid[JobPair] = [count |-> pairs[JobPair].count, occs |-> << >>]
    <3>1. mid[JobPair] = [pairs[JobPair] EXCEPT !.occs = << >>] BY <1>14
    <3> QED BY <2>2, <3>1
  <2> HIDE DEF mid, c
  <2>5. pairs'[JobPair] = [mid[JobPair] EXCEPT !.count = c] BY <1>14, <2>1, <2>3
  <2> QED BY <2>1, <2>3, <2>4, <2>5
<1>16. ASSUME NEW p \in DOMAIN pairs' PROVE Directed(p)'
  <2>1. CASE p = JobPair BY <1>15, <2>1, NoOrder DEF Directed
  <2>2. CASE p # JobPair
    <3>1. Directed(p) BY <1>4, <1>15 DEF Directed, Descending, Ascending
    <3> QED BY <1>15, <2>2, <3>1 DEF Directed
  <2> QED BY <2>1, <2>2
<1> QED BY <1>10, <1>11, <1>12, <1>13, <1>16 DEF Settled

----------------------------------------------------------------------------
(* The start of a merge: what is settled makes the merged token new.       *)

\* A pair that occurs has no token of its bytes yet.
LEMMA NotKnown ==
  ASSUME Words, Vocabulary, Chained, Settled, NEW n \in DOMAIN nodes, nodes[n].next # NoNode
  PROVE  LET left == nodes[n].sym  right == nodes[nodes[n].next].sym IN
         /\ left \in Ids /\ right \in Ids
         /\ nodes[n].next = Shifted(n, Size(left))
         /\ WithBytes(tokens, MergedBytes(tokens, left, right)) = {}
         /\ WithParts(tokens, left, right) = {}
<1> DEFINE m == nodes[n].next
           left == nodes[n].sym
           right == nodes[m].sym
<1>1. m \in DOMAIN nodes /\ m = <<n[1], End(n)>> /\ m[1] = n[1] /\ m[2] = End(n) BY NextParts
<1>2. End(n) = n[2] + Size(left) BY DEF End, Bytes, Size
<1>3. m = Shifted(n, Size(left)) BY <1>1, <1>2 DEF Shifted
<1>4. /\ left \in Ids /\ right \in Ids /\ Reads(n, left) /\ Reads(m, right)
      /\ EndsAt(Syms, m, Size(right))
  BY <1>1, SymsChain DEF Chain, Syms
<1>5. n[2] \in Nat /\ Len(n[1]) \in Nat BY NodeParts
<1>6. Size(left) \in Nat \ {0} /\ Size(right) \in Nat \ {0} BY <1>4, SizeIs
<1> HIDE DEF m, left, right
<1>7. ASSUME NEW id \in Ids, tokens[id].bytes = MergedBytes(tokens, left, right) PROVE FALSE
  <2>1. Reads(n, id) BY <1>3, <1>4, <1>5, <1>7, ReadsConcat
  <2>2. Size(id) = Size(left) + Size(right)
    <3>1. tokens[left].bytes \in Seq(Byte) /\ tokens[right].bytes \in Seq(Byte) BY <1>4, BytesAre
    <3> QED BY <1>7, <3>1, ConcatProperties DEF MergedBytes, Size
  <2>3. n[2] + Size(id) = m[2] + Size(right) BY <1>1, <1>2, <1>5, <1>6, <2>2
  <2>4. EndsAt(Syms, n, Size(id)) BY <1>1, <1>4, <2>3 DEF EndsAt
  <2>5. id = left BY <1>7, <2>1, <2>4 DEF Settled, Whole, Size, left
  <2> QED BY <1>6, <2>2, <2>5
<1>8. WithBytes(tokens, MergedBytes(tokens, left, right)) = {} BY <1>7 DEF WithBytes, Ids
<1>9. ASSUME NEW id \in Ids, tokens[id].left = left, tokens[id].right = right PROVE FALSE
  <2>1. CASE id \in Byte
    <3>1. tokens[id].left = NoPart
      <4>1. tokens[id] = ByteTokens[id] BY <2>1 DEF Vocabulary
      <4>2. ByteTokens[id] = [bytes |-> <<id>>, left |-> NoPart, right |-> NoPart]
        BY <2>1 DEF ByteTokens
      <4> QED BY <4>1, <4>2
    <3>2. tokens \in Seq(Token) BY DEF Vocabulary
    <3>3. NoPart \notin Ids BY <3>2, LenProperties DEF NoPart, Ids
    <3> QED BY <1>4, <1>9, <3>1, <3>3
  <2>2. CASE id \notin Byte
    <3>1. tokens[id].bytes = MergedBytes(tokens, left, right) BY <1>9, <2>2 DEF Vocabulary
    <3> QED BY <1>7, <3>1
  <2> QED BY <2>1, <2>2
<1>10. WithParts(tokens, left, right) = {} BY <1>9 DEF WithParts, Ids
<1> QED BY <1>3, <1>4, <1>8, <1>10 DEF left, right, m

\* More tokens do not disturb what the nodes are.
LEMMA OldSyms ==
  ASSUME Words, Vocabulary, Chained, UNCHANGED <<wordMap, nodes>>,
         Ids \subseteq Ids', \A id \in Ids : tokens'[id] = tokens[id]
  PROVE  /\ Syms' = Syms /\ Chain(Syms)' /\ (Uniform(Syms) => Uniform(Syms)')
         /\ \A id \in Ids : Whole(id)' <=> Whole(id)
<1>1. Syms' = Syms /\ Position' = Position BY DEF Syms, Position
<1>2. \A id \in Ids : Size(id)' = Size(id) /\ \A n : Reads(n, id)' <=> Reads(n, id)
  BY DEF Size, Reads
<1>3. Chain(Syms) BY SymsChain
<1>4. Chain(Syms)' BY <1>1, <1>2, <1>3 DEF Chain, EndsAt
<1>5. Uniform(Syms) => Uniform(Syms)' BY <1>1 DEF Uniform, EndsAt
<1>6. \A id \in Ids : Whole(id)' <=> Whole(id) BY <1>1, <1>2 DEF Whole, EndsAt
<1> QED BY <1>1, <1>4, <1>5, <1>6

\* The start of a merge of pair p, which occurs at node n.
Begins(p, n) ==
  /\ Words /\ Index /\ p \in DOMAIN pairs /\ n \in DOMAIN nodes /\ nodes[n].next # NoNode
  /\ p[1] = nodes[n].sym /\ p[2] = nodes[nodes[n].next].sym /\ p[1] \in Ids /\ p[2] \in Ids
  /\ nodes[n].next = Shifted(n, Size(p[1])) /\ WithParts(tokens, p[1], p[2]) = {}
  /\ tokens' = Append(tokens, [bytes |-> MergedBytes(tokens, p[1], p[2]),
                               left |-> p[1], right |-> p[2]])
  /\ job'.left = p[1] /\ job'.right = p[2] /\ job'.merged = Len(tokens) + 1
  /\ job'.rest = pairs[p].occs /\ UNCHANGED <<wordMap, nodes, pairs>>

\* A pair is only chosen if it occurs, and then its token is a new one.
LEMMA ChooseBegins == ASSUME TrainerInv, Choose, Settled PROVE \E p, n : Begins(p, n)
<1>1. phase = "choosing" /\ UNCHANGED <<wordMap, nodes, pairs>> BY DEF Choose
<1>2. Words /\ Index BY <1>1, ChoosingParts
<1>3. Vocabulary /\ Chained /\ OnHeap BY <1>2 DEF Index
<1>4. PICK x \in Top :
        LET bytes == MergedBytes(tokens, x.pair[1], x.pair[2])
            known == WithBytes(tokens, bytes)
        IN  /\ Current(x) /\ x.count >= MinFrequency
            /\ tokens' = IF known # {} THEN tokens
                         ELSE Append(tokens, [bytes |-> bytes, left |-> x.pair[1], right |-> x.pair[2]])
            /\ job' = [left |-> x.pair[1], right |-> x.pair[2],
                       merged |-> IF known # {} THEN CHOOSE id \in known : TRUE ELSE Len(tokens) + 1,
                       rest |-> pairs[x.pair].occs, touched |-> {}]
  BY DEF Choose
<1> DEFINE p == x.pair
           left == p[1]
           right == p[2]
           new == Len(tokens) + 1
<1>5. p \in DOMAIN pairs /\ x.count \in Nat BY <1>3 DEF Top, OnHeap
<1>6. pairs[p].count > 0
  <2>1. pairs[p].count = x.count /\ x.count >= MinFrequency BY <1>4 DEF Current
  <2>2. MinFrequency \in Nat \ {0} BY BpeTrainerAssumption
  <2> HIDE DEF p
  <2> QED BY <1>5, <2>1, <2>2
<1>7. p \in Ids \X Ids /\ p = <<p[1], p[2]>> /\ p \in Occurring BY <1>2, <1>5, <1>6, PlacesAre
<1>8. PICK n \in DOMAIN nodes : /\ nodes[n].next # NoNode
                                /\ p = <<nodes[n].sym, nodes[nodes[n].next].sym>>
  BY <1>7 DEF Occurring
<1>9. left = nodes[n].sym /\ right = nodes[nodes[n].next].sym BY <1>8
<1>10. /\ left \in Ids /\ right \in Ids /\ nodes[n].next = Shifted(n, Size(left))
       /\ WithBytes(tokens, MergedBytes(tokens, left, right)) = {}
       /\ WithParts(tokens, left, right) = {}
  BY <1>2, <1>3, <1>8, <1>9, NotKnown
<1>11. /\ tokens' = Append(tokens, [bytes |-> MergedBytes(tokens, left, right),
                                    left |-> left, right |-> right])
       /\ job' = [left |-> left, right |-> right, merged |-> new, rest |-> pairs[p].occs,
                  touched |-> {}]
  BY <1>4, <1>10
<1>12. /\ job'.left = left /\ job'.right = right /\ job'.merged = new /\ job'.rest = pairs[p].occs
  BY <1>11
<1> HIDE DEF left, right, p
<1>13. Begins(p, n)
  BY <1>1, <1>2, <1>5, <1>8, <1>9, <1>10, <1>11, <1>12 DEF Begins, left, right, p
<1> QED BY <1>13

\* Then nothing is merged yet.
LEMMA BeginsUnfolded ==
  ASSUME NEW p, NEW n, Begins(p, n)
  PROVE  Syms' = Syms /\ Merged' = {} /\ Unfolded' = Syms
<1>1. \A m \in DOMAIN nodes : nodes[m].sym \in Ids BY NodeParts DEF Begins, Index, Node
<1>2. Len(tokens) + 1 \notin Ids /\ Syms' = Syms BY LenProperties DEF Begins, Index, Vocabulary, Ids, Syms
<1>3. Merged' = {} BY <1>1, <1>2 DEF Merged, Begins
<1>4. Unfolded' = Syms' BY <1>3 DEF Unfolded, Syms
<1> QED BY <1>2, <1>3, <1>4

\* What is settled is the start of a merge.
LEMMA ChooseSettling == ASSUME TrainerInv, Choose, Settled PROVE Settling'
<1>0. PICK p, n : Begins(p, n) BY ChooseBegins
<1> DEFINE left == p[1]
           right == p[2]
           new == Len(tokens) + 1
<1>1. UNCHANGED <<wordMap, nodes>> /\ pairs' = pairs BY <1>0 DEF Begins
<1>2. Words /\ Index BY <1>0 DEF Begins
<1>3. Vocabulary /\ Chained /\ OnHeap BY <1>2 DEF Index
<1>5. p \in DOMAIN pairs BY <1>0 DEF Begins
<1>8. n \in DOMAIN nodes /\ nodes[n].next # NoNode BY <1>0 DEF Begins
<1>9. left = nodes[n].sym /\ right = nodes[nodes[n].next].sym BY <1>0 DEF Begins
<1>10. /\ left \in Ids /\ right \in Ids /\ nodes[n].next = Shifted(n, Size(left))
       /\ WithParts(tokens, left, right) = {}
  BY <1>0 DEF Begins
<1>11. tokens' = Append(tokens, [bytes |-> MergedBytes(tokens, left, right),
                                 left |-> left, right |-> right])
  BY <1>0 DEF Begins
<1>12. /\ job'.left = left /\ job'.right = right /\ job'.merged = new /\ job'.rest = pairs[p].occs
  BY <1>0 DEF Begins
<1> HIDE DEF left, right
<1>13. /\ Ids \subseteq Ids' /\ new \in Ids' /\ \A id \in Ids : tokens'[id] = tokens[id]
       /\ Len(tokens') = new /\ Ids' = Ids \cup {new} /\ new \notin Ids
       /\ tokens'[new].left = left /\ tokens'[new].right = right
  BY <1>3, <1>10, <1>11, MoreTokens
<1> HIDE DEF new
<1>14. WithParts(tokens', job'.left, job'.right) = {job'.merged}
  BY <1>10, <1>12, <1>13 DEF WithParts, Ids
<1>15. /\ Syms' = Syms /\ Chain(Syms)' /\ Uniform(Syms)'
       /\ \A id \in Ids : Whole(id)
       /\ \A id \in Ids : Whole(id)' <=> Whole(id)
  BY <1>1, <1>2, <1>3, <1>13, OldSyms DEF Settled
<1>16. Merged' = {} BY <1>0, BeginsUnfolded
<1>17. Unfolded' = Syms' BY <1>0, BeginsUnfolded
<1>18. Chain(Unfolded)' BY <1>15, <1>17 DEF Chain, EndsAt
<1>19. Uniform(Unfolded)' BY <1>15, <1>17 DEF Uniform, EndsAt
<1>20. Sample'
  <2>1. Half(n)' = nodes[n].next BY <1>10, <1>12, <1>13 DEF Half, Shifted, Size
  <2>2. DOMAIN Unfolded' = DOMAIN nodes /\ \A m \in DOMAIN nodes : Unfolded'[m] = nodes[m].sym
    BY <1>1, <1>17 DEF Syms
  <2>3. nodes[n].next \in DOMAIN nodes BY <1>2, <1>3, <1>8, NextParts
  <2> QED BY <1>8, <1>9, <1>12, <2>1, <2>2, <2>3 DEF Sample
<1>21. NewPairs' = {}
  <2>1. \A q \in DOMAIN pairs : q[1] \in Ids /\ q[2] \in Ids
    <3> SUFFICES ASSUME NEW q \in DOMAIN pairs PROVE q[1] \in Ids /\ q[2] \in Ids OBVIOUS
    <3>1. q \in Ids \X Ids BY <1>2, PlacesAre
    <3> QED BY <3>1
  <2> QED BY <1>1, <1>12, <1>13, <2>1 DEF NewPairs
<1>22. \A q \in DOMAIN pairs' : Directed(q)' BY <1>1 DEF Settled, Directed
<1>23. (Descending \/ Ascending)'
  <2>1. Down(job'.rest) \/ Up(job'.rest) BY <1>5, <1>12 DEF Settled, Directed
  <2> QED BY <1>16, <1>21, <2>1 DEF Descending, Ascending
<1>24. \A id \in Ids' \ {job'.merged} : Whole(id)' BY <1>12, <1>13, <1>15
<1>25. job'.merged = Len(tokens') BY <1>12, <1>13
<1> QED BY <1>14, <1>18, <1>19, <1>20, <1>22, <1>23, <1>24, <1>25 DEF Settling

----------------------------------------------------------------------------
(* Before the first merge.                                                 *)

\* The lists of a table are of some positions, the last ones of a word first.
Listing(s, places) ==
  \A p \in DOMAIN s.pairs : s.pairs[p].occs \in Seq(places) /\ Down(s.pairs[p].occs)

\* A later position of a word may be put in front of any list.
LEMMA IncrementDown ==
  ASSUME NEW s, NEW places, Listing(s, places), NEW n, NEW p, NEW weight,
         \A f \in places : f[1] = n[1] => f[2] <= n[2]
  PROVE  Listing(Increment(s, p, weight, n), places \cup {n})
<1> DEFINE t == Increment(s, p, weight, n)
           old == (IF p \in DOMAIN s.pairs THEN s.pairs[p] ELSE NoPair).occs
           more == places \cup {n}
<1>1. /\ DOMAIN t.pairs = DOMAIN s.pairs \cup {p} /\ t.pairs[p].occs = <<n>> \o old
      /\ \A q \in DOMAIN s.pairs \ {p} : t.pairs[q] = s.pairs[q]
  BY IncrementOccs
<1>2. old \in Seq(places) /\ Down(old)
  <2>1. CASE p \in DOMAIN s.pairs BY <2>1 DEF Listing
  <2>2. CASE p \notin DOMAIN s.pairs
    <3>1. old = << >> BY <2>2 DEF NoPair
    <3>2. << >> \in Seq(places) BY EmptySeq
    <3> HIDE DEF old
    <3> QED BY <3>1, <3>2, NoOrder
  <2> QED BY <2>1, <2>2
<1> HIDE DEF old, t
<1>3. \A u \in Seq(places) : u \in Seq(more)
  <2>1. places \subseteq more OBVIOUS
  <2> HIDE DEF more
  <2> QED BY <2>1, Widened
<1>4. \A f \in ToSet(old) : f \in places BY <1>2, Members
<1>5. n \in more OBVIOUS
<1> HIDE DEF more
<1>6. <<n>> \o old \in Seq(more)
  <2>1. <<n>> \in Seq(more) BY <1>5
  <2> QED BY <1>2, <1>3, <2>1, ConcatProperties
<1>7. Down(<<n>> \o old) BY <1>2, <1>3, <1>4, <1>5, InFront
<1>8. ASSUME NEW q \in DOMAIN t.pairs PROVE t.pairs[q].occs \in Seq(more) /\ Down(t.pairs[q].occs)
  <2>1. CASE q = p BY <1>1, <1>6, <1>7, <2>1
  <2>2. CASE q # p
    <3>1. q \in DOMAIN s.pairs /\ t.pairs[q] = s.pairs[q] BY <1>1, <2>2
    <3> QED BY <1>3, <3>1 DEF Listing
  <2> QED BY <2>1, <2>2
<1> QED BY <1>8 DEF Listing, t, more

\* A word is counted from the left.
LEMMA WordDown ==
  ASSUME NEW w, Len(w) \in Nat \ {0}, NEW places, \A n \in places : n[1] # w,
         NEW s, Listing(s, places)
  PROVE  Listing(CountedWord(s, w), places \cup UpTo(w, Len(w) - 1))
<1>1. PICK f : WordLoop(f, s, w, Len(w) - 1) /\ CountedWord(s, w) = f[Len(w) - 1] BY WordLoopIs
<1> DEFINE good(i) == Listing(f[i], places \cup UpTo(w, i))
           bad == {i \in 0 .. Len(w) - 1 : ~ good(i)}
<1>2. ASSUME bad # {} PROVE FALSE
  <2>1. PICK i \in bad : \A j \in bad : i <= j
    <3>1. bad \subseteq Nat OBVIOUS
    <3> QED BY <1>2, <3>1, LeastElement
  <2>2. i \in 0 .. Len(w) - 1 /\ ~ good(i) /\ f[i] = IF i = 0 THEN s ELSE WordStep(f[i - 1], w, i)
    BY <1>1, <2>1 DEF WordLoop
  <2>3. CASE i = 0
    <3>1. UpTo(w, 0) = {} BY UpToStep
    <3>2. places \cup UpTo(w, i) = places BY <2>3, <3>1
    <3>3. f[i] = s BY <2>2, <2>3
    <3> QED BY <2>2, <3>2, <3>3
  <2>4. CASE i # 0
    <3> DEFINE k == i - 1
               P == places \cup UpTo(w, k)
               n == At(w, i)
    <3>1. k \in 0 .. Len(w) - 1 /\ k \notin bad
      <4>1. k \in 0 .. Len(w) - 1 /\ ~ (i <= k) BY <2>2, <2>4
      <4>2. \A j \in bad : i <= j BY <2>1
      <4> HIDE DEF bad, k
      <4> QED BY <4>1, <4>2
    <3>2. good(k) BY <3>1
    <3>3. i \in Nat \ {0} BY <2>2, <2>4
    <3>4. places \cup UpTo(w, i) = P \cup {n} BY <3>3, UpToStep
    <3>5. f[i] = Increment(f[k], <<w[i], w[i + 1]>>, wordMap[w], n)
      BY <2>2, <2>4 DEF WordStep, At
    <3>6. ASSUME NEW e \in P, e[1] = n[1] PROVE e[2] <= n[2]
      <4>1. n[1] = w /\ n[2] = i BY DEF At
      <4>2. e \in UpTo(w, k) BY <3>6, <4>1
      <4>3. PICK j \in 1 .. k : e = <<w, j>> BY <4>2 DEF UpTo, At
      <4>4. e[2] = j /\ j <= i BY <3>3, <4>3
      <4> QED BY <4>1, <4>4
    <3>7. Listing(f[k], P) BY <3>2
    <3> HIDE DEF k, P, n
    <3>8. Listing(f[i], P \cup {n}) BY <3>5, <3>6, <3>7, IncrementDown
    <3> QED BY <2>2, <3>4, <3>8
  <2> QED BY <2>3, <2>4
<1>3. good(Len(w) - 1)
  <2>1. Len(w) - 1 \in 0 .. Len(w) - 1 OBVIOUS
  <2> QED BY <1>2, <2>1
<1> QED BY <1>1, <1>3

\* One word after the other.
LEMMA AllDown ==
  ASSUME Words, NEW order \in SetToSeqs(DOMAIN wordMap)
  PROVE  \A p \in DOMAIN Counted(order) : Down(Counted(order)[p].occs)
<1>1. /\ Len(order) \in Nat /\ DOMAIN wordMap = {order[j] : j \in 1 .. Len(order)}
      /\ \A i, j \in 1 .. Len(order) : i # j => order[i] # order[j]
  BY OrderParts DEF Words
<1>2. PICK f : TextLoop(f, order, Len(order)) /\ Counted(order) = f[Len(order)].pairs
  BY <1>1, TextLoopIs
<1> DEFINE good(k) == Listing(f[k], Upto(order, k))
           bad == {k \in 0 .. Len(order) : ~ good(k)}
<1>3. ASSUME bad # {} PROVE FALSE
  <2>1. PICK k \in bad : \A j \in bad : k <= j
    <3>1. bad \subseteq Nat OBVIOUS
    <3> QED BY <1>3, <3>1, LeastElement
  <2>2. k \in 0 .. Len(order) /\ ~ good(k)
        /\ f[k] = IF k = 0 THEN Nothing ELSE CountedWord(f[k - 1], order[k])
    BY <1>2, <2>1 DEF TextLoop
  <2>3. CASE k = 0
    <3>1. f[k] = Nothing BY <2>2, <2>3
    <3>2. \A places : Listing(Nothing, places) BY DEF Nothing, Empty, Listing
    <3> QED BY <2>2, <3>1, <3>2
  <2>4. CASE k # 0
    <3> DEFINE i == k - 1
               w == order[k]
               P == Upto(order, i)
    <3>1. i \in 0 .. Len(order) /\ i \notin bad /\ k \in 1 .. Len(order) /\ 1 .. k = (1 .. i) \cup {k}
          /\ 1 .. k \subseteq 1 .. Len(order) /\ k \notin 1 .. i
      <4>1. i \in 0 .. Len(order) /\ ~ (k <= i) BY <1>1, <2>2, <2>4
      <4>2. \A j \in bad : k <= j BY <2>1
      <4>3. k \in 1 .. Len(order) /\ 1 .. k = (1 .. i) \cup {k}
            /\ 1 .. k \subseteq 1 .. Len(order) /\ k \notin 1 .. i
        BY <1>1, <2>2, <2>4
      <4> HIDE DEF bad, i
      <4> QED BY <4>1, <4>2, <4>3
    <3>2. good(i) BY <3>1
    <3>3. w \in DOMAIN wordMap BY <1>1, <3>1
    <3>4. \A j \in 1 .. i : order[j] # w BY <1>1, <3>1
    <3>5. ASSUME NEW n \in P PROVE n[1] # w
      <4>1. PICK e \in 1 .. i : n \in UpTo(order[e], Len(order[e]) - 1) BY DEF Upto
      <4>2. PICK d : n = At(order[e], d) BY <4>1 DEF UpTo
      <4>3. n[1] = order[e] BY <4>2 DEF At
      <4> QED BY <3>4, <4>3
    <3>6. Upto(order, k) = P \cup UpTo(w, Len(w) - 1) BY <3>1, Zenon DEF Upto
    <3>7. f[k] = CountedWord(f[i], w) BY <2>2, <2>4
    <3>8. Listing(f[i], P) BY <3>2
    <3>9. Len(w) \in Nat \ {0} BY <3>3, WordParts DEF Words
    <3> HIDE DEF i, w, P
    <3>10. Listing(CountedWord(f[i], w), P \cup UpTo(w, Len(w) - 1))
      BY <3>5, <3>8, <3>9, WordDown
    <3> QED BY <2>2, <3>6, <3>7, <3>10
  <2> QED BY <2>3, <2>4
<1>4. good(Len(order))
  <2>1. Len(order) \in 0 .. Len(order) BY <1>1
  <2> QED BY <1>3, <2>1
<1> QED BY <1>2, <1>4 DEF Listing

\* Bytes alike are the same byte, and every word is counted from the left.
LEMMA FinishSettled == ASSUME TrainerInv, Finish PROVE Settled'
<1>1. /\ phase = "adding" /\ wordMap' = wordMap /\ nodes' = Linked(DOMAIN wordMap)
      /\ tokens' = ByteTokens
  BY DEF Finish
<1>2. PICK order \in SetToSeqs(DOMAIN wordMap) : pairs' = Counted(order) BY DEF Finish
<1>3. Words BY DEF TrainerInv
<1>4. Ids' = Byte /\ \A b \in Byte : tokens'[b].bytes = <<b>> BY <1>1, BytesFirst
<1>5. DOMAIN nodes' = Position /\ \A n \in Position : /\ nodes'[n].sym = n[1][n[2]] /\ n[2] \in Nat
                                                     /\ n[2] \in 1 .. Len(n[1])
                                                     /\ Len(n[1]) \in Nat
  <2>1. /\ DOMAIN nodes' = Position
        /\ \A w \in DOMAIN wordMap : \A i \in DOMAIN w : nodes'[<<w, i>>].sym = w[i]
    <3>1. /\ DOMAIN nodes' = Position
          /\ \A w \in DOMAIN wordMap : \A i \in DOMAIN w :
               nodes'[At(w, i)] = [sym  |-> w[i],
                                   prev |-> IF i = 1 THEN NoNode ELSE At(w, i - 1),
                                   next |-> IF i = Len(w) THEN NoNode ELSE At(w, i + 1)]
      BY <1>1, <1>3, LinkedIs
    <3>2. ASSUME NEW w \in DOMAIN wordMap, NEW i \in DOMAIN w PROVE nodes'[At(w, i)].sym = w[i]
      <4> DEFINE b == IF i = 1 THEN NoNode ELSE At(w, i - 1)
                 e == IF i = Len(w) THEN NoNode ELSE At(w, i + 1)
      <4>1. nodes'[At(w, i)] = [sym |-> w[i], prev |-> b, next |-> e] BY <3>1
      <4> HIDE DEF b, e
      <4> QED BY <4>1
    <3> QED BY <3>1, <3>2 DEF At
  <2>2. ASSUME NEW n \in Position
        PROVE  /\ nodes'[n].sym = n[1][n[2]] /\ n[2] \in Nat /\ n[2] \in 1 .. Len(n[1])
               /\ Len(n[1]) \in Nat
    <3>1. n = <<n[1], n[2]>> /\ n[1] \in DOMAIN wordMap /\ n[2] \in 1 .. Len(n[1]) /\ Len(n[1]) \in Nat
      BY <1>3, AtPosition
    <3>2. n[2] \in DOMAIN n[1] BY <3>1, <1>3, WordParts DEF Words
    <3> QED BY <2>1, <3>1, <3>2
  <2> QED BY <2>1, <2>2
<1>6. DOMAIN Syms' = Position /\ \A n \in Position : Syms'[n] = n[1][n[2]] BY <1>5 DEF Syms
<1>7. Uniform(Syms)'
  <2> SUFFICES ASSUME NEW m \in Position, NEW n \in Position, NEW k \in 1 .. Len(m[1]), Alike(m, n, k)
               PROVE  Syms'[m] = Syms'[n]
    BY <1>6 DEF Uniform
  <2>1. 0 \in 0 .. k - 1 /\ m[2] + 0 = m[2] /\ n[2] + 0 = n[2] BY <1>5
  <2>2. m[1][m[2] + 0] = n[1][n[2] + 0] BY <2>1 DEF Alike
  <2> QED BY <1>6, <2>1, <2>2
<1>8. ASSUME NEW id \in Ids' PROVE Whole(id)'
  <2> SUFFICES ASSUME NEW n \in Position, Reads(n, id)' PROVE nodes'[n].sym = id
    BY <1>5 DEF Whole
  <2>1. tokens'[id].bytes = <<id>> BY <1>4
  <2>2. Len(<<id>>) = 1 /\ <<id>>[1] = id OBVIOUS
  <2>3. 1 \in 1 .. Len(tokens'[id].bytes) /\ tokens'[id].bytes[1] = id BY <2>1, <2>2
  <2>4. n[1][n[2] + 1 - 1] = id BY <2>3 DEF Reads
  <2>5. n[2] + 1 - 1 = n[2] BY <1>5
  <2> QED BY <1>5, <2>4, <2>5
<1>9. \A p \in DOMAIN pairs' : Directed(p)' BY <1>2, <1>3, AllDown DEF Directed
<1> QED BY <1>7, <1>8, <1>9 DEF Settled

----------------------------------------------------------------------------
(* Every step keeps it.                                                    *)

\* It is about the words, the tokens, the nodes, the pairs and the job.
LEMMA SameMerge ==
  ASSUME UNCHANGED <<wordMap, tokens, nodes, pairs, job>>
  PROVE  (Settled' <=> Settled) /\ (Settling' <=> Settling)
<1>1. /\ Ids' = Ids /\ Position' = Position /\ Syms' = Syms /\ Merged' = Merged
      /\ Waiting' = Waiting /\ NewPairs' = NewPairs /\ \A m : Half(m)' = Half(m)
  BY DEF Ids, Position, Syms, Merged, Waiting, OccurrenceValid, NewPairs, Half
<1>2. Unfolded' = Unfolded BY <1>1 DEF Unfolded
<1>3. (Uniform(Syms)' <=> Uniform(Syms)) /\ (Uniform(Unfolded)' <=> Uniform(Unfolded))
  BY <1>1, <1>2 DEF Uniform, EndsAt
<1>4. Chain(Unfolded)' <=> Chain(Unfolded) BY <1>1, <1>2 DEF Chain, Reads, Size, EndsAt
<1>5. Sample' <=> Sample BY <1>1, <1>2 DEF Sample
<1>6. \A id : Whole(id)' <=> Whole(id) BY <1>1 DEF Whole, Reads, EndsAt
<1>7. \A p : Directed(p)' <=> Directed(p) BY DEF Directed
<1>8. (Descending' <=> Descending) /\ (Ascending' <=> Ascending)
  BY <1>1 DEF Descending, Ascending
<1>9. Settled' <=> Settled BY <1>1, <1>3, <1>6, <1>7 DEF Settled
<1>10. Settling' <=> Settling BY <1>1, <1>3, <1>4, <1>5, <1>6, <1>7, <1>8 DEF Settling
<1> QED BY <1>9, <1>10

\* A step keeps the invariant about merges, given the one about the index.
LEMMA MergeStep == ASSUME TrainerInv, MergeInv, [Next]_vars PROVE MergeInv'
<1>1. ASSUME NEW w \in Pieces, AddPiece(w) PROVE MergeInv' BY <1>1 DEF AddPiece, MergeInv
<1>2. CASE Finish
  <2>1. phase' = "choosing" BY <1>2 DEF Finish
  <2> QED BY <1>2, <2>1, FinishSettled DEF MergeInv
<1>3. CASE PopStale
  <2>1. /\ phase = "choosing" /\ phase' = "choosing"
        /\ UNCHANGED <<wordMap, tokens, nodes, pairs, job>>
    BY <1>3 DEF PopStale
  <2> QED BY <2>1, SameMerge DEF MergeInv
<1>4. CASE Choose
  <2>1. phase = "choosing" /\ phase' = "merging" BY <1>4 DEF Choose
  <2> QED BY <1>4, <2>1, ChooseSettling DEF MergeInv
<1>5. CASE Stop BY <1>5 DEF Stop, MergeInv
<1>6. CASE Skip
  <2>1. phase = "merging" /\ phase' = "merging" BY <1>6 DEF Skip
  <2> QED BY <1>6, <2>1, SkipSettling DEF MergeInv
<1>7. CASE Join
  <2>1. phase = "merging" /\ phase' = "merging" BY <1>7 DEF Join
  <2> QED BY <1>7, <2>1, JoinSettling DEF MergeInv
<1>8. CASE EndMerge
  <2>1. phase = "merging" /\ phase' = "choosing" BY <1>8 DEF EndMerge
  <2> QED BY <1>8, <2>1, EndSettled DEF MergeInv
<1>9. CASE Fail BY <1>9 DEF Fail, MergeInv
<1>10. CASE UNCHANGED vars
  <2>1. phase' = phase /\ UNCHANGED <<wordMap, tokens, nodes, pairs, job>> BY <1>10 DEF vars
  <2> QED BY <2>1, SameMerge DEF MergeInv
<1> QED BY <1>1, <1>2, <1>3, <1>4, <1>5, <1>6, <1>7, <1>8, <1>9, <1>10 DEF Next

\* Whatever is merged is merged in every word that has it and nowhere else, and
\* lists keep the order in which words were counted or merged.
THEOREM MergesInOrder == Spec => []MergeInv
<1>1. Init => MergeInv BY DEF Init, MergeInv
<1>2. TrainerInv /\ MergeInv /\ [Next]_vars => MergeInv' BY MergeStep
<1> QED BY <1>1, <1>2, TrainerInvariant, PTL DEF Spec

\* Every merge is to the token added last, and no other has the same parts: the
\* branch of gd_run_bpe_merges that takes a token there is already never runs.
THEOREM MergesAlwaysNew == Spec => []MergesAreNew
<1>1. MergeInv => MergesAreNew BY DEF MergeInv, Settling, MergesAreNew
<1> QED BY <1>1, MergesInOrder, PTL

----------------------------------------------------------------------------
(* Encoding as training did.  The encoder's turns are taken on             *)
(* segmentations: the nodes of a word and their tokens.  Where a turn      *)
(* leads does not depend on how the trainer visits the places of a pair.   *)

\* The node behind a node, and the token that the two would merge to.
Follower(f, n) == Shifted(n, Size(f[n]))

Target(f, n) == CHOOSE id \in WithParts(tokens, f[n], f[Follower(f, n)]) : TRUE

Mergeable(f, n) ==
  /\ n \in DOMAIN f /\ Follower(f, n) \in DOMAIN f
  /\ WithParts(tokens, f[n], f[Follower(f, n)]) # {}

\* The lowest token, at its first place.
FirstMerge(f, n) ==
  /\ Mergeable(f, n)
  /\ \A m : Mergeable(f, m) =>
       Target(f, n) < Target(f, m) \/ (Target(f, n) = Target(f, m) /\ n[2] <= m[2])

MergedAt(f, n) ==
  [m \in DOMAIN f \ {Follower(f, n)} |-> IF m = n THEN Target(f, n) ELSE f[m]]

\* A turn of the encoder, from one segmentation to the next ...
Turn(f, g) ==
  /\ \A n \in DOMAIN f : f[n] \in Ids
  /\ \E n : FirstMerge(f, n) /\ g = MergedAt(f, n)

\* ... and any number of turns.
Leads(f, g) ==
  \A R : f \in R /\ (\A x \in R : \A y : Turn(x, y) => y \in R) => g \in R

\* The segmentation of one word, and the first there is.
In(f, w) == [n \in {m \in DOMAIN f : m[1] = w} |-> f[n]]
Spread(w) == [n \in {<<w, i>> : i \in DOMAIN w} |-> w[n[2]]]

TwinFree == \A id \in Ids \ Byte : tokens[id].left # tokens[id].right

\* The last token is in no other, and nothing else can be merged.
OnlyLast ==
  /\ \A id \in Ids : tokens[id].left # job.merged /\ tokens[id].right # job.merged
  /\ \A n : Mergeable(Unfolded, n) =>
       Unfolded[n] = job.left /\ Unfolded[Follower(Unfolded, n)] = job.right

\* Turns of the encoder lead from every word to where training has brought it.
Led == \A w \in DOMAIN wordMap : Leads(Spread(w), In(Syms, w))
LedUnfolded == \A w \in DOMAIN wordMap : Leads(Spread(w), In(Unfolded, w))

EncodeInv ==
  /\ phase \in {"choosing", "trained"} => (TwinFree => Led)
  /\ phase = "merging" => OnlyLast /\ (TwinFree => LedUnfolded)
  /\ phase = "trained" => Chained /\ Settled

\* One comes to where one is ...
LEMMA LeadsHere == \A f : Leads(f, f)
BY DEF Leads

\* ... and from there to where a turn leads.
LEMMA LeadsOn == ASSUME NEW f, NEW g, NEW h, Leads(f, g), Turn(g, h) PROVE Leads(f, h)
<1> SUFFICES ASSUME NEW R, f \in R, \A x \in R : \A y : Turn(x, y) => y \in R PROVE h \in R
  BY DEF Leads
<1>1. g \in R BY DEF Leads
<1> QED BY <1>1

\* A token more, whose parts had none, comes after all others.
LEMMA TurnStays ==
  ASSUME Vocabulary, NEW left \in Ids, NEW right \in Ids,
         WithParts(tokens, left, right) = {},
         tokens' = Append(tokens, [bytes |-> MergedBytes(tokens, left, right),
                                   left |-> left, right |-> right]),
         NEW f, NEW g, Turn(f, g)
  PROVE  Turn(f, g)'
<1> DEFINE new == Len(tokens) + 1
<1>1. /\ Ids \subseteq Ids' /\ Ids' = Ids \cup {new} /\ \A id \in Ids : tokens'[id] = tokens[id]
      /\ tokens'[new].left = left /\ tokens'[new].right = right
  BY MoreTokens
<1>2. Ids = 1 .. Len(tokens) /\ Len(tokens) \in Nat BY LenProperties DEF Vocabulary, Ids
<1> HIDE DEF new
<1>3. \A x, y : WithParts(tokens, x, y) # {} => WithParts(tokens', x, y) = WithParts(tokens, x, y)
  BY <1>1 DEF WithParts, Ids
<1>4. \A x, y : WithParts(tokens, x, y) = {} => WithParts(tokens', x, y) \subseteq {new}
  BY <1>1 DEF WithParts, Ids
<1>5. \A n \in DOMAIN f : f[n] \in Ids /\ Follower(f, n)' = Follower(f, n)
  <2> TAKE n \in DOMAIN f
  <2>1. f[n] \in Ids BY DEF Turn
  <2>2. Size(f[n])' = Size(f[n]) BY <1>1, <2>1 DEF Size
  <2> QED BY <2>1, <2>2 DEF Follower, Shifted
<1>6. \A n : Mergeable(f, n) => Mergeable(f, n)' /\ Target(f, n)' = Target(f, n)
  BY <1>3, <1>5 DEF Mergeable, Target
<1>7. PICK n : FirstMerge(f, n) /\ g = MergedAt(f, n) BY DEF Turn
<1>8. Mergeable(f, n) /\ n \in DOMAIN f BY <1>7 DEF FirstMerge, Mergeable
<1>9. Target(f, n) \in Ids BY <1>8 DEF Mergeable, Target, WithParts, Ids
<1>10. ASSUME NEW m, Mergeable(f, m)'
       PROVE  Target(f, n) < Target(f, m)' \/ (Target(f, n) = Target(f, m)' /\ n[2] <= m[2])
  <2>1. CASE Mergeable(f, m) BY <1>6, <1>7, <2>1 DEF FirstMerge
  <2>2. CASE ~ Mergeable(f, m)
    <3>1. /\ m \in DOMAIN f /\ Follower(f, m) \in DOMAIN f
          /\ WithParts(tokens', f[m], f[Follower(f, m)]) # {}
      BY <1>5, <1>10 DEF Mergeable
    <3>2. WithParts(tokens, f[m], f[Follower(f, m)]) = {} BY <2>2, <3>1 DEF Mergeable
    <3>3. WithParts(tokens', f[m], f[Follower(f, m)]) \subseteq {new} BY <1>4, <3>2
    <3>4. Target(f, m)' = new BY <1>5, <3>1, <3>3 DEF Target
    <3> QED BY <1>2, <1>9, <3>4 DEF new
  <2> QED BY <2>1, <2>2
<1>11. FirstMerge(f, n)' BY <1>6, <1>8, <1>10 DEF FirstMerge
<1>12. MergedAt(f, n)' = MergedAt(f, n) BY <1>5, <1>6, <1>8 DEF MergedAt
<1>13. \A m \in DOMAIN f : f[m] \in Ids' BY <1>1, <1>5
<1> QED BY <1>7, <1>11, <1>12, <1>13 DEF Turn

\* So it changes nothing of where turns lead.
LEMMA LeadsStay ==
  ASSUME Vocabulary, NEW left \in Ids, NEW right \in Ids,
         WithParts(tokens, left, right) = {},
         tokens' = Append(tokens, [bytes |-> MergedBytes(tokens, left, right),
                                   left |-> left, right |-> right]),
         NEW f, NEW g, Leads(f, g)
  PROVE  Leads(f, g)'
<1> SUFFICES ASSUME NEW R, f \in R, \A x \in R : \A y : Turn(x, y)' => y \in R PROVE g \in R
  BY DEF Leads
<1>1. \A x \in R : \A y : Turn(x, y) => y \in R BY TurnStays
<1> QED BY <1>1 DEF Leads

----------------------------------------------------------------------------
(* The end of a merge.  The encoder takes the places of the pair from the  *)
(* left; the trainer has taken the same ones, in whatever order, for two   *)
(* different parts do not overlap.                                         *)

Pairings ==
  {n \in DOMAIN Unfolded : /\ Unfolded[n] = job.left
                           /\ Half(n) \in DOMAIN Unfolded /\ Unfolded[Half(n)] = job.right}

\* A word whose places before k are merged.
Passed(k) == {n \in Pairings : n[2] < k}

Partly(w, k) ==
  [n \in {m \in DOMAIN Unfolded : m[1] = w /\ \A o \in Passed(k) : m # Half(o)} |->
     IF n \in Passed(k) THEN job.merged ELSE Unfolded[n]]

\* What the end of a merge is about.
Ending ==
  /\ Unfolding /\ NoneLeft /\ OnlyLast /\ job.left # job.right /\ job.merged = Len(tokens)
  /\ WithParts(tokens, job.left, job.right) = {job.merged}

\* All places are merged, and they do not overlap.
LEMMA PairingsMerged ==
  ASSUME Ending
  PROVE  /\ Pairings = Merged
         /\ \A n \in Pairings : Half(n) \notin Pairings /\ Half(n) \notin DOMAIN nodes
<1>1. Words /\ Vocabulary /\ Chained /\ NewToken /\ Unfolding /\ NoneLeft /\ job.left # job.right
  BY DEF Ending, Unfolding
<1>2. ASSUME NEW n \in Pairings PROVE n \in Merged
  <2>1. /\ n \in DOMAIN Unfolded /\ Unfolded[n] = job.left /\ Half(n) \in DOMAIN Unfolded
        /\ Unfolded[Half(n)] = job.right
    BY DEF Pairings
  <2>2. n \in DOMAIN nodes BY <1>1, <2>1, UnfoldedIs
  <2>3. SUFFICES ASSUME n \notin Merged PROVE FALSE OBVIOUS
  <2> QED BY <1>1, <2>1, <2>2, <2>3, PairAt
<1>3. ASSUME NEW n \in Merged PROVE n \in Pairings /\ Half(n) \notin DOMAIN nodes
  <2>1. n \in DOMAIN nodes BY DEF Merged
  <2> QED BY <1>1, <2>1, UnfoldedIs DEF Pairings
<1>4. \A n \in Pairings : Half(n) \notin Pairings BY <1>1 DEF Pairings
<1> QED BY <1>2, <1>3, <1>4

\* At first none is merged ...
LEMMA PartlyFirst ==
  ASSUME Ending, NEW w PROVE Partly(w, 1) = In(Unfolded, w)
<1>1. \A n \in DOMAIN Unfolded : n[2] \in Nat /\ n[2] >= 1 BY Unfolds DEF Ending
<1>2. Passed(1) = {} BY <1>1 DEF Passed, Pairings
<1> QED BY <1>2 DEF Partly, In

\* ... and in the end all are.
LEMMA PartlyLast ==
  ASSUME Ending, NEW w \in DOMAIN wordMap PROVE Partly(w, Len(w) + 1) = In(Syms, w)
<1> DEFINE B == Passed(Len(w) + 1)
           D == {m \in DOMAIN Unfolded : m[1] = w /\ \A o \in B : m # Half(o)}
           E == {m \in DOMAIN Syms : m[1] = w}
<1>1. Words /\ Vocabulary /\ Chained /\ NewToken /\ Unfolding BY DEF Ending, Unfolding
<1>2. /\ DOMAIN Syms = DOMAIN nodes /\ DOMAIN nodes \subseteq DOMAIN Unfolded
      /\ \A n \in DOMAIN Unfolded : n[2] \in 1 .. Len(n[1]) /\ Len(n[1]) \in Nat
  BY <1>1, Unfolds
<1>3. /\ Pairings = Merged
      /\ \A n \in Pairings : Half(n) \notin Pairings /\ Half(n) \notin DOMAIN nodes
  BY PairingsMerged
<1>4. \A n : Half(n)[1] = n[1] BY DEF Half
<1>5. \A n : n \in B <=> n \in Merged /\ n[2] < Len(w) + 1 BY <1>3 DEF Passed
<1>6. \A n \in Merged : n \in DOMAIN nodes /\ n \in DOMAIN Unfolded BY <1>2 DEF Merged
<1>7. \A n \in Merged : n[1] = w => n \in B BY <1>2, <1>5, <1>6
<1>8. ASSUME NEW m PROVE m \in D <=> m \in E
  <2>1. ASSUME m \in D PROVE m \in E
    <3>1. SUFFICES ASSUME m \notin DOMAIN nodes PROVE FALSE BY <1>2, <2>1
    <3>2. PICK o \in Merged : m = Half(o) BY <1>1, <2>1, <3>1, UnfoldedIs
    <3> QED BY <1>4, <1>7, <2>1, <3>2
  <2>2. ASSUME m \in E PROVE m \in D BY <1>2, <1>3, <1>5, <2>2
  <2> QED BY <2>1, <2>2
<1>9. ASSUME NEW m \in E
      PROVE  (IF m \in B THEN job.merged ELSE Unfolded[m]) = Syms[m]
  <2>1. m \in DOMAIN nodes /\ Syms[m] = nodes[m].sym /\ (m \in B <=> m \in Merged)
    BY <1>2, <1>5, <1>7 DEF Syms
  <2> QED BY <1>1, <2>1, UnfoldedIs DEF Merged
<1>10. Partly(w, Len(w) + 1) = [n \in D |-> IF n \in B THEN job.merged ELSE Unfolded[n]]
  BY DEF Partly
<1>11. In(Syms, w) = [n \in E |-> Syms[n]] BY DEF In
<1> HIDE DEF B, D, E
<1>12. D = E BY <1>8
<1> QED BY <1>9, <1>10, <1>11, <1>12

\* The first place that is not merged is the encoder's turn.
LEMMA PartlyTurn ==
  ASSUME Ending, NEW w \in DOMAIN wordMap, NEW n \in Pairings, n[1] = w
  PROVE  Turn(Partly(w, n[2]), Partly(w, n[2] + 1))
<1> DEFINE k == n[2]
           f == Partly(w, k)
           U == Unfolded
           D == {m \in DOMAIN U : m[1] = w /\ \A o \in Passed(k) : m # Half(o)}
<1>1. /\ Words /\ Vocabulary /\ Chained /\ NewToken /\ Unfolding /\ OnlyLast
      /\ job.left # job.right /\ job.merged = Len(tokens)
      /\ WithParts(tokens, job.left, job.right) = {job.merged} /\ Chain(Unfolded)
  BY DEF Ending, Unfolding
<1>2. \A m \in Pairings : /\ m \in DOMAIN U /\ U[m] = job.left
                          /\ Half(m) \in DOMAIN U /\ U[Half(m)] = job.right
  BY DEF Pairings
<1>3. /\ \A m : Half(m)[1] = m[1] /\ Half(m)[2] = m[2] + Size(job.left)
      /\ \A m : Half(m) = Shifted(m, Size(job.left))
  BY DEF Half, Shifted, Size
<1>4. /\ Size(job.left) \in Nat \ {0}
      /\ \A m \in DOMAIN U : m = <<m[1], m[2]>> /\ m[2] \in Nat
  BY <1>1, Unfolds
<1>5. ASSUME NEW m \in Pairings, NEW o \in Pairings, Half(m) = Half(o) PROVE m = o
  <2>1. m[1] = o[1] /\ m[2] + Size(job.left) = o[2] + Size(job.left) BY <1>3, <1>5
  <2>2. m[2] = o[2] BY <1>2, <1>4, <2>1
  <2> QED BY <1>2, <1>4, <2>1, <2>2
<1>6. DOMAIN f = D /\ \A m \in D : f[m] = IF m \in Passed(k) THEN job.merged ELSE U[m]
  BY DEF Partly
<1>7. \A m \in Passed(k) : m \in Pairings /\ m[2] < k BY DEF Passed
<1>8. \A m \in Pairings : m[1] = w => m \in D BY <1>1, <1>2, <1>7
<1>9. n \notin Passed(k) /\ k \in Nat BY <1>2, <1>4, <1>7
<1>10. n \in D /\ f[n] = job.left BY <1>2, <1>6, <1>8, <1>9
<1>11. Half(n) \in D /\ f[Half(n)] = job.right
  <2>1. Half(n) \notin Pairings BY <1>1, <1>2
  <2>2. \A o \in Passed(k) : Half(n) # Half(o) BY <1>5, <1>7, <1>9
  <2>3. Half(n) \in D BY <1>2, <1>3, <2>2
  <2> QED BY <1>2, <1>6, <1>7, <2>1, <2>3
<1>12. Follower(f, n) = Half(n) BY <1>3, <1>10 DEF Follower
<1>13. Mergeable(f, n) /\ Target(f, n) = job.merged
  BY <1>1, <1>6, <1>10, <1>11, <1>12 DEF Mergeable, Target
<1>14. \A m \in D : f[m] \in Ids
  <2>1. \A m \in DOMAIN U : U[m] \in Ids BY <1>1 DEF Chain
  <2>2. job.merged \in Ids BY <1>1 DEF NewToken
  <2> QED BY <1>6, <2>1, <2>2
<1>15. ASSUME NEW m, Mergeable(f, m)
       PROVE  Target(f, n) = Target(f, m) /\ n[2] <= m[2]
  <2> DEFINE x == Follower(f, m)
  <2>1. m \in D /\ x \in D /\ WithParts(tokens, f[m], f[x]) # {} BY <1>6, <1>15 DEF Mergeable
  <2>2. PICK id \in Ids : tokens[id].left = f[m] /\ tokens[id].right = f[x]
    BY <2>1 DEF WithParts, Ids
  <2>3. f[m] # job.merged /\ f[x] # job.merged BY <1>1, <2>2 DEF OnlyLast
  <2>4. f[m] = U[m] /\ f[x] = U[x] /\ m \notin Passed(k) BY <1>6, <2>1, <2>3
  <2>5. x = Follower(U, m) BY <2>4 DEF Follower
  <2>6. Mergeable(U, m) BY <2>1, <2>4, <2>5 DEF Mergeable
  <2>7. U[m] = job.left /\ U[x] = job.right BY <1>1, <2>5, <2>6 DEF OnlyLast
  <2>8. x = Half(m) BY <1>3, <2>5, <2>7 DEF Follower
  <2>9. m \in Pairings BY <2>1, <2>7, <2>8 DEF Pairings
  <2>10. ~ (m[2] < k) BY <2>4, <2>9 DEF Passed
  <2>11. Target(f, m) = job.merged BY <1>1, <2>4, <2>7 DEF Target
  <2> QED BY <1>4, <1>9, <1>13, <2>1, <2>10, <2>11
<1>16. FirstMerge(f, n) BY <1>13, <1>15 DEF FirstMerge
<1>17. Partly(w, k + 1) = MergedAt(f, n)
  <2> DEFINE E == {m \in DOMAIN U : m[1] = w /\ \A o \in Passed(k + 1) : m # Half(o)}
  <2>1. \A m : m[1] = w => (m \in Passed(k + 1) <=> m \in Passed(k) \/ m = n)
    <3> SUFFICES ASSUME NEW m \in Pairings, m[1] = w PROVE m[2] < k + 1 <=> m[2] < k \/ m = n
      BY DEF Passed
    <3>1. m = <<w, m[2]>> /\ n = <<w, k>> /\ m[2] \in Nat /\ k \in Nat BY <1>2, <1>4
    <3>2. m = n <=> m[2] = k BY <3>1
    <3> QED BY <3>1, <3>2
  <2>2. \A m \in E : m \in D \ {Half(n)} BY <1>3, <2>1 
  <2>3. \A m \in D \ {Half(n)} : m \in E BY <1>3, <2>1
  <2>4. E = D \ {Half(n)} BY <2>2, <2>3
  <2>5. Partly(w, k + 1) = [m \in E |-> IF m \in Passed(k + 1) THEN job.merged ELSE U[m]]
    BY DEF Partly
  <2>6. MergedAt(f, n) = [m \in D \ {Half(n)} |-> IF m = n THEN job.merged ELSE f[m]]
    BY <1>6, <1>12, <1>13 DEF MergedAt
  <2>7. \A m \in E : (IF m \in Passed(k + 1) THEN job.merged ELSE U[m])
                        = (IF m = n THEN job.merged ELSE f[m])
    BY <1>6, <2>1, <2>2
  <2> HIDE DEF E, D, f, U, k
  <2> QED BY <2>4, <2>5, <2>6, <2>7
<1> HIDE DEF f
<1>18. Turn(f, Partly(w, k + 1)) BY <1>6, <1>14, <1>16, <1>17 DEF Turn
<1> QED BY <1>18 DEF f

\* Turn by turn, the encoder comes to where training has come.
LEMMA EndLeads ==
  ASSUME Ending, NEW w \in DOMAIN wordMap, NEW f, Leads(f, In(Unfolded, w))
  PROVE  Leads(f, In(Syms, w))
<1>1. Len(w) \in Nat BY WordParts DEF Ending, Unfolding, Words
<1> DEFINE bad == {k \in 1 .. Len(w) + 1 : ~ Leads(f, Partly(w, k))}
<1>2. ASSUME bad # {} PROVE FALSE
  <2>1. bad \subseteq Nat BY <1>1
  <2>2. PICK k \in bad : \A j \in bad : k <= j BY <1>2, <2>1, LeastElement
  <2>3. k # 1 BY <2>2, PartlyFirst
  <2>4. k - 1 \in 1 .. Len(w) + 1 /\ k - 1 \notin bad /\ k \in Nat BY <1>1, <2>1, <2>2, <2>3
  <2>5. Leads(f, Partly(w, k - 1)) BY <2>4
  <2>6. \A n \in DOMAIN Unfolded : n[2] \in Nat BY Unfolds DEF Ending
  <2>7. \A n : Half(n)[1] = n[1] BY DEF Half
  <2>8. CASE \E n \in Pairings : n[1] = w /\ n[2] = k - 1
    <3>1. PICK n \in Pairings : n[1] = w /\ n[2] = k - 1 BY <2>8
    <3>2. n[2] + 1 = k BY <2>4, <3>1
    <3>3. Turn(Partly(w, k - 1), Partly(w, k)) BY <3>1, <3>2, PartlyTurn
    <3> QED BY <2>2, <2>5, <3>3, LeadsOn
  <2>9. CASE ~ \E n \in Pairings : n[1] = w /\ n[2] = k - 1
    <3>1. \A n : n[1] = w => (n \in Passed(k) <=> n \in Passed(k - 1))
      <4> SUFFICES ASSUME NEW n \in Pairings, n[1] = w PROVE n[2] < k <=> n[2] < k - 1
        BY DEF Passed
      <4>1. n[2] \in Nat /\ n[2] # k - 1 BY <2>6, <2>9 DEF Pairings
      <4> QED BY <2>4, <4>1
    <3> DEFINE D(i) == {m \in DOMAIN Unfolded : m[1] = w /\ \A o \in Passed(i) : m # Half(o)}
    <3>2. D(k) = D(k - 1) BY <2>7, <3>1
    <3>3. \A n \in D(k) : n[1] = w OBVIOUS
    <3>4. \A i : Partly(w, i) = [n \in D(i) |-> IF n \in Passed(i) THEN job.merged ELSE Unfolded[n]]
      BY DEF Partly
    <3> HIDE DEF D
    <3>5. Partly(w, k) = Partly(w, k - 1) BY <3>1, <3>2, <3>3, <3>4
    <3> QED BY <2>2, <2>5, <3>5
  <2> QED BY <2>8, <2>9
<1>3. Len(w) + 1 \notin bad /\ Len(w) + 1 \in 1 .. Len(w) + 1 BY <1>1, <1>2
<1>4. Leads(f, Partly(w, Len(w) + 1)) BY <1>3
<1> QED BY <1>4, PartlyLast

----------------------------------------------------------------------------
(* Parts in a row and segmentations.  The parts of a word, one after the   *)
(* other, are a segmentation of it, where each begins after the others.    *)

Growing(at, m) == \A i, j \in 1 .. m : i < j => at[i] < at[j]

\* at says where each part begins.
Matches(w, parts, f, at) ==
  /\ parts \in Seq(Ids) \ {<< >>}
  /\ at \in [1 .. Len(parts) -> Nat] /\ at[1] = 1 /\ Growing(at, Len(parts))
  /\ \A i \in 1 .. Len(parts) - 1 : at[i + 1] = at[i] + Size(parts[i])
  /\ f = [n \in DOMAIN f |-> f[n]]
  /\ DOMAIN f = {<<w, at[i]>> : i \in 1 .. Len(parts)}
  /\ \A i \in 1 .. Len(parts) : f[<<w, at[i]>>] = parts[i]

\* A part is a token of the segmentation.
LEMMA MatchesNode ==
  ASSUME Vocabulary, NEW w, NEW parts, NEW f, NEW at, Matches(w, parts, f, at),
         NEW i \in 1 .. Len(parts)
  PROVE  /\ Len(parts) \in Nat \ {0} /\ parts[i] \in Ids /\ Size(parts[i]) \in Nat \ {0}
         /\ at[i] \in Nat /\ <<w, at[i]>> \in DOMAIN f /\ f[<<w, at[i]>>] = parts[i]
<1>1. /\ parts \in Seq(Ids) /\ parts # << >> /\ at \in [1 .. Len(parts) -> Nat]
      /\ DOMAIN f = {<<w, at[j]>> : j \in 1 .. Len(parts)}
      /\ \A j \in 1 .. Len(parts) : f[<<w, at[j]>>] = parts[j]
  BY DEF Matches
<1>2. Len(parts) \in Nat \ {0} /\ parts[i] \in Ids BY <1>1, EmptySeq, LenProperties, ElementOfSeq
<1>3. Size(parts[i]) \in Nat \ {0} BY <1>2, SizeIs
<1> QED BY <1>1, <1>2, <1>3

\* Its follower is the next part ...
LEMMA MatchesNext ==
  ASSUME Vocabulary, NEW w, NEW parts, NEW f, NEW at, Matches(w, parts, f, at),
         NEW i \in 1 .. Len(parts) - 1
  PROVE  Follower(f, <<w, at[i]>>) = <<w, at[i + 1]>>
<1>1. Len(parts) \in Nat BY LenProperties DEF Matches
<1>2. i \in 1 .. Len(parts) BY <1>1
<1>3. f[<<w, at[i]>>] = parts[i] BY <1>2, MatchesNode
<1>4. at[i + 1] = at[i] + Size(parts[i]) BY DEF Matches
<1> QED BY <1>3, <1>4 DEF Follower, Shifted

\* ... if it is not the last.
LEMMA MatchesLast ==
  ASSUME Vocabulary, NEW w, NEW parts, NEW f, NEW at, Matches(w, parts, f, at)
  PROVE  Follower(f, <<w, at[Len(parts)]>>) \notin DOMAIN f
<1> DEFINE l == Len(parts)
<1>1. /\ at \in [1 .. l -> Nat] /\ Growing(at, l) /\ DOMAIN f = {<<w, at[j]>> : j \in 1 .. l}
  BY DEF Matches
<1>2. l \in Nat \ {0} BY EmptySeq, LenProperties DEF Matches
<1>3. l \in 1 .. l BY <1>2
<1>4. f[<<w, at[l]>>] = parts[l] /\ Size(parts[l]) \in Nat \ {0} /\ at[l] \in Nat
  <2>1. \A i \in 1 .. l :
           f[<<w, at[i]>>] = parts[i] /\ Size(parts[i]) \in Nat \ {0} /\ at[i] \in Nat
    BY MatchesNode
  <2> HIDE DEF l
  <2> QED BY <1>3, <2>1
<1>5. Follower(f, <<w, at[l]>>) = <<w, at[l] + Size(parts[l])>> BY <1>4 DEF Follower, Shifted
<1> SUFFICES ASSUME Follower(f, <<w, at[l]>>) \in DOMAIN f PROVE FALSE OBVIOUS
<1>6. PICK j \in 1 .. l : <<w, at[l] + Size(parts[l])>> = <<w, at[j]>> BY <1>1, <1>5
<1>7. at[j] = at[l] + Size(parts[l]) /\ at[j] \in Nat BY <1>1, <1>6
<1>8. j < l \/ j = l BY <1>2
<1>9. at[j] <= at[l] BY <1>1, <1>3, <1>4, <1>8 DEF Growing
<1> QED BY <1>4, <1>7, <1>9

\* What can be merged is where the parts say so.
LEMMA MatchesMergeable ==
  ASSUME Vocabulary, NEW w, NEW parts, NEW f, NEW at, Matches(w, parts, f, at)
  PROVE  /\ \A i \in 1 .. Len(parts) :
              /\ Mergeable(f, <<w, at[i]>>) <=> Rank(tokens, parts, i) # NoRank(tokens)
              /\ Mergeable(f, <<w, at[i]>>) => Target(f, <<w, at[i]>>) = Rank(tokens, parts, i)
         /\ \A n : Mergeable(f, n) => \E i \in 1 .. Len(parts) : n = <<w, at[i]>>
<1>1. ASSUME NEW i \in 1 .. Len(parts)
      PROVE  /\ Mergeable(f, <<w, at[i]>>) <=> Rank(tokens, parts, i) # NoRank(tokens)
             /\ Mergeable(f, <<w, at[i]>>) => Target(f, <<w, at[i]>>) = Rank(tokens, parts, i)
  <2> DEFINE n == <<w, at[i]>>
             x == parts[i]
             y == parts[i + 1]
             id == CHOOSE id \in WithParts(tokens, x, y) : TRUE
  <2>1. Len(parts) \in Nat \ {0} /\ n \in DOMAIN f /\ f[n] = x BY MatchesNode
  <2>2. CASE i < Len(parts)
    <3>1. i \in 1 .. Len(parts) - 1 /\ i + 1 \in 1 .. Len(parts) BY <2>1, <2>2
    <3>2. Follower(f, n) = <<w, at[i + 1]>> BY <3>1, MatchesNext
    <3>3. Follower(f, n) \in DOMAIN f /\ f[Follower(f, n)] = y BY <3>1, <3>2, MatchesNode
    <3>4. Mergeable(f, n) <=> WithParts(tokens, x, y) # {} BY <2>1, <3>3 DEF Mergeable
    <3>5. Target(f, n) = id BY <2>1, <3>3 DEF Target
    <3>6. WithParts(tokens, x, y) # {} => Rank(tokens, parts, i) = id BY <2>2 DEF Rank
    <3>7. WithParts(tokens, x, y) = {} => Rank(tokens, parts, i) = NoRank(tokens)
      BY DEF Rank
    <3>8. WithParts(tokens, x, y) # {} => id # NoRank(tokens)
      <4>1. WithParts(tokens, x, y) # {} => id \in Ids BY DEF WithParts, Ids
      <4>2. Ids = 1 .. Len(tokens) /\ Len(tokens) \in Nat BY LenProperties DEF Vocabulary, Ids
      <4> HIDE DEF id
      <4> QED BY <4>1, <4>2 DEF NoRank
    <3> HIDE DEF n, id, x, y
    <3>9. /\ Mergeable(f, n) <=> Rank(tokens, parts, i) # NoRank(tokens)
          /\ Mergeable(f, n) => Target(f, n) = Rank(tokens, parts, i)
      BY <3>4, <3>5, <3>6, <3>7, <3>8
    <3> QED BY <3>9 DEF n
  <2>3. CASE ~ (i < Len(parts))
    <3>1. i = Len(parts) BY <2>1, <2>3
    <3>2. Follower(f, n) \notin DOMAIN f BY <3>1, MatchesLast
    <3>3. ~ Mergeable(f, n) BY <3>2 DEF Mergeable
    <3>4. Rank(tokens, parts, i) = NoRank(tokens) BY <2>3 DEF Rank
    <3> QED BY <3>3, <3>4
  <2> QED BY <2>2, <2>3
<1>2. \A n : Mergeable(f, n) => \E i \in 1 .. Len(parts) : n = <<w, at[i]>>
  BY DEF Mergeable, Matches
<1> QED BY <1>1, <1>2

\* A merge in both.
LEMMA MatchesMerged ==
  ASSUME Vocabulary, NEW w, NEW parts, NEW f, NEW at, Matches(w, parts, f, at),
         NEW k \in 1 .. Len(parts), Mergeable(f, <<w, at[k]>>)
  PROVE  \E to : Matches(w, Folded(parts, k, Rank(tokens, parts, k)), MergedAt(f, <<w, at[k]>>), to)
<1> DEFINE id == Rank(tokens, parts, k)
           n == <<w, at[k]>>
           left == Folded(parts, k, id)
           g == MergedAt(f, n)
           to == [i \in 1 .. Len(parts) - 1 |-> IF i <= k THEN at[i] ELSE at[i + 1]]
<1>1. id # NoRank(tokens) /\ Target(f, n) = id BY MatchesMergeable
<1>2. /\ parts \in Seq(Ids) /\ parts # << >> /\ at \in [1 .. Len(parts) -> Nat] /\ at[1] = 1
      /\ Growing(at, Len(parts))
      /\ \A i \in 1 .. Len(parts) - 1 : at[i + 1] = at[i] + Size(parts[i])
      /\ DOMAIN f = {<<w, at[i]>> : i \in 1 .. Len(parts)}
      /\ \A i \in 1 .. Len(parts) : f[<<w, at[i]>>] = parts[i]
  BY DEF Matches
<1>3. Len(parts) \in Nat \ {0} BY <1>2, EmptySeq, LenProperties
<1>4. /\ k < Len(parts) /\ id \in Ids
      /\ tokens[id].bytes = tokens[parts[k]].bytes \o tokens[parts[k + 1]].bytes
  BY <1>1, <1>2, RankIs
<1>5. k \in 1 .. Len(parts) - 1 /\ k + 1 \in 1 .. Len(parts) BY <1>3, <1>4
<1>6. parts[k] \in Ids /\ parts[k + 1] \in Ids BY <1>2, <1>3, <1>5, ElementOfSeq
<1>7. Size(id) = Size(parts[k]) + Size(parts[k + 1])
  <2>1. tokens[parts[k]].bytes \in Seq(Byte) /\ tokens[parts[k + 1]].bytes \in Seq(Byte)
    BY <1>6, BytesAre
  <2> HIDE DEF id
  <2> QED BY <1>4, <2>1, ConcatProperties DEF Size
<1>8. Follower(f, n) = <<w, at[k + 1]>> BY <1>5, MatchesNext
<1> HIDE DEF id
<1>9. /\ left \in Seq(Ids) /\ Len(left) = Len(parts) - 1
      /\ \A j \in 1 .. Len(parts) - 1 : left[j] =
           IF j < k THEN parts[j] ELSE IF j = k THEN id ELSE parts[j + 1]
  BY <1>2, <1>4, <1>5, FoldedIs
<1> HIDE DEF left
<1>10. left # << >>
  <2>1. Len(left) # 0 BY <1>3, <1>4, <1>9
  <2> QED BY <1>9, <2>1, EmptySeq
<1>11. to \in [1 .. Len(left) -> Nat] /\ to[1] = 1
  <2>1. ASSUME NEW i \in 1 .. Len(parts) - 1 PROVE i \in 1 .. Len(parts) /\ i + 1 \in 1 .. Len(parts)
    BY <1>3
  <2>2. 1 \in 1 .. Len(parts) - 1 /\ 1 <= k BY <1>3, <1>4
  <2> QED BY <1>2, <1>9, <2>1, <2>2
<1>12. \A i \in 1 .. Len(left) : to[i] = IF i <= k THEN at[i] ELSE at[i + 1] BY <1>9
<1> HIDE DEF to
<1>13. Growing(to, Len(left))
  <2> SUFFICES ASSUME NEW i \in 1 .. Len(left), NEW j \in 1 .. Len(left), i < j PROVE to[i] < to[j]
    BY DEF Growing
  <2> DEFINE a == IF i <= k THEN i ELSE i + 1
             b == IF j <= k THEN j ELSE j + 1
  <2>1. a \in 1 .. Len(parts) /\ b \in 1 .. Len(parts) /\ a < b BY <1>3, <1>9
  <2>2. to[i] = at[a] /\ to[j] = at[b] BY <1>12
  <2> QED BY <1>2, <2>1, <2>2 DEF Growing
<1>14. \A i \in 1 .. Len(left) - 1 : to[i + 1] = to[i] + Size(left[i])
  <2> TAKE i \in 1 .. Len(left) - 1
  <2>1. i \in 1 .. Len(left) /\ i + 1 \in 1 .. Len(left) BY <1>3, <1>9
  <2>2. CASE i < k
    <3>1. to[i] = at[i] /\ to[i + 1] = at[i + 1] /\ left[i] = parts[i] /\ i \in 1 .. Len(parts) - 1
      BY <1>3, <1>9, <1>12, <2>1, <2>2
    <3> QED BY <1>2, <3>1
  <2>3. CASE i = k
    <3>1. to[i] = at[k] /\ to[i + 1] = at[(k + 1) + 1] /\ left[i] = id /\ k + 1 \in 1 .. Len(parts) - 1
      BY <1>3, <1>9, <1>12, <2>1, <2>3
    <3>2. at[(k + 1) + 1] = at[k + 1] + Size(parts[k + 1]) /\ at[k + 1] = at[k] + Size(parts[k])
      BY <1>2, <1>5, <3>1
    <3>3. at[k] \in Nat /\ Size(parts[k]) \in Nat /\ Size(parts[k + 1]) \in Nat
      BY <1>2, <1>5, <1>6, SizeIs
    <3> QED BY <1>7, <3>1, <3>2, <3>3
  <2>4. CASE i > k
    <3>1. /\ to[i] = at[i + 1] /\ to[i + 1] = at[(i + 1) + 1] /\ left[i] = parts[i + 1]
          /\ i + 1 \in 1 .. Len(parts) - 1
      BY <1>3, <1>9, <1>12, <2>1, <2>4
    <3> QED BY <1>2, <3>1
  <2> QED BY <2>1, <2>2, <2>3, <2>4
<1>15. /\ DOMAIN g = DOMAIN f \ {<<w, at[k + 1]>>} /\ g = [m \in DOMAIN g |-> g[m]]
       /\ \A m \in DOMAIN g : g[m] = IF m = n THEN id ELSE f[m]
  BY <1>1, <1>8 DEF MergedAt
<1>16. \A i, j \in 1 .. Len(parts) : at[i] = at[j] => i = j
  <2> SUFFICES ASSUME NEW i \in 1 .. Len(parts), NEW j \in 1 .. Len(parts), i # j PROVE at[i] # at[j]
    OBVIOUS
  <2>1. i < j \/ j < i BY <1>3
  <2>2. at[i] \in Nat /\ at[j] \in Nat BY <1>2
  <2>3. at[i] < at[j] \/ at[j] < at[i] BY <1>2, <2>1 DEF Growing
  <2> QED BY <2>2, <2>3
<1> HIDE DEF g
<1>17. DOMAIN g = {<<w, to[i]>> : i \in 1 .. Len(left)}
  <2>1. ASSUME NEW m \in DOMAIN g PROVE \E i \in 1 .. Len(left) : m = <<w, to[i]>>
    <3>1. PICK i \in 1 .. Len(parts) : m = <<w, at[i]>> BY <1>2, <1>15
    <3>2. i # k + 1 BY <1>15, <3>1
    <3>3. CASE i <= k
      <4>1. i \in 1 .. Len(left) /\ to[i] = at[i] BY <1>3, <1>5, <1>9, <1>12, <3>3
      <4> QED BY <3>1, <4>1
    <3>4. CASE i > k
      <4>1. i - 1 \in 1 .. Len(left) /\ ~ (i - 1 <= k) /\ (i - 1) + 1 = i
        BY <1>3, <1>9, <3>2, <3>4, <1>5
      <4>2. to[i - 1] = at[i] BY <1>12, <4>1
      <4> QED BY <3>1, <4>1, <4>2
    <3> QED BY <3>3, <3>4, <1>3
  <2>2. ASSUME NEW i \in 1 .. Len(left) PROVE <<w, to[i]>> \in DOMAIN g
    <3> DEFINE a == IF i <= k THEN i ELSE i + 1
    <3>1. a \in 1 .. Len(parts) /\ a # k + 1 /\ to[i] = at[a] BY <1>3, <1>9, <1>12
    <3>2. at[a] # at[k + 1] BY <1>5, <1>16, <3>1
    <3> HIDE DEF a
    <3>3. <<w, at[a]>> # <<w, at[k + 1]>> BY <3>2
    <3> QED BY <1>2, <1>15, <3>1, <3>3
  <2> QED BY <2>1, <2>2
<1>18. \A i \in 1 .. Len(left) : g[<<w, to[i]>>] = left[i]
  <2> TAKE i \in 1 .. Len(left)
  <2> DEFINE a == IF i <= k THEN i ELSE i + 1
  <2>1. /\ a \in 1 .. Len(parts) /\ to[i] = at[a] /\ (a = k <=> i = k)
        /\ left[i] = IF a = k THEN id ELSE parts[a]
    BY <1>3, <1>5, <1>9, <1>12
  <2> HIDE DEF a
  <2>2. <<w, at[a]>> \in DOMAIN g BY <1>17, <2>1
  <2>3. <<w, at[a]>> = n <=> a = k BY <1>16, <2>1
  <2>4. f[<<w, at[a]>>] = parts[a] BY <1>2, <2>1
  <2> QED BY <1>15, <2>1, <2>2, <2>3, <2>4
<1>19. Matches(w, left, g, to)
  BY <1>9, <1>10, <1>11, <1>13, <1>14, <1>15, <1>17, <1>18 DEF Matches
<1> QED BY <1>19 DEF left, g, id

\* The parts are determined by the segmentation.
LEMMA MatchesUnique ==
  ASSUME Vocabulary, NEW w, NEW p, NEW q, NEW f, NEW a, NEW b, Matches(w, p, f, a), Matches(w, q, f, b)
  PROVE  p = q
<1>1. /\ p \in Seq(Ids) /\ q \in Seq(Ids) /\ Len(p) \in Nat \ {0} /\ Len(q) \in Nat \ {0}
      /\ a[1] = 1 /\ b[1] = 1
      /\ \A i \in 1 .. Len(p) - 1 : a[i + 1] = a[i] + Size(p[i])
      /\ \A i \in 1 .. Len(q) - 1 : b[i + 1] = b[i] + Size(q[i])
      /\ \A i \in 1 .. Len(p) : f[<<w, a[i]>>] = p[i]
      /\ \A i \in 1 .. Len(q) : f[<<w, b[i]>>] = q[i]
  BY EmptySeq, LenProperties DEF Matches
<1> DEFINE Both == {i \in 1 .. Len(p) : i <= Len(q)}
           bad == {i \in Both : a[i] # b[i]}
<1>2. ASSUME bad # {} PROVE FALSE
  <2>1. bad \subseteq Nat BY <1>1
  <2>2. PICK k \in bad : \A j \in bad : k <= j BY <1>2, <2>1, LeastElement
  <2>3. k \in Nat /\ k # 1 /\ k \in 1 .. Len(p) /\ k \in 1 .. Len(q) BY <1>1, <2>1, <2>2
  <2>4. k - 1 \in 1 .. Len(p) - 1 /\ k - 1 \in 1 .. Len(q) - 1 /\ (k - 1) + 1 = k BY <1>1, <2>3
  <2>5. k - 1 \in 1 .. Len(p) /\ k - 1 \in 1 .. Len(q) /\ k - 1 \in Both BY <1>1, <2>4
  <2>6. a[k - 1] = b[k - 1]
    <3>1. k - 1 \notin bad BY <2>2, <2>3
    <3> QED BY <2>5, <3>1
  <2>7. p[k - 1] = q[k - 1] BY <1>1, <2>5, <2>6
  <2>8. a[k] = b[k] BY <1>1, <2>4, <2>6, <2>7
  <2> QED BY <2>2, <2>8
<1>3. \A i \in Both : a[i] = b[i] /\ p[i] = q[i]
  <2> TAKE i \in Both
  <2>1. i \in 1 .. Len(p) /\ i \in 1 .. Len(q) /\ a[i] = b[i] BY <1>1, <1>2
  <2> QED BY <1>1, <2>1
<1>4. ASSUME Len(p) < Len(q) PROVE FALSE
  <2>1. /\ Len(p) \in Both /\ Len(p) \in 1 .. Len(q) - 1 /\ Len(p) + 1 \in 1 .. Len(q)
    BY <1>1, <1>4
  <2>2. Follower(f, <<w, a[Len(p)]>>) \notin DOMAIN f BY MatchesLast
  <2>3. Follower(f, <<w, b[Len(p)]>>) = <<w, b[Len(p) + 1]>> BY <2>1, MatchesNext
  <2>4. <<w, b[Len(p) + 1]>> \in DOMAIN f BY <2>1, MatchesNode
  <2> QED BY <1>3, <2>1, <2>2, <2>3, <2>4
<1>5. ASSUME Len(q) < Len(p) PROVE FALSE
  <2>1. /\ Len(q) \in Both /\ Len(q) \in 1 .. Len(p) - 1 /\ Len(q) + 1 \in 1 .. Len(p)
    BY <1>1, <1>5
  <2>2. Follower(f, <<w, b[Len(q)]>>) \notin DOMAIN f BY MatchesLast
  <2>3. Follower(f, <<w, a[Len(q)]>>) = <<w, a[Len(q) + 1]>> BY <2>1, MatchesNext
  <2>4. <<w, a[Len(q) + 1]>> \in DOMAIN f BY <2>1, MatchesNode
  <2> QED BY <1>3, <2>1, <2>2, <2>3, <2>4
<1>6. Len(p) = Len(q) BY <1>1, <1>4, <1>5
<1>7. \A i \in 1 .. Len(p) : p[i] = q[i] BY <1>1, <1>3, <1>6
<1> QED BY <1>1, <1>6, <1>7, SeqEqual

\* The bytes of a word are its first segmentation.
LEMMA MatchesFirst ==
  ASSUME Vocabulary, NEW w \in Seq(Byte) \ {<< >>}
  PROVE  Matches(w, w, Spread(w), [i \in 1 .. Len(w) |-> i])
<1> DEFINE at == [i \in 1 .. Len(w) |-> i]
           f == Spread(w)
<1>1. Len(w) \in Nat \ {0} /\ DOMAIN w = 1 .. Len(w) /\ \A i \in 1 .. Len(w) : w[i] \in Byte
  BY EmptySeq, LenProperties, ElementOfSeq
<1>2. w \in Seq(Ids) \ {<< >>}
  <2>1. Byte \subseteq Ids BY DEF Vocabulary
  <2>2. w \in [1 .. Len(w) -> Ids] BY <1>1, <2>1
  <2> QED BY <1>1, <2>2, SeqDef
<1>3. \A i \in 1 .. Len(w) : Size(w[i]) = 1
  <2> TAKE i \in 1 .. Len(w)
  <2>1. tokens[w[i]] = ByteTokens[w[i]] /\ w[i] \in Byte BY <1>1 DEF Vocabulary
  <2>2. ByteTokens[w[i]].bytes = << w[i] >> BY <2>1 DEF ByteTokens
  <2>3. Len(<< w[i] >>) = 1 OBVIOUS
  <2> QED BY <2>1, <2>2, <2>3 DEF Size
<1>4. /\ at \in [1 .. Len(w) -> Nat] /\ at[1] = 1 /\ Growing(at, Len(w))
      /\ \A i \in 1 .. Len(w) - 1 : at[i + 1] = at[i] + Size(w[i])
  <2>1. at \in [1 .. Len(w) -> Nat] /\ at[1] = 1 /\ Growing(at, Len(w)) BY <1>1 DEF Growing
  <2>2. ASSUME NEW i \in 1 .. Len(w) - 1 PROVE at[i + 1] = at[i] + Size(w[i])
    <3>1. i \in 1 .. Len(w) /\ i + 1 \in 1 .. Len(w) BY <1>1
    <3>2. Size(w[i]) = 1 BY <1>3, <3>1
    <3> QED BY <3>1, <3>2
  <2> QED BY <2>1, <2>2
<1>5. /\ f = [n \in DOMAIN f |-> f[n]] /\ DOMAIN f = {<<w, at[i]>> : i \in 1 .. Len(w)}
      /\ \A i \in 1 .. Len(w) : f[<<w, at[i]>>] = w[i]
  <2>1. f = [n \in {<<w, i>> : i \in 1 .. Len(w)} |-> w[n[2]]] BY <1>1 DEF Spread
  <2>2. {<<w, at[i]>> : i \in 1 .. Len(w)} = {<<w, i>> : i \in 1 .. Len(w)} OBVIOUS
  <2>3. ASSUME NEW i \in 1 .. Len(w) PROVE f[<<w, at[i]>>] = w[i] BY <2>1
  <2> QED BY <2>1, <2>2, <2>3
<1> HIDE DEF at, f
<1>6. Matches(w, w, f, at) BY <1>2, <1>4, <1>5 DEF Matches
<1> QED BY <1>6 DEF at, f

\* The parts of a word up to a position, and where they are.
ListedTo(w, i, at) ==
  LET parts == FlattenSeq(Parts(w, i)) IN
  /\ parts \in Seq(Ids) /\ at \in [1 .. Len(parts) -> 1 .. i] /\ Growing(at, Len(parts))
  /\ \A k \in 1 .. i : There(w, k) <=> \E j \in 1 .. Len(parts) : at[j] = k
  /\ \A j \in 1 .. Len(parts) : nodes[<<w, at[j]>>].sym = parts[j]

\* A node more is a part more.
LEMMA ListedStep ==
  ASSUME Words, Vocabulary, Chained, NEW w \in DOMAIN wordMap, NEW i \in Nat, NEW at,
         ListedTo(w, i, at)
  PROVE  \E to : ListedTo(w, i + 1, to)
<1> DEFINE p == FlattenSeq(Parts(w, i))
           q == FlattenSeq(Parts(w, i + 1))
           l == Len(p)
<1>1. /\ p \in Seq(Ids) /\ at \in [1 .. l -> 1 .. i] /\ Growing(at, l)
      /\ \A k \in 1 .. i : There(w, k) <=> \E j \in 1 .. l : at[j] = k
      /\ \A j \in 1 .. l : nodes[<<w, at[j]>>].sym = p[j]
  BY DEF ListedTo
<1>2. l \in Nat BY <1>1, LenProperties
<1>3. CASE ~ There(w, i + 1)
  <2>1. q = p BY <1>3, PartsStep DEF There
  <2>2. at \in [1 .. l -> 1 .. i + 1] BY <1>1, <1>2
  <2>3. ASSUME NEW k \in 1 .. i + 1 PROVE There(w, k) <=> \E j \in 1 .. l : at[j] = k
    <3>1. CASE k = i + 1 BY <1>1, <1>3, <3>1
    <3>2. CASE k # i + 1 BY <1>1, <3>2
    <3> QED BY <3>1, <3>2
  <2> HIDE DEF p, q
  <2>4. /\ q \in Seq(Ids) /\ at \in [1 .. Len(q) -> 1 .. i + 1] /\ Growing(at, Len(q))
        /\ \A k \in 1 .. i + 1 : There(w, k) <=> \E j \in 1 .. Len(q) : at[j] = k
        /\ \A j \in 1 .. Len(q) : nodes[<<w, at[j]>>].sym = q[j]
    BY <1>1, <2>1, <2>2, <2>3
  <2>5. ListedTo(w, i + 1, at) BY <2>4 DEF ListedTo, q
  <2> QED BY <2>5
<1>4. CASE There(w, i + 1)
  <2> DEFINE s == nodes[<<w, i + 1>>].sym
             to == [j \in 1 .. l + 1 |-> IF j = l + 1 THEN i + 1 ELSE at[j]]
  <2>1. q = Append(p, s) /\ s \in Ids
    <3>1. <<w, i + 1>> \in DOMAIN nodes BY <1>4 DEF There
    <3> QED BY <3>1, PartsStep, NodeParts DEF Node
  <2> HIDE DEF p, q, s, l
  <2>2. /\ q \in Seq(Ids) /\ Len(q) = l + 1 /\ q[l + 1] = s /\ \A j \in 1 .. l : q[j] = p[j]
    BY <1>1, <2>1, AppendProperties DEF l
  <2>3. to \in [1 .. l + 1 -> 1 .. i + 1]
    <3>1. \A j \in 1 .. l + 1 : j # l + 1 => j \in 1 .. l BY <1>2
    <3> QED BY <1>1, <3>1
  <2>4. to[l + 1] = i + 1 /\ \A j \in 1 .. l : to[j] = at[j] /\ at[j] \in 1 .. i BY <1>1, <1>2
  <2>5. \A j \in 1 .. l + 1 : j = l + 1 \/ j \in 1 .. l BY <1>2
  <2>6. l + 1 \in 1 .. l + 1 /\ \A j \in 1 .. l : j \in 1 .. l + 1 /\ j < l + 1 BY <1>2
  <2> HIDE DEF to
  <2>7. Growing(to, l + 1)
    <3> SUFFICES ASSUME NEW a \in 1 .. l + 1, NEW b \in 1 .. l + 1, a < b PROVE to[a] < to[b]
      BY DEF Growing
    <3>1. a \in 1 .. l BY <1>2
    <3>2. CASE b = l + 1 BY <2>4, <3>1, <3>2
    <3>3. CASE b # l + 1
      <4>1. b \in 1 .. l BY <2>5, <3>3
      <4> QED BY <1>1, <2>4, <3>1, <4>1 DEF Growing
    <3> QED BY <3>2, <3>3
  <2>8. ASSUME NEW k \in 1 .. i + 1 PROVE There(w, k) <=> \E j \in 1 .. l + 1 : to[j] = k
    <3>1. CASE k = i + 1 BY <1>4, <2>4, <2>6, <3>1
    <3>2. CASE k # i + 1
      <4>1. k \in 1 .. i BY <3>2
      <4>2. (\E j \in 1 .. l + 1 : to[j] = k) <=> \E j \in 1 .. l : at[j] = k
        BY <2>4, <2>5, <2>6, <3>2
      <4> QED BY <1>1, <4>1, <4>2
    <3> QED BY <3>1, <3>2
  <2>9. ASSUME NEW j \in 1 .. l + 1 PROVE nodes[<<w, to[j]>>].sym = q[j]
    <3>1. CASE j = l + 1 BY <2>2, <2>4, <3>1 DEF s
    <3>2. CASE j \in 1 .. l BY <1>1, <2>2, <2>4, <3>2
    <3> QED BY <2>5, <3>1, <3>2
  <2>10. ListedTo(w, i + 1, to) BY <2>2, <2>3, <2>7, <2>8, <2>9 DEF ListedTo, q
  <2> QED BY <2>10
<1> QED BY <1>3, <1>4

\* What the nodes of a word come to is their segmentation.
LEMMA SegmentationMatches ==
  ASSUME Words, Vocabulary, Chained, NEW w \in DOMAIN wordMap
  PROVE  \E at : Matches(w, Segmentation(w), In(Syms, w), at)
<1> DEFINE p == Segmentation(w)
           l == Len(p)
           m == Len(w)
           f == In(Syms, w)
<1>1. m \in Nat \ {0} /\ DOMAIN w = 1 .. m BY WordParts DEF Words
<1>2. p = FlattenSeq(Parts(w, m)) BY <1>1 DEF Segmentation, Parts, Part
<1> DEFINE bad == {i \in Nat : ~ \E at : ListedTo(w, i, at)}
<1>3. bad = {}
  <2>1. SUFFICES ASSUME bad # {} PROVE FALSE OBVIOUS
  <2>2. PICK i \in bad : \A j \in bad : i <= j BY <2>1, LeastElement
  <2>3. i # 0
    <3> DEFINE z == [j \in 1 .. 0 |-> 0]
    <3>1. FlattenSeq(Parts(w, 0)) = << >> BY PartsStep
    <3>2. << >> \in Seq(Ids) /\ Len(<< >>) = 0 BY EmptySeq
    <3>3. 1 .. 0 = {} OBVIOUS
    <3>4. z \in [1 .. 0 -> 1 .. 0] BY <3>3
    <3> HIDE DEF z
    <3>5. /\ FlattenSeq(Parts(w, 0)) \in Seq(Ids) /\ Len(FlattenSeq(Parts(w, 0))) = 0
      BY <3>1, <3>2
    <3>6. Growing(z, 0) BY <3>3 DEF Growing
    <3>7. ListedTo(w, 0, z) BY <3>3, <3>4, <3>5, <3>6 DEF ListedTo
    <3> QED BY <2>2, <3>7
  <2>4. i - 1 \in Nat /\ i - 1 \notin bad /\ (i - 1) + 1 = i BY <2>2, <2>3
  <2>5. PICK at : ListedTo(w, i - 1, at) BY <2>4
  <2>6. \E to : ListedTo(w, i, to) BY <2>4, <2>5, ListedStep
  <2> QED BY <2>2, <2>6
<1>4. PICK at : ListedTo(w, m, at) BY <1>1, <1>3
<1>5. /\ p \in Seq(Ids) /\ at \in [1 .. l -> 1 .. m] /\ Growing(at, l)
      /\ \A k \in 1 .. m : There(w, k) <=> \E j \in 1 .. l : at[j] = k
      /\ \A j \in 1 .. l : nodes[<<w, at[j]>>].sym = p[j]
  BY <1>2, <1>4 DEF ListedTo
<1> HIDE DEF p, m
<1>6. l \in Nat BY <1>5, LenProperties
<1> HIDE DEF l
<1>7. \A j \in 1 .. l : There(w, at[j]) /\ at[j] \in Nat /\ p[j] \in Ids
  <2> TAKE j \in 1 .. l
  <2>1. at[j] \in 1 .. m BY <1>5
  <2>2. p[j] \in Ids BY <1>5, ElementOfSeq DEF l
  <2> QED BY <1>1, <1>5, <2>1, <2>2
<1>8. at[1] = 1 /\ l # 0
  <2>1. There(w, 1) BY DEF Chained, There
  <2>2. PICK j \in 1 .. l : at[j] = 1 BY <1>1, <1>5, <2>1
  <2>3. 1 \in 1 .. l /\ at[1] \in 1 .. m BY <1>5, <1>6, <2>2
  <2>4. j = 1 \/ at[1] < at[j] BY <1>5, <2>2, <2>3 DEF Growing
  <2> QED BY <1>1, <1>6, <2>2, <2>3, <2>4
<1>9. DOMAIN Syms = DOMAIN nodes /\ \A n \in DOMAIN nodes : Syms[n] = nodes[n].sym BY DEF Syms
<1>10. /\ f = [n \in DOMAIN f |-> f[n]]
       /\ \A n : n \in DOMAIN f <=> n \in DOMAIN nodes /\ n[1] = w
       /\ \A n \in DOMAIN f : f[n] = nodes[n].sym
  BY <1>9 DEF In
<1> HIDE DEF f
<1>11. DOMAIN f = {<<w, at[j]>> : j \in 1 .. l}
  <2>1. ASSUME NEW n \in DOMAIN f PROVE \E j \in 1 .. l : n = <<w, at[j]>>
    <3>1. n \in DOMAIN nodes /\ n[1] = w BY <1>10
    <3>2. n = <<w, n[2]>> /\ n[2] \in 1 .. m BY <3>1, NodeParts DEF m
    <3>3. There(w, n[2]) BY <3>1, <3>2 DEF There
    <3> QED BY <1>5, <3>2, <3>3
  <2>2. ASSUME NEW j \in 1 .. l PROVE <<w, at[j]>> \in DOMAIN f BY <1>7, <1>10 DEF There
  <2> QED BY <2>1, <2>2
<1>12. \A j \in 1 .. l : f[<<w, at[j]>>] = p[j] BY <1>5, <1>10, <1>11
<1>13. ASSUME NEW j \in 1 .. l - 1 PROVE at[j + 1] = at[j] + Size(p[j])
  <2> DEFINE n == <<w, at[j]>>
             e == at[j] + Size(p[j])
  <2>1. j \in 1 .. l /\ j + 1 \in 1 .. l BY <1>6
  <2>2. /\ n \in DOMAIN nodes /\ n[1] = w /\ n[2] = at[j] /\ Syms[n] = p[j]
    BY <1>5, <1>7, <1>9, <2>1 DEF There
  <2>3. at[j] \in Nat /\ at[j + 1] \in 1 .. m /\ Size(p[j]) \in Nat \ {0} /\ at[j] < at[j + 1]
    <3>1. j < j + 1 BY <2>1
    <3> QED BY <1>5, <1>7, <2>1, <3>1, SizeIs DEF Growing
  <2>4. /\ e = m + 1 \/ There(w, e)
        /\ \A k \in 1 .. Size(p[j]) - 1 : ~ There(w, at[j] + k)
    BY <1>9, <2>2, SymsChain DEF Chain, EndsAt, There, m
  <2>5. There(w, at[j + 1]) BY <1>7, <2>1
  <2>6. ~ (at[j + 1] < e)
    <3>1. SUFFICES ASSUME at[j + 1] < e PROVE FALSE OBVIOUS
    <3>2. at[j + 1] - at[j] \in 1 .. Size(p[j]) - 1 /\ at[j] + (at[j + 1] - at[j]) = at[j + 1]
      BY <2>3, <3>1
    <3> QED BY <2>4, <2>5, <3>2
  <2> HIDE DEF e
  <2>7. e \in Nat /\ e >= 1 /\ e > at[j] BY <2>3 DEF e
  <2>8. e \in 1 .. m BY <1>1, <2>3, <2>6, <2>7
  <2>9. PICK i \in 1 .. l : at[i] = e
    <3>1. There(w, e) BY <1>1, <2>4, <2>8
    <3> QED BY <1>5, <2>8, <3>1
  <2>10. ~ (i <= j)
    <3>1. SUFFICES ASSUME i <= j PROVE FALSE OBVIOUS
    <3>2. i = j \/ at[i] < at[j] BY <1>5, <2>1, <3>1 DEF Growing
    <3> QED BY <2>3, <2>7, <2>9, <3>2
  <2>11. i = j + 1 \/ at[j + 1] < at[i] BY <1>5, <2>1, <2>10 DEF Growing
  <2> QED BY <2>3, <2>6, <2>7, <2>9, <2>11 DEF e
<1>14. p # << >> BY <1>6, <1>8, EmptySeq DEF l
<1>15. at \in [1 .. l -> Nat]
  <2>1. 1 .. m \subseteq Nat BY <1>1
  <2> QED BY <1>5, <2>1
<1>16. Matches(w, p, f, at)
  BY <1>5, <1>8, <1>10, <1>11, <1>12, <1>13, <1>14, <1>15 DEF Matches, l
<1> QED BY <1>16 DEF p, f

----------------------------------------------------------------------------
(* The loop of gd_encode_piece takes these turns, and no others.           *)

\* A turn of the loop is a turn of the segmentation.
LEMMA EncodeTurn ==
  ASSUME Vocabulary, NEW w, NEW e, Ranked(e), NEW f, NEW at, Matches(w, e.parts, f, at),
         NEW g, Turn(f, g)
  PROVE  /\ \E to : Matches(w, MergeLowest(tokens, e).parts, g, to)
         /\ Len(MergeLowest(tokens, e).parts) = Len(e.parts) - 1
<1>0. PICK parts, ranks : parts = e.parts /\ ranks = e.ranks OBVIOUS
<1> DEFINE l == Len(parts)
<1>1. /\ parts \in Seq(Ids) /\ l \in Nat \ {0} /\ DOMAIN ranks = 1 .. l
      /\ \A j \in 1 .. l : ranks[j] = Rank(tokens, parts, j)
  BY <1>0, RankedParts
<1>2. Matches(w, parts, f, at) BY <1>0
<1>3. PICK n : FirstMerge(f, n) /\ g = MergedAt(f, n) BY DEF Turn
<1>4. Mergeable(f, n) BY <1>3 DEF FirstMerge
<1>5. PICK k \in 1 .. l : n = <<w, at[k]>> BY <1>2, <1>4, MatchesMergeable
<1>6. \A j \in 1 .. l : ranks[j] \in Nat /\ at[j] \in Nat
  <2> TAKE j \in 1 .. l
  <2>1. Rank(tokens, parts, j) \in Nat BY <1>1, RankIs
  <2>2. at \in [1 .. l -> Nat] BY <1>2 DEF Matches
  <2> QED BY <1>1, <2>1, <2>2
<1>7. \A j \in 1 .. l : /\ Mergeable(f, <<w, at[j]>>) <=> ranks[j] # NoRank(tokens)
                        /\ Mergeable(f, <<w, at[j]>>) => Target(f, <<w, at[j]>>) = ranks[j]
  BY <1>1, <1>2, MatchesMergeable
<1>8. ranks[k] # NoRank(tokens) /\ Target(f, n) = ranks[k] BY <1>4, <1>5, <1>7
<1>9. k < l /\ ranks[k] \in Ids
  <2>1. Rank(tokens, parts, k) # NoRank(tokens) BY <1>1, <1>8
  <2>2. k < Len(parts) /\ Rank(tokens, parts, k) \in Ids BY <1>1, <2>1, RankIs
  <2> QED BY <1>1, <2>2
<1>10. Len(tokens) \in Nat /\ Ids = 1 .. Len(tokens) /\ NoRank(tokens) = Len(tokens) + 1
  BY LenProperties DEF Vocabulary, Ids, NoRank
<1>11. \A i, j \in 1 .. l : i < j => at[i] < at[j] BY <1>2 DEF Matches, Growing
<1> HIDE DEF l
<1>12. ASSUME NEW j \in 1 .. l PROVE ranks[k] < ranks[j] \/ (ranks[k] = ranks[j] /\ k <= j)
  <2>1. CASE Mergeable(f, <<w, at[j]>>)
    <3>1. Target(f, n) < Target(f, <<w, at[j]>>)
          \/ (Target(f, n) = Target(f, <<w, at[j]>>) /\ n[2] <= <<w, at[j]>>[2])
      BY <1>3, <2>1 DEF FirstMerge
    <3>2. Target(f, <<w, at[j]>>) = ranks[j] /\ n[2] = at[k] BY <1>5, <1>7, <2>1
    <3>3. ~ (at[j] < at[k]) => k <= j BY <1>1, <1>11
    <3>4. at[k] <= at[j] => ~ (at[j] < at[k]) BY <1>6
    <3> QED BY <1>8, <3>1, <3>2, <3>3, <3>4
  <2>2. CASE ~ Mergeable(f, <<w, at[j]>>)
    <3>1. ranks[j] = NoRank(tokens) BY <1>7, <2>2
    <3> QED BY <1>9, <1>10, <3>1
  <2> QED BY <2>1, <2>2
<1>13. Lowest(e) = k
  <2> DEFINE Low(i) == \A j \in 1 .. l : ranks[i] < ranks[j] \/ (ranks[i] = ranks[j] /\ i <= j)
             low == CHOOSE i \in 1 .. l : Low(i)
  <2>1. Lowest(e) = low BY <1>0, <1>1 DEF Lowest
  <2>2. Low(k) BY <1>12
  <2>3. low \in 1 .. l /\ Low(low) BY <2>2
  <2> HIDE DEF low
  <2>4. low = k BY <1>1, <1>6, <2>2, <2>3
  <2> QED BY <2>1, <2>4
<1> DEFINE left == Folded(parts, k, ranks[k])
<1>14. MergeLowest(tokens, e).parts = left BY <1>0, <1>8, <1>13 DEF MergeLowest, Folded
<1>15. Len(left) = l - 1
  <2>1. k \in 1 .. Len(parts) - 1 BY <1>1, <1>9 DEF l
  <2> QED BY <1>1, <1>9, <2>1, FoldedIs DEF l
<1>16. \E to : Matches(w, left, g, to)
  <2>1. k \in 1 .. Len(parts) BY DEF l
  <2>2. \E to : Matches(w, Folded(parts, k, Rank(tokens, parts, k)), MergedAt(f, <<w, at[k]>>), to)
    BY <1>2, <1>4, <1>5, <2>1, MatchesMerged
  <2> QED BY <1>1, <1>3, <1>5, <2>2
<1> HIDE DEF left
<1> QED BY <1>0, <1>14, <1>15, <1>16 DEF l

\* Where nothing can be merged, the loop is at its end.
LEMMA EncodeDone ==
  ASSUME Vocabulary, NEW w, NEW e, Ranked(e), NEW f, NEW at, Matches(w, e.parts, f, at),
         \A n : ~ Mergeable(f, n)
  PROVE  MergeLowest(tokens, e) = e
<1>1. /\ e.parts \in Seq(Ids) /\ Len(e.parts) \in Nat \ {0} /\ DOMAIN e.ranks = 1 .. Len(e.parts)
      /\ \A j \in 1 .. Len(e.parts) : e.ranks[j] = Rank(tokens, e.parts, j)
  BY RankedParts
<1>2. ASSUME NEW j \in 1 .. Len(e.parts) PROVE e.ranks[j] \in Nat /\ e.ranks[j] = NoRank(tokens)
  <2>1. Rank(tokens, e.parts, j) \in Nat BY <1>1, RankIs
  <2>2. Mergeable(f, <<w, at[j]>>) <=> Rank(tokens, e.parts, j) # NoRank(tokens)
    BY MatchesMergeable
  <2> QED BY <1>1, <2>1, <2>2
<1>3. Lowest(e) \in DOMAIN e.ranks
  <2>1. 1 \in 1 .. Len(e.parts) /\ 1 .. Len(e.parts) \subseteq Nat BY <1>1
  <2> QED BY <1>1, <1>2, <2>1, LowestIs
<1>4. e.ranks[Lowest(e)] = NoRank(tokens) BY <1>1, <1>2, <1>3
<1> QED BY <1>4 DEF MergeLowest

\* The loop comes to where turns lead, if they lead no further.
LEMMA EncodeFollows ==
  ASSUME Vocabulary, NEW w \in Seq(Byte) \ {<< >>}, NEW g, Leads(Spread(w), g),
         \A n : ~ Mergeable(g, n)
  PROVE  \E at : Matches(w, MergedParts(tokens, w), g, at)
<1> DEFINE f == CHOOSE f : f = [n \in 0 .. Len(w) |->
                  IF n = 0 THEN Start(tokens, w) ELSE MergeLowest(tokens, f[n - 1])]
           m == Len(w)
<1>0. m \in Nat BY LenProperties
<1>1. \E h : h = [n \in 0 .. Len(w) |->
                  IF n = 0 THEN Start(tokens, w) ELSE MergeLowest(tokens, h[n - 1])]
  <2>1. \E h : EncodeLoop(h, w, Len(w)) BY <1>0, EncodeLoopExists
  <2> QED BY <2>1, Zenon DEF EncodeLoop
<1>2. EncodeLoop(f, w, Len(w)) BY <1>1, Zenon DEF EncodeLoop
<1>3. MergedParts(tokens, w) = f[Len(w)].parts BY Zenon DEF MergedParts
<1> HIDE DEF f
<1>4. \A n \in 0 .. m : f[n] = IF n = 0 THEN Start(tokens, w) ELSE MergeLowest(tokens, f[n - 1])
  BY <1>2 DEF EncodeLoop
<1> DEFINE Taken(n, x) == /\ Encoding(f[n], w) /\ Len(f[n].parts) = m - n
                          /\ \E at : Matches(w, f[n].parts, x, at)
           All == UNION {[D -> Ids] : D \in SUBSET ({w} \X Nat)}
           R == {x \in All : \E n \in 0 .. m : Taken(n, x)}
<1>5. \A n, x : Taken(n, x) => x \in All
  <2> SUFFICES ASSUME NEW n, NEW x, Taken(n, x) PROVE x \in All OBVIOUS
  <2> DEFINE p == f[n].parts
  <2>1. PICK at : Matches(w, p, x, at) OBVIOUS
  <2>2. /\ x = [y \in DOMAIN x |-> x[y]] /\ DOMAIN x = {<<w, at[i]>> : i \in 1 .. Len(p)}
    BY <2>1 DEF Matches
  <2>3. \A i \in 1 .. Len(p) : p[i] \in Ids /\ at[i] \in Nat /\ x[<<w, at[i]>>] = p[i]
    BY <2>1, MatchesNode
  <2> HIDE DEF p
  <2>4. DOMAIN x \in SUBSET ({w} \X Nat)
    <3>1. ASSUME NEW y \in DOMAIN x PROVE y \in {w} \X Nat
      <4>1. PICK i \in 1 .. Len(p) : y = <<w, at[i]>> BY <2>2
      <4>2. at[i] \in Nat BY <2>3
      <4> QED BY <4>1, <4>2
    <3> QED BY <3>1
  <2>5. x \in [DOMAIN x -> Ids] BY <2>2, <2>3
  <2> QED BY <2>4, <2>5
<1>6. Taken(0, Spread(w))
  <2>1. f[0] = Start(tokens, w) BY <1>0, <1>4
  <2>2. Start(tokens, w).parts = w BY DEF Start
  <2>3. Encoding(f[0], w) BY <2>1, StartSound
  <2>4. f[0].parts = w BY <2>1, <2>2
  <2>5. Len(f[0].parts) = m - 0 BY <1>0, <2>4
  <2> DEFINE z == [i \in 1 .. Len(w) |-> i]
  <2>6. Matches(w, w, Spread(w), z) BY MatchesFirst
  <2> HIDE DEF z
  <2> QED BY <2>3, <2>4, <2>5, <2>6
<1>7. ASSUME NEW n \in 0 .. m, NEW x, Taken(n, x), NEW y, Turn(x, y)
      PROVE  n + 1 \in 0 .. m /\ Taken(n + 1, y)
  <2> DEFINE e == f[n]
             d == MergeLowest(tokens, e)
  <2>1. Ranked(e) /\ Encoding(e, w) /\ Len(e.parts) = m - n BY <1>7 DEF Encoding
  <2>2. Len(e.parts) \in Nat \ {0} BY <2>1, RankedParts
  <2>3. n + 1 \in 0 .. m BY <1>0, <2>1, <2>2
  <2>4. PICK at : Matches(w, e.parts, x, at) BY <1>7
  <2> HIDE DEF e
  <2>5. (\E to : Matches(w, d.parts, y, to)) /\ Len(d.parts) = Len(e.parts) - 1
    BY <1>7, <2>1, <2>4, EncodeTurn
  <2>6. Encoding(d, w) BY <2>1, MergeLowestSound
  <2>7. f[n + 1] = d BY <1>0, <1>4, <2>3 DEF e
  <2>8. Len(d.parts) = m - (n + 1) BY <1>0, <2>1, <2>5
  <2> HIDE DEF d
  <2> QED BY <2>3, <2>5, <2>6, <2>7, <2>8
<1> HIDE DEF Taken, All
<1>8. Spread(w) \in R
  <2>1. 0 \in 0 .. m BY <1>0
  <2> QED BY <1>5, <1>6, <2>1
<1>9. \A x \in R : \A y : Turn(x, y) => y \in R BY <1>5, <1>7
<1>10. g \in R BY <1>8, <1>9 DEF Leads
<1>11. PICK n \in 0 .. m : Taken(n, g) BY <1>10
<1>12. PICK at : Matches(w, f[n].parts, g, at) BY <1>11 DEF Taken
<1>13. MergeLowest(tokens, f[n]) = f[n]
  <2>1. Ranked(f[n]) BY <1>11 DEF Taken, Encoding
  <2> QED BY <1>12, <2>1, EncodeDone
<1> DEFINE bad == {k \in n .. m : f[k] # f[n]}
<1>14. bad = {}
  <2>1. SUFFICES ASSUME bad # {} PROVE FALSE OBVIOUS
  <2>2. bad \subseteq Nat BY <1>0
  <2>3. PICK k \in bad : \A j \in bad : k <= j BY <2>1, <2>2, LeastElement
  <2>4. k # n /\ k \in n .. m /\ k \in 0 .. m /\ k # 0 BY <1>0, <2>3
  <2>5. k - 1 \in n .. m /\ k - 1 \notin bad BY <1>0, <2>2, <2>3, <2>4
  <2>6. f[k - 1] = f[n] BY <2>5
  <2>7. f[k] = MergeLowest(tokens, f[k - 1]) BY <1>4, <2>4
  <2> QED BY <1>13, <2>3, <2>6, <2>7
<1>15. f[m] = f[n]
  <2>1. m \in n .. m BY <1>0
  <2> QED BY <1>14, <2>1
<1> QED BY <1>3, <1>12, <1>15

----------------------------------------------------------------------------
(* The end of training.                                                    *)

\* In one word there is nothing to merge that is not in all.
LEMMA InMergeable ==
  ASSUME NEW f, NEW w, NEW n, Mergeable(In(f, w), n) PROVE Mergeable(f, n)
<1>1. \A m \in DOMAIN In(f, w) : m \in DOMAIN f /\ In(f, w)[m] = f[m] BY DEF In
<1>2. n \in DOMAIN In(f, w) /\ Follower(In(f, w), n) \in DOMAIN In(f, w) BY DEF Mergeable
<1>3. Follower(In(f, w), n) = Follower(f, n) BY <1>1, <1>2 DEF Follower
<1> QED BY <1>1, <1>2, <1>3 DEF Mergeable

\* No two neighbours have a token merged of them ...
LEMMA SettledNone ==
  ASSUME Words, Vocabulary, Chained, Settled, NEW n PROVE ~ Mergeable(Syms, n)
<1> SUFFICES ASSUME Mergeable(Syms, n) PROVE FALSE OBVIOUS
<1> DEFINE m == Shifted(n, Size(nodes[n].sym))
<1>1. DOMAIN Syms = DOMAIN nodes /\ \A o \in DOMAIN nodes : Syms[o] = nodes[o].sym BY DEF Syms
<1>2. /\ n \in DOMAIN nodes /\ m \in DOMAIN nodes
      /\ WithParts(tokens, nodes[n].sym, nodes[m].sym) # {}
  BY <1>1 DEF Mergeable, Follower
<1>3. m[1] = n[1] /\ m[2] = n[2] + Size(nodes[n].sym) BY DEF Shifted
<1>4. m[2] \in 1 .. Len(m[1]) /\ Len(m[1]) \in Nat BY <1>2, NodeParts
<1> HIDE DEF m
<1>5. n[2] + Size(nodes[n].sym) # Len(n[1]) + 1 BY <1>3, <1>4
<1>6. nodes[n].next = m /\ nodes[n].next # NoNode BY <1>2, <1>5, NextAt DEF m
<1>7. WithParts(tokens, nodes[n].sym, nodes[nodes[n].next].sym) = {} BY <1>2, <1>6, NotKnown
<1> QED BY <1>2, <1>6, <1>7

\* ... and a word that is a token has come to it.
LEMMA WholeWord ==
  ASSUME Words, Vocabulary, Chained, Settled, NEW w \in DOMAIN wordMap,
         NEW id \in WithBytes(tokens, w)
  PROVE  Segmentation(w) = << id >>
<1> DEFINE n == <<w, 1>>
           f == In(Syms, w)
           p == << id >>
           z == [i \in 1 .. 1 |-> 1]
           l == Len(w)
<1>1. id \in Ids /\ tokens[id].bytes = w /\ Size(id) = l BY DEF WithBytes, Ids, Size
<1>2. l \in Nat \ {0} BY <1>1, SizeIs
<1>3. n \in DOMAIN nodes /\ n[1] = w /\ n[2] = 1 BY DEF Chained
<1>4. DOMAIN Syms = DOMAIN nodes /\ \A o \in DOMAIN nodes : Syms[o] = nodes[o].sym BY DEF Syms
<1>5. Syms[n] = id
  <2>1. Reads(n, id)
    <3>1. n[2] + Len(tokens[id].bytes) <= Len(n[1]) + 1 BY <1>1, <1>2, <1>3
    <3>2. \A j \in 1 .. Len(tokens[id].bytes) : 1 + j - 1 = j BY <1>1, <1>2
    <3>3. \A j \in 1 .. Len(tokens[id].bytes) : n[1][n[2] + j - 1] = tokens[id].bytes[j]
      BY <1>1, <1>3, <3>2
    <3> QED BY <3>1, <3>3 DEF Reads
  <2>2. EndsAt(Syms, n, Len(tokens[id].bytes)) BY <1>1, <1>2, <1>3 DEF EndsAt
  <2> QED BY <1>1, <1>3, <1>4, <2>1, <2>2 DEF Settled, Whole
<1>6. DOMAIN f = {n} /\ f[n] = id /\ f = [o \in DOMAIN f |-> f[o]]
  <2>1. f = [o \in {m \in DOMAIN nodes : m[1] = w} |-> Syms[o]] BY <1>4 DEF In
  <2>2. ASSUME NEW m \in DOMAIN nodes, m[1] = w PROVE m = n
    <3>1. m = <<w, m[2]>> /\ m[2] \in 1 .. l BY <2>2, NodeParts
    <3>2. \A k \in 1 .. Size(id) - 1 : <<n[1], n[2] + k>> \notin DOMAIN nodes
      BY <1>3, <1>4, <1>5, SymsChain DEF Chain
    <3>3. SUFFICES ASSUME m[2] # 1 PROVE FALSE BY <3>1
    <3>4. m[2] - 1 \in 1 .. Size(id) - 1 /\ 1 + (m[2] - 1) = m[2] BY <1>1, <1>2, <3>1, <3>3
    <3> QED BY <1>3, <2>2, <3>1, <3>2, <3>4
  <2>3. {m \in DOMAIN nodes : m[1] = w} = {n} BY <1>3, <2>2
  <2> QED BY <1>5, <2>1, <2>3
<1>7. /\ p \in Seq(Ids) /\ p # << >> /\ Len(p) = 1 /\ p[1] = id
      /\ z \in [1 .. 1 -> Nat] /\ z[1] = 1
  BY <1>1
<1>8. 1 .. 1 = {1} /\ 1 .. 1 - 1 = {} OBVIOUS
<1> HIDE DEF p, z, f, n
<1>9. Growing(z, 1) BY <1>8 DEF Growing
<1>10. DOMAIN f = {<<w, z[i]>> : i \in 1 .. 1} /\ f[<<w, z[1]>>] = p[1]
  BY <1>6, <1>7, <1>8 DEF n
<1>11. Matches(w, p, f, z) BY <1>6, <1>7, <1>8, <1>9, <1>10 DEF Matches
<1>12. PICK at : Matches(w, Segmentation(w), f, at) BY SegmentationMatches DEF f
<1>13. Segmentation(w) = p BY <1>11, <1>12, MatchesUnique
<1> QED BY <1>13 DEF p

\* So a word is encoded as training left it.
LEMMA EncodesWord ==
  ASSUME Words, Vocabulary, Chained, Settled, NEW w \in DOMAIN wordMap,
         Leads(Spread(w), In(Syms, w))
  PROVE  Encode(tokens, w) = Segmentation(w)
<1>1. CASE WithBytes(tokens, w) = {}
  <2>1. Encode(tokens, w) = MergedParts(tokens, w) BY <1>1 DEF Encode
  <2>2. w \in Seq(Byte) \ {<< >>} BY DEF Words, Found
  <2>3. \A n : ~ Mergeable(In(Syms, w), n) BY SettledNone, InMergeable
  <2>4. PICK a : Matches(w, MergedParts(tokens, w), In(Syms, w), a) BY <2>2, <2>3, EncodeFollows
  <2>5. PICK b : Matches(w, Segmentation(w), In(Syms, w), b) BY SegmentationMatches
  <2>6. MergedParts(tokens, w) = Segmentation(w) BY <2>4, <2>5, MatchesUnique
  <2> QED BY <2>1, <2>6
<1>2. CASE WithBytes(tokens, w) # {}
  <2> DEFINE id == CHOOSE id \in WithBytes(tokens, w) : TRUE
  <2>1. Encode(tokens, w) = << id >> BY <1>2 DEF Encode
  <2>2. id \in WithBytes(tokens, w) BY <1>2
  <2> HIDE DEF id
  <2>3. Segmentation(w) = << id >> BY <2>2, WholeWord
  <2> QED BY <2>1, <2>3
<1> QED BY <1>1, <1>2

----------------------------------------------------------------------------
(* Every step keeps it.                                                    *)

\* It is about the words, the tokens and their segmentation.
LEMMA LedSame ==
  ASSUME UNCHANGED <<wordMap, tokens>>
  PROVE  /\ TwinFree' <=> TwinFree
         /\ Syms' = Syms => (Led' <=> Led)
         /\ Unfolded' = Unfolded => (LedUnfolded' <=> LedUnfolded)
<1>1. Ids' = Ids BY DEF Ids
<1>2. \A f, n : Follower(f, n)' = Follower(f, n) BY DEF Follower, Shifted, Size
<1>3. \A f, n : (Mergeable(f, n)' <=> Mergeable(f, n)) /\ Target(f, n)' = Target(f, n)
  BY <1>2 DEF Mergeable, Target
<1>4. \A f, n : FirstMerge(f, n)' <=> FirstMerge(f, n) BY <1>3 DEF FirstMerge
<1>5. \A f, n : MergedAt(f, n)' = MergedAt(f, n) BY <1>2, <1>3 DEF MergedAt
<1>6. \A f, g : Turn(f, g)' <=> Turn(f, g) BY <1>1, <1>4, <1>5 DEF Turn
<1>7. \A f, g : Leads(f, g)' <=> Leads(f, g) BY <1>6 DEF Leads
<1>8. Syms' = Syms => (Led' <=> Led) BY <1>7 DEF Led
<1>9. Unfolded' = Unfolded => (LedUnfolded' <=> LedUnfolded) BY <1>7 DEF LedUnfolded
<1>10. TwinFree' <=> TwinFree BY <1>1 DEF TwinFree
<1> QED BY <1>8, <1>9, <1>10

\* Words begin as their bytes.
LEMMA FinishLed == ASSUME TrainerInv, Finish PROVE Led'
<1>1. wordMap' = wordMap /\ nodes' = Linked(DOMAIN wordMap) /\ Words
  BY DEF Finish, TrainerInv
<1>2. /\ DOMAIN nodes' = Position
      /\ \A w \in DOMAIN wordMap : \A i \in DOMAIN w :
           nodes'[At(w, i)] = [sym  |-> w[i],
                               prev |-> IF i = 1 THEN NoNode ELSE At(w, i - 1),
                               next |-> IF i = Len(w) THEN NoNode ELSE At(w, i + 1)]
  BY <1>1, LinkedIs
<1>3. \A w \in DOMAIN wordMap : \A i \in DOMAIN w : Syms'[<<w, i>>] = w[i]
  <2> TAKE w \in DOMAIN wordMap
  <2> TAKE i \in DOMAIN w
  <2> DEFINE b == IF i = 1 THEN NoNode ELSE At(w, i - 1)
             e == IF i = Len(w) THEN NoNode ELSE At(w, i + 1)
  <2>1. nodes'[At(w, i)] = [sym |-> w[i], prev |-> b, next |-> e] BY <1>2
  <2> HIDE DEF b, e
  <2>2. nodes'[At(w, i)].sym = w[i] BY <2>1
  <2>3. At(w, i) \in Position BY PositionIs DEF At, Position
  <2> QED BY <1>2, <2>2, <2>3 DEF Syms, At
<1>4. DOMAIN Syms' = Position BY <1>2 DEF Syms
<1>5. ASSUME NEW w \in DOMAIN wordMap PROVE In(Syms, w)' = Spread(w)
  <2> DEFINE D == {m \in DOMAIN Syms' : m[1] = w}
             E == {<<w, i>> : i \in DOMAIN w}
  <2>1. ASSUME NEW m PROVE m \in D <=> m \in E
    <3>1. ASSUME m \in D PROVE m \in E
      <4>1. m \in Position /\ m[1] = w BY <1>4, <3>1
      <4>2. m = <<m[1], m[2]>> /\ m[2] \in 1 .. Len(m[1]) BY <1>1, <4>1, AtPosition
      <4>3. DOMAIN w = 1 .. Len(w) BY <1>1, WordParts DEF Words
      <4> QED BY <4>1, <4>2, <4>3
    <3>2. ASSUME m \in E PROVE m \in D
      <4>1. PICK i \in DOMAIN w : m = <<w, i>> BY <3>2
      <4>2. m \in Position BY <4>1, PositionIs DEF Position
      <4> QED BY <1>4, <4>1, <4>2
    <3> QED BY <3>1, <3>2
  <2>2. \A m \in E : Syms'[m] = w[m[2]] BY <1>3
  <2>3. In(Syms, w)' = [n \in D |-> Syms'[n]] BY DEF In
  <2>4. Spread(w) = [n \in E |-> w[n[2]]] BY DEF Spread
  <2> HIDE DEF D, E
  <2> QED BY <2>1, <2>2, <2>3, <2>4
<1>6. ASSUME NEW w \in DOMAIN wordMap PROVE Leads(Spread(w), In(Syms, w))'
  <2>1. \A f : Leads(f, f)' BY DEF Leads
  <2> QED BY <1>5, <2>1
<1> QED BY <1>1, <1>6 DEF Led

\* A new token is in no other, nor is any other in its place ...
LEMMA ChooseOnlyLast == ASSUME Settled, NEW p, NEW n, Begins(p, n) PROVE OnlyLast'
<1> DEFINE left == p[1]
           right == p[2]
           new == Len(tokens) + 1
<1>1. Words /\ Vocabulary /\ Chained BY DEF Begins, Index
<1>2. left \in Ids /\ right \in Ids BY DEF Begins
<1>3. tokens' = Append(tokens, [bytes |-> MergedBytes(tokens, left, right),
                                left |-> left, right |-> right])
  BY DEF Begins
<1>4. job'.left = left /\ job'.right = right /\ job'.merged = new BY DEF Begins
<1> HIDE DEF left, right
<1>5. /\ Ids \subseteq Ids' /\ \A id \in Ids : tokens'[id] = tokens[id]
      /\ Ids' = Ids \cup {new} /\ new \notin Ids
      /\ tokens'[new].left = left /\ tokens'[new].right = right
  BY <1>1, <1>2, <1>3, MoreTokens
<1>6. Len(tokens) \in Nat BY <1>1, LenProperties DEF Vocabulary
<1>7. Unfolded' = Syms BY BeginsUnfolded
<1>8. ASSUME NEW id \in Ids PROVE tokens[id].left # new /\ tokens[id].right # new
  <2>1. CASE id \in Byte
    <3>1. tokens[id] = ByteTokens[id] BY <1>1, <2>1 DEF Vocabulary
    <3>2. ByteTokens[id] = [bytes |-> <<id>>, left |-> NoPart, right |-> NoPart]
      BY <2>1 DEF ByteTokens
    <3> QED BY <1>6, <3>1, <3>2 DEF NoPart
  <2>2. CASE id \notin Byte
    <3>1. tokens[id].left \in Ids /\ tokens[id].right \in Ids BY <1>1, <2>2 DEF Vocabulary
    <3> QED BY <1>5, <3>1
  <2> QED BY <2>1, <2>2
<1> HIDE DEF new
<1>9. \A id \in Ids' : tokens'[id].left # job'.merged /\ tokens'[id].right # job'.merged
  BY <1>2, <1>4, <1>5, <1>8
<1>10. ASSUME NEW m, Mergeable(Unfolded, m)'
       PROVE  Unfolded'[m] = left /\ Unfolded'[Follower(Unfolded, m)'] = right
  <2> DEFINE o == Follower(Syms, m)
  <2>1. DOMAIN Syms = DOMAIN nodes /\ \A k \in DOMAIN nodes : Syms[k] \in Ids
    BY <1>1, NodeParts DEF Syms, Node
  <2>2. m \in DOMAIN Syms BY <1>7, <1>10 DEF Mergeable
  <2>3. Follower(Unfolded, m)' = o
    <3>1. Size(Syms[m])' = Len(tokens'[Syms[m]'].bytes) BY DEF Size
    <3>2. Syms[m] \in Ids BY <2>1, <2>2
    <3>3. Follower(Unfolded, m)' = <<m[1], m[2] + Len(tokens'[Unfolded'[m]].bytes)>>
      BY DEF Follower, Shifted, Size
    <3> QED BY <1>5, <1>7, <3>2, <3>3 DEF Follower, Shifted, Size
  <2>4. o \in DOMAIN Syms /\ WithParts(tokens', Syms[m], Syms[o]) # {}
    BY <1>7, <1>10, <2>3 DEF Mergeable
  <2>5. ~ Mergeable(Syms, m) BY <1>1, SettledNone
  <2>6. WithParts(tokens, Syms[m], Syms[o]) = {} BY <2>2, <2>4, <2>5 DEF Mergeable
  <2>7. PICK id \in Ids' : tokens'[id].left = Syms[m] /\ tokens'[id].right = Syms[o]
    BY <2>4 DEF WithParts, Ids
  <2>8. id \notin Ids
    <3>1. SUFFICES ASSUME id \in Ids PROVE FALSE OBVIOUS
    <3>2. id \in WithParts(tokens, Syms[m], Syms[o]) BY <1>5, <2>7, <3>1 DEF WithParts, Ids
    <3> QED BY <2>6, <3>2
  <2>9. id = new BY <1>5, <2>8
  <2> HIDE DEF o
  <2> QED BY <1>5, <1>7, <2>3, <2>7, <2>9
<1> QED BY <1>4, <1>9, <1>10 DEF OnlyLast

\* ... and it changes nothing of how the words got where they are.
LEMMA ChooseLed ==
  ASSUME NEW p, NEW n, Begins(p, n)
  PROVE  (TwinFree' => TwinFree) /\ (Led => LedUnfolded')
<1> DEFINE left == p[1]
           right == p[2]
<1>1. Words /\ Vocabulary /\ Chained BY DEF Begins, Index
<1>2. left \in Ids /\ right \in Ids /\ WithParts(tokens, left, right) = {} /\ wordMap' = wordMap
  BY DEF Begins
<1>3. tokens' = Append(tokens, [bytes |-> MergedBytes(tokens, left, right),
                                left |-> left, right |-> right])
  BY DEF Begins
<1> HIDE DEF left, right
<1>4. Ids \subseteq Ids' /\ \A id \in Ids : tokens'[id] = tokens[id]
  BY <1>1, <1>2, <1>3, MoreTokens
<1>5. Unfolded' = Syms BY BeginsUnfolded
<1>6. TwinFree' => TwinFree BY <1>4 DEF TwinFree
<1>7. \A f, g : Leads(f, g) => Leads(f, g)' BY <1>1, <1>2, <1>3, LeadsStay
<1>8. Led => LedUnfolded' BY <1>2, <1>5, <1>7 DEF Led, LedUnfolded, In
<1> QED BY <1>6, <1>8

\* In the middle of a merge nothing changes that this is about.
LEMMA MergeGoesOn ==
  ASSUME UNCHANGED <<wordMap, tokens>>, Unfolded' = Unfolded,
         job'.left = job.left, job'.right = job.right, job'.merged = job.merged
  PROVE  OnlyLast' <=> OnlyLast
<1>1. \A n : Follower(Unfolded, n)' = Follower(Unfolded, n) BY DEF Follower, Shifted, Size
<1>2. \A n : Mergeable(Unfolded, n)' <=> Mergeable(Unfolded, n) BY <1>1 DEF Mergeable
<1>3. Ids' = Ids BY DEF Ids
<1> QED BY <1>1, <1>2, <1>3 DEF OnlyLast

LEMMA JoinGoesOn ==
  ASSUME TrainerInv, Join
  PROVE  (OnlyLast' <=> OnlyLast) /\ UNCHANGED <<wordMap, tokens>> /\ Unfolded' = Unfolded
<1>1. MergesAt(Head(job.rest)) BY JoinMergesAt
<1>2. Unfolded' = Unfolded BY <1>1, JoinUnfolded
<1>3. /\ UNCHANGED <<wordMap, tokens>>
      /\ job'.left = job.left /\ job'.right = job.right /\ job'.merged = job.merged
  BY <1>1 DEF MergesAt
<1> QED BY <1>2, <1>3, MergeGoesOn

LEMMA SkipGoesOn ==
  ASSUME TrainerInv, Skip
  PROVE  (OnlyLast' <=> OnlyLast) /\ UNCHANGED <<wordMap, tokens>> /\ Unfolded' = Unfolded
<1>1. phase = "merging" /\ job' = [job EXCEPT !.rest = Tail(@)]
      /\ UNCHANGED <<wordMap, tokens, nodes>>
  BY DEF Skip
<1>2. Merging BY <1>1 DEF TrainerInv
<1>3. job'.left = job.left /\ job'.right = job.right /\ job'.merged = job.merged
  BY <1>1, <1>2 DEF Merging
<1>4. Merged' = Merged /\ \A m : Half(m)' = Half(m) BY <1>1, <1>3 DEF Merged, Half
<1>5. Unfolded' = Unfolded BY <1>1, <1>3, <1>4 DEF Unfolded
<1> QED BY <1>1, <1>3, <1>5, MergeGoesOn

\* At the end of a merge the encoder is where the trainer is.
LEMMA EndLed ==
  ASSUME TrainerInv, EndMerge, Settling, OnlyLast, TwinFree, LedUnfolded PROVE Led
<1>1. phase = "merging" /\ job.rest = << >> BY DEF EndMerge
<1>2. Words /\ Index /\ Merging BY <1>1 DEF TrainerInv
<1>3. Vocabulary /\ Chained BY <1>2 DEF Index
<1>4. /\ job.merged = Len(tokens) /\ WithParts(tokens, job.left, job.right) = {job.merged}
      /\ Chain(Unfolded) /\ Uniform(Unfolded)
  BY DEF Settling
<1>5. NewToken BY <1>2, <1>3, MergedIsNew DEF NewToken, Merging
<1>6. Unfolding BY <1>2, <1>3, <1>4, <1>5 DEF Unfolding
<1>7. NoneLeft
  <2>1. Waiting = {} BY <1>1 DEF Waiting, ToSet
  <2> QED BY <1>2, <1>3, <2>1, WaitingIs DEF NoneLeft
<1>8. job.left # job.right
  <2>1. job.merged \in WithParts(tokens, job.left, job.right) BY <1>4
  <2>2. /\ job.merged \in Ids /\ tokens[job.merged].left = job.left
        /\ tokens[job.merged].right = job.right
    BY <2>1 DEF WithParts, Ids
  <2>3. job.merged \notin Byte
    <3>1. SUFFICES ASSUME job.merged \in Byte PROVE FALSE OBVIOUS
    <3>2. tokens[job.merged] = ByteTokens[job.merged] BY <1>3, <3>1 DEF Vocabulary
    <3>3. tokens[job.merged].left = NoPart BY <3>1, <3>2 DEF ByteTokens
    <3>4. job.left \in 1 .. Len(tokens)
      BY <1>3, <1>5, LenProperties DEF NewToken, Vocabulary, Ids
    <3> QED BY <2>2, <3>3, <3>4 DEF NoPart
  <2> QED BY <2>2, <2>3 DEF TwinFree
<1>9. Ending BY <1>4, <1>6, <1>7, <1>8 DEF Ending
<1> QED BY <1>9, EndLeads DEF Led, LedUnfolded

\* Nothing changes.
LEMMA EncodeSame ==
  ASSUME EncodeInv, UNCHANGED <<phase, wordMap, tokens, nodes, pairs, job>> PROVE EncodeInv'
<1>1. Syms' = Syms /\ Merged' = Merged /\ \A m : Half(m)' = Half(m) BY DEF Syms, Merged, Half
<1>2. Unfolded' = Unfolded BY <1>1 DEF Unfolded
<1>3. (Chained' <=> Chained) /\ (Settled' <=> Settled) BY SameNodes, SameMerge
<1>4. OnlyLast' <=> OnlyLast BY <1>2, MergeGoesOn
<1>5. (TwinFree' <=> TwinFree) /\ (Led' <=> Led) /\ (LedUnfolded' <=> LedUnfolded)
  BY <1>1, <1>2, LedSame
<1> QED BY <1>3, <1>4, <1>5 DEF EncodeInv

\* A step keeps where the encoder would come to.
LEMMA EncodeStep ==
  ASSUME TrainerInv, MergeInv, EncodeInv, [Next]_vars PROVE EncodeInv'
<1>1. ASSUME NEW w \in Pieces, AddPiece(w) PROVE EncodeInv' BY <1>1 DEF AddPiece, EncodeInv
<1>2. CASE Finish
  <2>1. phase' = "choosing" BY <1>2 DEF Finish
  <2> QED BY <1>2, <2>1, FinishLed DEF EncodeInv
<1>3. CASE PopStale
  <2>1. UNCHANGED <<phase, wordMap, tokens, nodes, pairs, job>> BY <1>3 DEF PopStale
  <2> QED BY <2>1, EncodeSame
<1>4. CASE Choose
  <2>1. phase = "choosing" /\ phase' = "merging" BY <1>4 DEF Choose
  <2>2. Settled BY <2>1 DEF MergeInv
  <2>3. PICK p, n : Begins(p, n) BY <1>4, <2>2, ChooseBegins
  <2>4. OnlyLast' BY <2>2, <2>3, ChooseOnlyLast
  <2>5. (TwinFree' => TwinFree) /\ (Led => LedUnfolded') BY <2>3, ChooseLed
  <2> QED BY <2>1, <2>4, <2>5 DEF EncodeInv
<1>5. CASE Stop
  <2>1. /\ phase = "choosing" /\ phase' = "trained"
        /\ UNCHANGED <<wordMap, tokens, nodes, pairs, heap, job>>
    BY <1>5 DEF Stop
  <2>2. Chained /\ Settled BY <2>1 DEF TrainerInv, Index, MergeInv
  <2>3. Chained' /\ Settled' BY <2>1, <2>2, SameNodes, SameMerge
  <2>4. Syms' = Syms BY <2>1 DEF Syms
  <2>5. (TwinFree' <=> TwinFree) /\ (Led' <=> Led) BY <2>1, <2>4, LedSame
  <2> QED BY <2>1, <2>3, <2>5 DEF EncodeInv
<1>6. CASE Skip
  <2>1. phase = "merging" /\ phase' = "merging" BY <1>6 DEF Skip
  <2>2. (OnlyLast' <=> OnlyLast) /\ UNCHANGED <<wordMap, tokens>> /\ Unfolded' = Unfolded
    BY <1>6, SkipGoesOn
  <2>3. (TwinFree' <=> TwinFree) /\ (LedUnfolded' <=> LedUnfolded) BY <2>2, LedSame
  <2> QED BY <2>1, <2>2, <2>3 DEF EncodeInv
<1>7. CASE Join
  <2>1. phase = "merging" /\ phase' = "merging" BY <1>7 DEF Join
  <2>2. (OnlyLast' <=> OnlyLast) /\ UNCHANGED <<wordMap, tokens>> /\ Unfolded' = Unfolded
    BY <1>7, JoinGoesOn
  <2>3. (TwinFree' <=> TwinFree) /\ (LedUnfolded' <=> LedUnfolded) BY <2>2, LedSame
  <2> QED BY <2>1, <2>2, <2>3 DEF EncodeInv
<1>8. CASE EndMerge
  <2>1. phase = "merging" /\ phase' = "choosing" /\ UNCHANGED <<wordMap, tokens, nodes>>
    BY <1>8 DEF EndMerge
  <2>2. Settling BY <2>1 DEF MergeInv
  <2>3. TwinFree => Led BY <1>8, <2>1, <2>2, EndLed DEF EncodeInv
  <2>4. Syms' = Syms BY <2>1 DEF Syms
  <2>5. (TwinFree' <=> TwinFree) /\ (Led' <=> Led) BY <2>1, <2>4, LedSame
  <2> QED BY <2>1, <2>3, <2>5 DEF EncodeInv
<1>9. CASE Fail BY <1>9 DEF Fail, EncodeInv
<1>10. CASE UNCHANGED vars
  <2>1. UNCHANGED <<phase, wordMap, tokens, nodes, pairs, job>> BY <1>10 DEF vars
  <2> QED BY <2>1, EncodeSame
<1> QED BY <1>1, <1>2, <1>3, <1>4, <1>5, <1>6, <1>7, <1>8, <1>9, <1>10 DEF Next

\* Where training has brought a word, turns of the encoder lead from its bytes.
THEOREM EncoderFollowsTrainer == Spec => []EncodeInv
<1>1. Init => EncodeInv BY DEF Init, EncodeInv
<1>2. TrainerInv /\ MergeInv /\ EncodeInv /\ [Next]_vars => EncodeInv' BY EncodeStep
<1> QED BY <1>1, <1>2, TrainerInvariant, MergesInOrder, PTL DEF Spec

\* A trained tokenizer decodes what it encodes to the same text, and it encodes
\* the words of its training as training left them, unless there is a token of
\* two like halves.
THEOREM EncodesAsTrained == Spec => []EncodeFaithful
<1>1. TrainerInv /\ EncodeInv /\ RoundTrip => EncodeFaithful
  <2> SUFFICES ASSUME TrainerInv, EncodeInv, phase = "trained", NEW w \in DOMAIN wordMap,
                      \A id \in DOMAIN tokens \ Byte : tokens[id].left # tokens[id].right
               PROVE  Encode(tokens, w) = Segmentation(w)
    BY DEF EncodeFaithful
  <2>1. Words /\ Vocabulary BY DEF TrainerInv
  <2>2. Chained /\ Settled /\ (TwinFree => Led) BY DEF EncodeInv
  <2>3. TwinFree BY DEF TwinFree, Ids
  <2> QED BY <2>1, <2>2, <2>3, EncodesWord DEF Led
<1> QED BY <1>1, TrainerInvariant, EncoderFollowsTrainer, AlwaysRoundTrip, PTL

=============================================================================
