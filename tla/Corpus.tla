------------------------------- MODULE Corpus -------------------------------
(***************************************************************************)
(* The collection a book may be grounded in: files turned into numbered    *)
(* chunks (retrieval/ingest.py), rows that replace the whole table or      *)
(* leave it alone, and one search over them that fuses two rankings        *)
(* (retrieval/pg_store.py).                                                *)
(*                                                                         *)
(*   file   [stem, source, attributed, pieces]; a piece is a text or Blank *)
(*   rows   a function from chunk ids to [text, source, kind]              *)
(*                                                                         *)
(* A stem is the place of a file's name in the alphabet, from 1.  Ids then *)
(* compare as the database's strings do, for files of fewer than ten       *)
(* chunks; in longer ones a tie of two scores may go to the other chunk.   *)
(* The source is the front matter's, which says nothing of the stem and    *)
(* may be edited between two ingestions.                                   *)
(***************************************************************************)
LOCAL INSTANCE Naturals
LOCAL INSTANCE Sequences
LOCAL INSTANCE FiniteSets

CONSTANTS
  Blank,       \* a piece of a file with nothing in it
  RRF_K,       \* the constant of reciprocal rank fusion
  Candidates,  \* rows each half of a search may nominate
  TopK         \* rows a search returns

ASSUME RrfAssumption == RRF_K \in Nat
ASSUME SearchAssumption == Candidates \in Nat \ {0} /\ TopK \in Nat \ {0}

-----------------------------------------------------------------------------
(* Files and rows.                                                         *)

\* Blank pieces are dropped before anything is numbered.
Texts(file) ==
  LET upTo[i \in 0..Len(file.pieces)] ==
        IF i = 0 THEN <<>>
        ELSE IF file.pieces[i] = Blank THEN upTo[i - 1]
             ELSE Append(upTo[i - 1], file.pieces[i]) IN
  upTo[Len(file.pieces)]

\* CorpusError: no attribution, no chunks, or two files of one name.
Malformed(files) ==
  \/ \E file \in files : ~file.attributed \/ Texts(file) = <<>>
  \/ \E f, g \in files : f # g /\ f.stem = g.stem

\* chunk_id_for: the file's stem and a position counted from one.
ChunkIds(file) == {<<file.stem, n>> : n \in DOMAIN Texts(file)}

LoadCorpus(files) ==
  [id \in UNION {ChunkIds(file) : file \in files} |->
     LET file == CHOOSE f \in files : f.stem = id[1] IN
     [text |-> Texts(file)[id[2]], source |-> file.source, kind |-> "fact"]]

-----------------------------------------------------------------------------
(* Search.                                                                 *)

Ranked(ranking) == {ranking[i] : i \in DOMAIN ranking}

RankIn(ranking, id) == CHOOSE i \in DOMAIN ranking : ranking[i] = id

\* A mutant: the halves are joined, and a rank that is not there counts as zero.
Vote_AbsentIsFirst(ranking, id) ==
  [num |-> 1, den |-> RRF_K + IF id \in Ranked(ranking) THEN RankIn(ranking, id) ELSE 0]

\* What a ranking gives a chunk: 1 / (RRF_K + rank), as a fraction.
Vote(ranking, id) ==
  IF id \in Ranked(ranking) THEN [num |-> 1, den |-> RRF_K + RankIn(ranking, id)]
                            ELSE [num |-> 0, den |-> 1]

Plus(p, q) == [num |-> p.num * q.den + q.num * p.den, den |-> p.den * q.den]

Score(vec, kw, id) == Plus(Vote(vec, id), Vote(kw, id))

\* ORDER BY rrf DESC, chunk_id
Ahead(vec, kw, c, d) ==
  LET s == Score(vec, kw, c)  t == Score(vec, kw, d) IN
  \/ s.num * t.den > t.num * s.den
  \/ /\ s.num * t.den = t.num * s.den
     /\ c[1] < d[1] \/ (c[1] = d[1] /\ c[2] < d[2])

AtMostFirst(n, ranking) == SubSeq(ranking, 1, IF n < Len(ranking) THEN n ELSE Len(ranking))

\* The ids a search returns, from the row numbers of its two halves.
Fused(byMeaning, byWords) ==
  LET vec == AtMostFirst(Candidates, byMeaning)
      kw == AtMostFirst(Candidates, byWords)
      pool == Ranked(vec) \cup Ranked(kw)
      place(c) == 1 + Cardinality({d \in pool : Ahead(vec, kw, d, c)}) IN
  AtMostFirst(TopK, [i \in 1..Cardinality(pool) |-> CHOOSE c \in pool : place(c) = i])

\* Every way to put some members of a finite set in order.
Rankings(ids) ==
  UNION {{r \in [1..n -> ids] : \A i, j \in 1..n : r[i] = r[j] => i = j} :
           n \in 0..Cardinality(ids)}
=============================================================================
