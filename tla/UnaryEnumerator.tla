--------------------------- MODULE UnaryEnumerator ---------------------------
(***************************************************************************)
(* succinct::bit_vector::unary_enumerator, a library class, as the cursors *)
(* of include/ds2i use it: it is at a bit, and reads the ones and the      *)
(* zeros from there on.  The last one that next() returned is behind it    *)
(* although position() is still its bit.                                   *)
(*                                                                         *)
(* ones is the set of the positions of the bits that are 1.                *)
(***************************************************************************)
EXTENDS Integers, FiniteSetsExt

ReaderAt(bit) == [at |-> bit, consumed |-> FALSE]

Ahead(ones, reader) == {b \in ones : b > reader.at \/ (b = reader.at /\ ~reader.consumed)}

\* the k-th smallest of a set, from 0; something beyond it when there is none
Nth(S, k) ==
  IF k < Cardinality(S) THEN CHOOSE b \in S : Cardinality({c \in S : c < b}) = k
  ELSE Max(S \cup {0}) + 1

\* k calls of next()
NextOne(ones, reader, k) ==
  IF k = 0 THEN reader ELSE [at |-> Nth(Ahead(ones, reader), k - 1), consumed |-> TRUE]

\* skip(k): to the one after k more, which is read next
SkipOnes(ones, reader, k) == ReaderAt(Nth(Ahead(ones, reader), k))

\* skip0(k): to the zero after k more.  The one just read counts as a zero.
SkipZeros(ones, reader, k) ==
  LET last  == Max({reader.at} \cup ones) + k + 1
      zeros == (reader.at..last) \ Ahead(ones, reader)
  IN [at |-> Nth(zeros, k), consumed |-> TRUE]
=============================================================================
