--------------------------- MODULE IndexedEncoding ---------------------------
(***************************************************************************)
(* indexed_sequence, include/ds2i/indexed_sequence.hpp, with hybrid 0      *)
(* (always Elias-Fano), 1 (the smallest of three encodings) and 2 (or a    *)
(* segment, when the caller gives the bits per correction): what write     *)
(* leaves in the bit vector, a record of the type and the data, and the    *)
(* enumerator, a record of m_type and the enumerator of that type.         *)
(* all_ones_sequence, which writes nothing, is part of this module.        *)
(***************************************************************************)
EXTENDS Integers, Sequences

CONSTANTS
  EfLogSampling0, EfLogSampling1, RbLogRank1Sampling, RbLogSampling1,
  LinearScanThreshold

EF == INSTANCE EliasFano
        WITH LogSampling0 <- EfLogSampling0, LogSampling1 <- EfLogSampling1
RB == INSTANCE RankedBitvector
        WITH LogRank1Sampling <- RbLogRank1Sampling, LogSampling1 <- RbLogSampling1
SE == INSTANCE SegmentSequence

TypeBits(h) == IF h < 2 THEN 1 ELSE 2

NoBpc == -1     \* c, when the caller gives no bits per correction

-----------------------------------------------------------------------------
(* all_ones_sequence: element i is i.                                      *)

AllOnesFits(u, size) == u = size

AllOnesAt(p) == [position |-> p, value |-> p]

-----------------------------------------------------------------------------
(* write, and the constructor of the enumerator                            *)

\* On a tie the first encoding tried is kept.  The bit for the type is added
\* to both costs.
BestType(h, u, size) ==
  CASE h # 0 /\ AllOnesFits(u, size) -> "all_ones"
    [] h # 0 /\ ~AllOnesFits(u, size) /\ RB!Bitsize(u, size) < EF!Bitsize(u, size) -> "ranked_bitvector"
    [] OTHER -> "elias_fano"

Write(h, seq, u, c) ==
  LET type == IF h = 2 /\ c # NoBpc THEN "segment" ELSE BestType(h, u, Len(seq))
  IN [type |-> type,
      data |-> CASE type = "elias_fano" -> EF!Written(seq, u)
                 [] type = "ranked_bitvector" -> RB!Written(seq, u)
                 [] type = "all_ones" -> <<>>
                 [] type = "segment" -> SE!Written(seq, u, c)]

\* the bits that write appends, which are bitsize()
Bitsize(h, u, size) ==
  LET type == BestType(h, u, size)
  IN CASE type = "elias_fano" -> EF!Bitsize(u, size) + TypeBits(h)
       [] type = "ranked_bitvector" -> RB!Bitsize(u, size) + TypeBits(h)
       [] type = "all_ones" -> 0

\* The type of an all-ones sequence is not read but computed.
FoundType(h, bv, u, size) ==
  CASE h = 0 -> "elias_fano"
    [] h # 0 /\ AllOnesFits(u, size) -> "all_ones"
    [] OTHER -> bv.type

Enumerator(h, bv, u, size) ==
  LET type == FoundType(h, bv, u, size)
  IN [type |-> type,
      at |-> CASE type = "elias_fano" -> EF!Enumerator(bv.data)
               [] type = "ranked_bitvector" -> RB!Enumerator(bv.data)
               [] type = "all_ones" -> AllOnesAt(size)
               [] type = "segment" -> SE!Enumerator(bv.data)]

-----------------------------------------------------------------------------
(* The methods of the enumerator hand the call to the one of its type.     *)

Move(bv, e, p) ==
  [e EXCEPT !.at = CASE e.type = "elias_fano" -> EF!Move(bv.data, @, p)
                     [] e.type = "ranked_bitvector" -> RB!Move(bv.data, @, p)
                     [] e.type = "all_ones" -> AllOnesAt(p)
                     [] e.type = "segment" -> SE!Move(bv.data, p)]

NextGeq(bv, e, bound) ==
  [e EXCEPT !.at = CASE e.type = "elias_fano" -> EF!NextGeq(bv.data, @, bound)
                     [] e.type = "ranked_bitvector" -> RB!NextGeq(bv.data, @, bound)
                     [] e.type = "all_ones" -> AllOnesAt(bound)
                     [] e.type = "segment" -> SE!NextGeq(bv.data, bound)]

Following(bv, e) ==
  [e EXCEPT !.at = CASE e.type = "elias_fano" -> EF!Following(bv.data, @)
                     [] e.type = "ranked_bitvector" -> RB!Following(bv.data, @)
                     [] e.type = "all_ones" -> AllOnesAt(@.position + 1)
                     [] e.type = "segment" -> SE!Following(bv.data, @)]

PrevValue(bv, e) ==
  CASE e.type = "elias_fano" -> EF!PrevValue(bv.data, e.at)
    [] e.type = "ranked_bitvector" -> RB!PrevValue(bv.data, e.at)
    [] e.type = "all_ones" -> IF e.at.position = 0 THEN 0 ELSE e.at.position - 1
    [] e.type = "segment" -> SE!PrevValue(bv.data, e.at)
=============================================================================
