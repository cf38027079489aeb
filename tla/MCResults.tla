----------------------------- MODULE MCResults ------------------------------
(***************************************************************************)
(* Results of up to three rows: enough for two results with the same set   *)
(* of rows that differ in their number, and for two chunks of a cursor.    *)
(* The digests are six bits wide, so the sums overflow, and no two results *)
(* of this size collide.                                                   *)
(***************************************************************************)
EXTENDS Results, Bitwise

Float(n) == [type |-> "float", n |-> n]
Null == [type |-> "null", n |-> 0]
NaN == [type |-> "nan", n |-> 0]

MCXor(a, b) == a ^^ b

\* The digests of the rows the values below normalize to.
MCDigest(text) ==
    CASE text.type = "null" -> 61
      [] text.n = 0 /\ ~text.minus -> 47
      [] text.n = 0 /\ text.minus -> 14
      [] text.minus -> 22
      [] OTHER -> 35

\* NULL, NaN, zero with and without noise, and a millionth on either side with
\* noise.
MCValue == {Null, NaN, Float(0), Float(4), Float(11), Float(-11)}
MCCaps == 0..4

\* Noise on both sides of zero.
NoisyZeros == {Float(-4), Float(4)}

\* engine/verifier.py:5: "two result sets with the same semantic content hash to
\* the same digest regardless of row order, floating-point noise, or None vs
\* SQL NULL representation".  A float a little below zero becomes -0.0, whose
\* repr is not that of 0.0.
ClaimNoiseIgnored ==
    pc = "done" /\ side = "agent" /\ SameContent(agent, truth) => verdict
=============================================================================
