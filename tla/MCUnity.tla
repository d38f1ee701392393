------------------------------- MODULE MCUnity ------------------------------
(* Bytes of two bits: numbers of 2, 4, 8 and 16 bits.                      *)
EXTENDS UnityRunner

MCValues == {-32768, -129, -128, -9, -8, -3, -2, -1, 0, 1, 2, 3, 7, 8, 127, 128, 255, 32767}
MCMasks == {0, 1, 128, 255, -32768, -1}

(* The elements where signed and unsigned readings part. *)
MCCells(bytes) == {0, 2 ^ (Width(bytes) - 1) - 1, 2 ^ (Width(bytes) - 1), 2 ^ Width(bytes) - 1}

MCStrings == {NullString, <<>>, <<1>>, <<2>>, <<1, 1>>, <<1, 2>>}
MCFloats == {NaN, Inf(1), Inf(-1)} \union {Float(n) : n \in -MaxFloat .. MaxFloat}
MCFloatCells == {NaN, Inf(1), Float(2), Float(3)}
=============================================================================
