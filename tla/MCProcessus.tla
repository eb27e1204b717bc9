---------------------------- MODULE MCProcessus ----------------------------
(***************************************************************************)
(* Instances of Processus for TLC.                                         *)
(***************************************************************************)
EXTENDS Processus, TLC

\* The places give the bytes of the units, one unit after the other.
ASSUME EncodageJuste ==
    \A s \in Chaines : Utf8(s) = FlattenSeq([i \in 1..Len(s) |-> Octets[s[i]]])
=============================================================================
