----------------------------- MODULE MCSeqLock -----------------------------
(***************************************************************************)
(* SeqLock for TLC.  Two words are enough to tear and three writes let a   *)
(* copy span two of them.  Readers write nothing that anybody else reads,  *)
(* so one reader shows what any number of them can see.                    *)
(***************************************************************************)
EXTENDS SeqLock

CONSTANTS r1, w1, w2
MCReaders == {r1}
MCWords == {w1, w2}
=============================================================================
