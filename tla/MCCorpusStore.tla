---------------------------- MODULE MCCorpusStore ----------------------------
(***************************************************************************)
(* Three runs over an index of two records.                                *)
(***************************************************************************)
EXTENDS CorpusStore

CONSTANTS lemma, proof

MCIndexed == <<lemma, proof>>
=============================================================================
