---------------------------- MODULE MCKeyedCache ----------------------------
(* Small instances of KeyedCache for TLC. *)
EXTENDS KeyedCache, TLC

ReaderSymmetry == Permutations(Readers)

=============================================================================
