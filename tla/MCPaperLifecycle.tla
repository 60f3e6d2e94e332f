------------------------- MODULE MCPaperLifecycle -------------------------
(***************************************************************************)
(* Small instances of PaperLifecycle for TLC.                              *)
(***************************************************************************)
EXTENDS PaperLifecycle, TLC

\* Identities are interchangeable: no action or property orders them.
SignalSymmetry == Permutations(Signals)

=============================================================================
