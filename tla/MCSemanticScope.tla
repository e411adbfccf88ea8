--------------------------- MODULE MCSemanticScope ---------------------------
(***************************************************************************)
(* Small programs for SemanticScope.  Two names are enough for an outer     *)
(* symbol, an inner one and a clash between them.                           *)
(***************************************************************************)
EXTENDS SemanticScope
=============================================================================
