--------------------------- MODULE MCParserContext ---------------------------
(***************************************************************************)
(* Programs nested deeply enough for a loop in a loop in a method, with a   *)
(* statement between each two.                                             *)
(***************************************************************************)
EXTENDS ParserContext
=============================================================================
