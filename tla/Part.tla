-------------------------------- MODULE Part --------------------------------
(***************************************************************************)
(* What the behaviours of Parts and of Data have in common: the part of    *)
(* the library that one is about, and the variables whose name belongs to  *)
(* a part of each.                                                         *)
(***************************************************************************)
VARIABLES
  part,
  kind,      \* of a diagnostic (Diagnostics), or of a builder (Statements)
  at,        \* where a call is (Diagnostics), or the reader of a chat (ChatStream)
  frames     \* those of a query (QueryExecution), or of a chat (ChatStream)
=============================================================================
