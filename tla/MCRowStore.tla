----------------------------- MODULE MCRowStore -----------------------------
(***************************************************************************)
(* Inputs for model checking RowStore.  Rows 1 and 2 are owned; -1 is the  *)
(* id that is skipped and 0 an id below the range.  With two rows per job  *)
(* there are lookups of one job, of two, of two with a short last one and  *)
(* of three, and three of the inputs share a capacity.                     *)
(***************************************************************************)
EXTENDS RowStore

SmallInputs == {<<1>>, <<2, 0, 1>>, <<1, 2, -1>>, <<2, 1, 1, 2>>, <<1, 0, 2, 1, 2>>}
=============================================================================
