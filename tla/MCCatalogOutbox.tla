--------------------------- MODULE MCCatalogOutbox ---------------------------
(* Three events and batches of two: the third is only reached when one of  *)
(* the others is answered.  One crash, one damaged file.                   *)
EXTENDS CatalogOutbox

CONSTANTS d1, d2

MCIds == 1..3
=============================================================================
