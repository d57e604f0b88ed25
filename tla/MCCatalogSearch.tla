--------------------------- MODULE MCCatalogSearch ---------------------------
(***************************************************************************)
(* An instance of CatalogSearch: three rows and two forms that both match  *)
(* the search, whose pool holds two, so that the third row makes paging    *)
(* run past the pool; and a listing by a filter on one of the forms, which *)
(* a rewritten row may leave and enter. Rows of one form score alike while *)
(* they are equally live.                                                  *)
(***************************************************************************)
EXTENDS CatalogSearch

CONSTANTS wide, tagged, r1, r2, r3, f1, f2

MCInitialRows == <<r1, r2>>

MCInitialForm == r1 :> f1 @@ r2 :> f1 @@ r3 :> f2

MCMatching == wide :> Forms @@ tagged :> {f1}

MCRelevance == wide :> (f1 :> 3 @@ f2 :> 2)

=============================================================================
