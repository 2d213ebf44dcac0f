------------------------ MODULE MCExtractionRefinement ------------------------
(* MCExtraction's instances, for ExtractionRefinement.                     *)
EXTENDS ExtractionRefinement, MCExtraction
===============================================================================
