----------------------------- MODULE MCLogService ----------------------------
(* Seventeen leaves in strata of depth two, so that the tree has three strata;
   leaf 3 was queued twice. *)
EXTENDS LogService

MCStrata == <<2, 2, 2>>

MCQueue == <<1, 2, 3, 4, 5, 6, 7, 8, 9, 3, 10, 11, 12, 13, 14, 15, 16>>

MCCuts == {5}

MCLeaves == {3, 16}

MCIndices == {9}

MCInclusionIndices == {0, 5, 11}
=============================================================================
