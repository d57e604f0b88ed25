---------------------------- MODULE MCFederation ----------------------------
(***************************************************************************)
(* An instance of Federation: one resource, announced by a node whose      *)
(* clock is right and by one whose clock is further ahead than the skew    *)
(* allowed, so that its heartbeats are refused until they are old enough.  *)
(***************************************************************************)
EXTENDS Federation, TLC

CONSTANTS n1, n2, a

MCAnnouncedResources == n1 :> <<a>> @@ n2 :> <<a>>
MCAuthorized == {<<n1, a>>, <<n2, a>>}
MCAhead == n1 :> 0 @@ n2 :> 2

=============================================================================
