------------------------ MODULE MCElasticsearchBulk ------------------------
(* Batches of two bytes: e1 and e2 fill one, e3 exceeds it on its own, e4   *)
(* cannot be marshalled.                                                   *)
EXTENDS ElasticsearchBulk

CONSTANTS e1, e2, e3, e4

MCEvents == {e1, e2, e3, e4}
MCUnmarshalable == {e4}
MCSize == [e \in MCEvents |-> IF e = e3 THEN 3 ELSE 1]
=============================================================================
