------------------------------ MODULE MCKafka ------------------------------
(* Four messages, one of which cannot be marshalled; all batchings.        *)
EXTENDS Kafka

CONSTANTS e1, e2, e3, e4

MCEvents == {e1, e2, e3, e4}
MCUnmarshalable == {e4}
=============================================================================
