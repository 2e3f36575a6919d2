--------------------------- MODULE MCSecurityLake ---------------------------
(* Four events in batches of two; with segments of one record the writers  *)
(* can lap the reader.  e2 cannot be put in a parquet file.                *)
EXTENDS SecurityLake

CONSTANTS e1, e2, e3, e4

MCEvents == {e1, e2, e3, e4}
MCUnparsable == {e2}
=============================================================================
