----------------------------- MODULE MCShipper ------------------------------
(* Small instances of Shipper for TLC: of the lines, one is not an event,  *)
(* and one may be an event that ingest refuses.                            *)
EXTENDS Shipper

NoLine == {}
FirstLine == {1}
SecondLine == {2}
FourthLine == {4}
=============================================================================
