------------------------------ MODULE MCConsola ------------------------------
(* The instance of ReDistinto with the console and its history.            *)
EXTENDS MCReDistinto, HistoriaConsola
=============================================================================
