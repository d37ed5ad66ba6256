------------------------------ MODULE MCQtClient -----------------------------
(* The bounds of QtClient are numbers, given in MCQtClient.cfg.            *)
EXTENDS QtClient
=============================================================================
