------------------------ MODULE MCAccountingBatches ------------------------
(***************************************************************************)
(* Two processes close the last day of a month, with one failure: a batch  *)
(* that has failed is then retried without any.                            *)
(***************************************************************************)
EXTENDS AccountingBatches

MCDue == <<"eod", "eom">>

=============================================================================
