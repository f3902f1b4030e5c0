-------------------------- MODULE MCInvoicePipeline --------------------------
(* Instances of InvoicePipeline for TLC.  The lines without an SKU of their *)
(* own are interchangeable, and so are the workers.                         *)
EXTENDS InvoicePipeline, TLC

PlainItems == Items \ WithSku
Symmetry == Permutations(PlainItems)
=============================================================================
