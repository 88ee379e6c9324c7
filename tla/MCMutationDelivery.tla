------------------------- MODULE MCMutationDelivery -------------------------
(* MutationDelivery on four batches: the owner and one other consumer.     *)
EXTENDS MutationDelivery
CONSTANTS owner, other
MCThreads == {owner, other}
=============================================================================
