------------------------------ MODULE ComboGraphMC ------------------------------
(* ComboGraph on the two halves of a LLaMA layer.                          *)
EXTENDS ComboGraph, LayerGraphs

Layer == [attention |-> Attention, feed_forward |-> FeedForward]
AttentionOnly == [attention |-> Attention]
AllPlans == {"cpu", "igpu", "split", "sliver"}

===============================================================================
