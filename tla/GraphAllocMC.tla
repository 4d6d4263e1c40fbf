----------------------------- MODULE GraphAllocMC -----------------------------
(***************************************************************************)
(* Two of the models the repository names, with one layer (the others are  *)
(* like it), a tiny one with two layers, and every graph of up to          *)
(* MaxTensors tensors of two sizes.  Sizes are in elements.                *)
(***************************************************************************)
EXTENDS GraphAlloc

MCShapes == {Rows(<<7>>), Rows(<<16>>)}

Llama7B == [n_layer |-> 1, n_embd |-> 4096, n_embd_gqa |-> 4096, n_head |-> 32, n_ff |-> 11008,
            n_vocab |-> 32000, n_ctx |-> 512, n_batch |-> 512]
Llama70B == [n_layer |-> 1, n_embd |-> 8192, n_embd_gqa |-> 1024, n_head |-> 64, n_ff |-> 28672,
             n_vocab |-> 32000, n_ctx |-> 4096, n_batch |-> 512]
Tiny == [n_layer |-> 2, n_embd |-> 16, n_embd_gqa |-> 8, n_head |-> 2, n_ff |-> 24,
         n_vocab |-> 8, n_ctx |-> 64, n_batch |-> 8]
MCModels == {Llama7B, Llama70B, Tiny}

(* n_kv is 32 at least, and no smaller than the batch. *)
MCBatches(m) ==
    {b \in [n_tokens : {1, 8, 33, 512}, n_kv : {32, 64, 512, 1000, 4096}] :
        b.n_tokens <= b.n_kv /\ b.n_tokens <= m.n_batch /\ b.n_kv <= m.n_ctx}

===============================================================================
