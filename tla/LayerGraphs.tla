------------------------------ MODULE LayerGraphs ------------------------------
(***************************************************************************)
(* The graphs that llama.cpp builds for the two halves of a LLaMA layer,   *)
(* in the order in which ggml_build_forward_expand visits the tensors,     *)
(* with the allocations that ggml-alloc gives them: a view, and an op that *)
(* ggml_op_can_inplace whose parent has no other use, gets the allocation  *)
(* of its parent.  An allocation is named after the tensor it was made     *)
(* for.  Three ops that follow each other in place (scale, add, soft_max)  *)
(* are one node.                                                           *)
(***************************************************************************)

(* A tensor by its srcs and by the allocations that its kernel reads and   *)
(* writes; fresh when ggml-alloc makes an allocation for it.               *)
Op(src, reads, writes, fresh) ==
    [mul_mat |-> FALSE, src |-> src, reads |-> reads, writes |-> writes, fresh |-> fresh]

(* ggml_tallocr_alloc for a new tensor; init_view on the parent in place.   *)
NewOp(src, reads, own) == Op(src, reads, {own}, TRUE)
InPlace(src, reads, parent) == Op(src, reads, {parent}, FALSE)
Nop(src) == Op(src, {}, {}, FALSE)    \* view, reshape, permute, transpose
MM(src, reads, own) == [NewOp(src, reads, own) EXCEPT !.mul_mat = TRUE]

(* One LLaMA layer up to ffn_inp (build_llama, llm_build_kv_store,         *)
(* llm_build_kqv); "inp" is inpL, still used by the residual.              *)
Attention == <<
    NewOp({}, {"inp"}, "norm"),              \*  1 rms_norm
    InPlace({1}, {"norm"}, "norm"),          \*  2 mul
    MM({2}, {"norm"}, "K"),                  \*  3 Kcur
    Nop({3}),                                \*  4 reshape
    InPlace({4}, {"K"}, "K"),                \*  5 rope
    Nop({}),                                 \*  6 k_cache_view
    Op({5, 6}, {"K"}, {"kv.k"}, FALSE),      \*  7 cpy
    MM({2}, {"norm"}, "V"),                  \*  8 Vcur
    Nop({8}),                                \*  9 reshape
    Nop({9}),                                \* 10 transpose
    Nop({}),                                 \* 11 v_cache_view
    Op({10, 11}, {"V"}, {"kv.v"}, FALSE),    \* 12 cpy
    Nop({}),                                 \* 13 v
    Nop({}),                                 \* 14 k
    MM({2}, {"norm"}, "Q"),                  \* 15 Qcur
    Nop({15}),                               \* 16 reshape
    InPlace({16}, {"Q"}, "Q"),               \* 17 rope
    Nop({17}),                               \* 18 permute
    MM({14, 18}, {"kv.k", "Q"}, "kq"),       \* 19 kq
    InPlace({19}, {"kq"}, "kq"),             \* 20 scale, add, soft_max
    MM({13, 20}, {"kv.v", "kq"}, "kqv"),     \* 21 kqv
    Nop({21}),                               \* 22 permute
    NewOp({22}, {"kqv"}, "merged"),          \* 23 cont
    MM({23}, {"merged"}, "wo"),              \* 24 kqv_out
    InPlace({24}, {"wo", "inp"}, "wo") >>    \* 25 add

(* The feed-forward half of a LLaMA layer (llm_build_ffn, LLM_FFN_PAR);    *)
(* "ffn_inp" is still used by the residual.                                *)
FeedForward == <<
    NewOp({}, {"ffn_inp"}, "norm"),
    InPlace({1}, {"norm"}, "norm"),
    MM({2}, {"norm"}, "gate"),
    InPlace({3}, {"gate"}, "gate"),
    MM({2}, {"norm"}, "up"),
    InPlace({4, 5}, {"gate", "up"}, "gate"),
    MM({6}, {"gate"}, "down"),
    InPlace({7}, {"down", "ffn_inp"}, "down") >>

===============================================================================
