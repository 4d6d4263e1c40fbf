------------------------------ MODULE LlamaGraph ------------------------------
(***************************************************************************)
(* Tensors as the graph allocator sees them, and the graph that llama.cpp  *)
(* builds for a batch and a LLaMA model (build_llama).  A graph is a       *)
(* sequence of tensors in which srcs come before what reads them, in the   *)
(* order of ggml_build_forward_expand, and a tensor is named by its index. *)
(* The weights, which are in another buffer, are left out of the srcs.     *)
(***************************************************************************)
EXTENDS Integers, SequencesExt

NoTensor == 0

(* ne and nb: how the dimensions are ordered in memory. *)
Shape(ne, order) == [ne |-> ne, order |-> order]
Rows(ne) == Shape(ne, "rows")
NBytes(shape) == FoldLeft(LAMBDA n, d : n * d, 1, shape.ne)   \* ggml_nbytes, in elements

(* kind: a "leaf" is no node of the graph; an "inplace" op is one of       *)
(* ggml_op_can_inplace; a "view" has its data at offs in view_src's; an    *)
(* "external" has its data in another buffer.  input: it is allocated when *)
(* it is built.                                                            *)
Tensor(kind, src, shape) ==
    [kind |-> kind, src |-> src, shape |-> shape, view_src |-> NoTensor, offs |-> 0, input |-> FALSE]
Leaf(shape) == [Tensor("leaf", <<>>, shape) EXCEPT !.input = TRUE]
Op(src, shape) == Tensor("op", src, shape)
InPlace(src, shape) == Tensor("inplace", src, shape)
External(src) == Tensor("external", src, Rows(<<1>>))

(* A view of src, which is view_src or itself a view of it. *)
View(src, view_src, shape, offs) ==
    [Tensor("view", <<src>>, shape) EXCEPT !.view_src = view_src, !.offs = offs]

-------------------------------------------------------------------------------
(* m: the hyperparameters; T: n_tokens; C: n_kv. *)

(* inp_tokens and inp_embd (none and a leaf if the batch has embeddings),  *)
(* inp_pos, KQ_scale, KQ_mask, K_shift (if there is a shift).              *)
Inputs(m, T, C, shift, embd) == <<
    [Leaf(Rows(<<T>>)) EXCEPT !.input = ~embd],
    [(IF embd THEN Leaf(Rows(<<m.n_embd, T>>)) ELSE Op(<<1>>, Rows(<<m.n_embd, T>>))) EXCEPT !.input = TRUE],
    Leaf(Rows(<<T>>)),
    Leaf(Rows(<<1>>)),
    Leaf(Rows(<<C, T>>)),
    [Leaf(Rows(<<m.n_ctx>>)) EXCEPT !.input = shift] >>
    \o [il \in 1 .. m.n_layer |-> External(IF shift THEN <<6>> ELSE <<>>)]

(* The first half of a layer, after k tensors; its input is inpL. *)
SelfAttention(m, T, C, k, inpL) ==
    LET embd == Rows(<<m.n_embd, T>>)
        gqa == Rows(<<m.n_embd_gqa, T>>)
        n_embd_head == m.n_embd \div m.n_head
        heads(n) == Rows(<<n_embd_head, n, T>>)
        kq == Rows(<<C, T, m.n_head>>)
    IN  <<  InPlace(<<inpL>>, embd),                             \*  1 norm
            InPlace(<<k + 1>>, embd),                            \*  2 attn_norm
            Op(<<k + 2>>, gqa),                                  \*  3 Kcur
            View(k + 3, k + 3, heads(m.n_embd_gqa \div n_embd_head), 0),
            InPlace(<<k + 4, 3>>, heads(m.n_embd_gqa \div n_embd_head)),   \*  5 rope
            External(<<>>),                                      \*  6 k_cache_view
            External(<<k + 5, k + 6>>),                          \*  7 cpy
            Op(<<k + 2>>, gqa),                                  \*  8 Vcur
            View(k + 8, k + 8, gqa, 0),
            View(k + 9, k + 8, Shape(<<T, m.n_embd_gqa>>, "transposed"), 0),
            External(<<>>),                                      \* 11 v_cache_view
            External(<<k + 10, k + 11>>),                        \* 12 cpy
            External(<<>>), External(<<>>),                      \* 13 v, 14 k
            Op(<<k + 2>>, embd),                                 \* 15 Qcur
            View(k + 15, k + 15, heads(m.n_head), 0),
            InPlace(<<k + 16, 3>>, heads(m.n_head)),             \* 17 rope
            View(k + 17, k + 17, Shape(<<n_embd_head, T, m.n_head>>, "permuted"), 0),
            Op(<<k + 14, k + 18>>, kq),                          \* 19 kq
            InPlace(<<k + 19, 4>>, kq),                          \* 20 scale
            InPlace(<<k + 20, 5>>, kq),                          \* 21 add
            InPlace(<<k + 21>>, kq),                             \* 22 soft_max
            Op(<<k + 13, k + 22>>, Rows(<<n_embd_head, T, m.n_head>>)),    \* 23 kqv
            View(k + 23, k + 23, Shape(<<n_embd_head, m.n_head, T>>, "permuted"), 0),
            Op(<<k + 24>>, embd),                                \* 25 cont
            Op(<<k + 25>>, embd),                                \* 26 kqv_out
            InPlace(<<k + 26, inpL>>, embd) >>                   \* 27 ffn_inp

(* The second half. *)
FeedForward(m, T, k) ==
    LET embd == Rows(<<m.n_embd, T>>)
        ff == Rows(<<m.n_ff, T>>)
    IN  <<  InPlace(<<k + 27>>, embd),                           \* 28 norm
            InPlace(<<k + 28>>, embd),                           \* 29 ffn_norm
            Op(<<k + 29>>, ff),                                  \* 30 gate
            InPlace(<<k + 30>>, ff),                             \* 31 silu
            Op(<<k + 29>>, ff),                                  \* 32 up
            InPlace(<<k + 31, k + 32>>, ff),                     \* 33 gate_par
            Op(<<k + 33>>, embd),                                \* 34 ffn_out
            InPlace(<<k + 34, k + 27>>, embd) >>                 \* 35 l_out

LayerLen == 35

build_llama(m, T, C, shift, embd) ==
    LET k(il) == 6 + m.n_layer + LayerLen * (il - 1)
        layer(il) == SelfAttention(m, T, C, k(il), IF il = 1 THEN 2 ELSE k(il)) \o FeedForward(m, T, k(il))
        n == k(m.n_layer + 1)
    IN  Inputs(m, T, C, shift, embd)
            \o FlattenSeq([il \in 1 .. m.n_layer |-> layer(il)])
            \o << InPlace(<<n>>, Rows(<<m.n_embd, T>>)),
                  InPlace(<<n + 1>>, Rows(<<m.n_embd, T>>)),     \* result_norm
                  Op(<<n + 2>>, Rows(<<m.n_vocab, T>>)) >>       \* result_output

===============================================================================
