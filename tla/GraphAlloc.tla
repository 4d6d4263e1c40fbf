------------------------------ MODULE GraphAlloc ------------------------------
(***************************************************************************)
(* The graph allocator, ggml-alloc.c, and its use by llama.cpp.  A tensor  *)
(* allocator keeps a table of free blocks and gives each tensor the best   *)
(* fitting one; the graph allocator goes through a graph once, before it   *)
(* is computed: it allocates each node, in the memory of a parent when the *)
(* op can work in place and nothing else needs the parent, and returns the *)
(* memory of the parents that nothing needs any more.                      *)
(*                                                                         *)
(* llama_new_context_with_model does so first with a "measure" allocator   *)
(* of unlimited size and the graph of the largest batch; the buffer it     *)
(* then allocates has the size that was used, and every batch of llama_    *)
(* decode is allocated in it from the start.                               *)
(*                                                                         *)
(* Sizes and addresses are in units, of which Align are the alignment.  A  *)
(* tensor is named by its index in the graph, a sequence in which srcs     *)
(* come before what reads them.  There is no parse_seq: llama.cpp sets     *)
(* none.                                                                   *)
(***************************************************************************)
EXTENDS LlamaGraph, FiniteSets

CONSTANTS
    Align,
    MaxFreeBlocks,   \* MAX_FREE_BLOCKS
    Unlimited,       \* SIZE_MAX/2
    Misaligned,      \* where the buffer may begin, modulo Align
    Models,          \* hyperparameters, n_ctx and n_batch
    Batches(_),      \* the batches for one of them: [n_tokens, n_kv]
    Shapes,          \* shapes of the tensors AddTensor adds
    MaxTensors       \* bound: tensors of a graph that is built by AddTensor

ASSUME AlignAssumption == Align \in Nat \ {0} /\ MaxFreeBlocks \in Nat \ {0}
ASSUME UnlimitedAssumption == Unlimited \in Nat \ {0} /\ Unlimited % Align = 0
ASSUME MisalignedAssumption == Misaligned \subseteq 0 .. Align - 1
ASSUME ShapesAssumption == \A shape \in Shapes : NBytes(shape) \in Nat \ {0}
ASSUME ModelsAssumption == \A m \in Models : m.n_layer \in Nat \ {0}

Null == -1

(* Any graph, instead of the graphs of a model. *)
NoModel == [n_layer |-> 0]

VARIABLES
    model,
    graph,
    phase,     \* "build", "measure", "decode", "abort"
    pos,       \* the tensor that is next
    size,      \* of the buffer
    base,      \* its address
    alloc      \* the tensor allocator, and what the graph allocator knows of each tensor

vars == <<model, graph, phase, pos, size, base, alloc>>

Tensors == DOMAIN graph

(* The nodes of a graph are its tensors but for the leafs. *)
NextNode(g, t) == Min({n \in DOMAIN g : n > t /\ g[n].kind # "leaf"} \cup {Len(g) + 1})

-------------------------------------------------------------------------------
(* The tensor allocator. *)

AlignedOffset(buffer, offset) == offset + ((Align - ((buffer + offset) % Align)) % Align)
AllocSize(g, t) == AlignedOffset(0, NBytes(g[t].shape))

(* Where tensor t is a src: the nodes, with the number of the src.         *)
ReadsOf(g, t) == {r \in UNION {{n} \X DOMAIN g[n].src : n \in DOMAIN g} : g[r[1]].src[r[2]] = t}

Read(g, t) == ReadsOf(g, t) # {}

(* A graph as llama.cpp and ggml.c build them: srcs come before what reads *)
(* them; a leaf that is not allocated when it is built is not used; a view *)
(* is inside the tensor that it views, which is no view itself and is read *)
(* (by the view, or by one on the way to it).                              *)
WellFormed(g) ==
    /\ g \in Seq({g[t] : t \in DOMAIN g})
    /\ \A t \in DOMAIN g :
        /\ g[t].kind \in {"leaf", "op", "inplace", "view", "external"}
        /\ g[t].src \in Seq(1 .. t - 1)
        /\ NBytes(g[t].shape) \in Nat \ {0}
        /\ g[t].input \in BOOLEAN
        /\ g[t].input => g[t].kind \in {"leaf", "op"}
        /\ g[t].kind = "leaf" => g[t].src = <<>> /\ (g[t].input \/ ~Read(g, t))
        /\ IF g[t].kind = "view"
           THEN LET root == g[t].view_src IN
                /\ root \in 1 .. t - 1 /\ Read(g, root)
                /\ g[root].kind \notin {"view", "external"}
                /\ g[t].offs \in Nat /\ g[t].offs % Align = 0
                /\ g[t].offs + NBytes(g[t].shape) <= NBytes(g[root].shape)
           ELSE g[t].view_src = NoTensor /\ g[t].offs = 0

ASSUME ModelGraphsAssumption ==
    \A m \in Models :
        /\ WellFormed(build_llama(m, m.n_batch, m.n_ctx, TRUE, FALSE))
        /\ \A b \in Batches(m), shift \in BOOLEAN, embd \in BOOLEAN :
            WellFormed(build_llama(m, b.n_tokens, b.n_kv, shift, embd))

Block(addr, bytes) == [addr |-> addr, size |-> bytes]
End(block) == block.addr + block.size

(* ggml_tallocr_reset, with what the graph allocator starts a graph with. *)
Fresh(g, buffer, bytes) ==
    LET offset == AlignedOffset(buffer, 0)
    IN
    [blocks |-> << Block(buffer + offset, bytes - offset) >>,
     max_size |-> 0,
     failed |-> FALSE,
     data |-> [t \in DOMAIN g |-> Null],
     view_src |-> [t \in DOMAIN g |-> g[t].view_src],
     n_children |-> [t \in DOMAIN g |-> Cardinality(ReadsOf(g, t))],
     n_views |-> [t \in DOMAIN g |-> Cardinality({n \in DOMAIN g : g[n].view_src = t})],
     live |-> {},                      \* ghost: the tensors that have memory of their own
     own |-> [t \in DOMAIN g |-> t],   \* ghost: the tensor in whose memory t is
     dropped |-> {}]                   \* ghost: the tensors that their view_src counts no more

(* The smallest block that is large enough, the last one only if no other  *)
(* is; among equals the last.  No such block: 0.                           *)
BestFit(blocks, bytes) ==
    LET fits == {i \in 1 .. Len(blocks) - 1 : blocks[i].size >= bytes}
        best == {i \in fits : \A j \in fits : blocks[i].size <= blocks[j].size}
    IN  IF fits # {} THEN Max(best)
        ELSE IF blocks # <<>> /\ Last(blocks).size >= bytes THEN Len(blocks) ELSE 0

(* ggml_tallocr_alloc; with no block at all the code reads free_blocks[-1]. *)
Alloc(g, buffer, a, t) ==
    LET i == BestFit(a.blocks, AllocSize(g, t))
        block == a.blocks[i]
        rest == Block(block.addr + AllocSize(g, t), block.size - AllocSize(g, t))
    IN  IF i = 0 THEN [a EXCEPT !.failed = TRUE]
        ELSE [a EXCEPT
                !.data[t] = block.addr,
                !.own[t] = t,
                !.blocks = IF rest.size = 0 THEN RemoveAt(@, i) ELSE [@ EXCEPT ![i] = rest],
                !.max_size = Max({@, block.addr - buffer + AllocSize(g, t)}),
                !.live = @ \cup {t}]

(* Fault: a block that grows is not joined with its neighbour. *)
ReturnedUnjoined(blocks, new) ==
    LET before == {i \in DOMAIN blocks : End(blocks[i]) = new.addr}
        place == Min({i \in DOMAIN blocks : blocks[i].addr >= new.addr} \cup {Len(blocks) + 1})
    IN  IF before # {} THEN [blocks EXCEPT ![Min(before)] = Block(@.addr, @.size + new.size)]
        ELSE InsertAt(blocks, place, new)

(* ggml_tallocr_free_tensor: a block that ends where this one begins, or   *)
(* begins where it ends, takes it, and is joined with its neighbour.       *)
Returned(blocks, new) ==
    LET before == {i \in DOMAIN blocks : End(blocks[i]) = new.addr}
        after == {i \in DOMAIN blocks : blocks[i].addr = End(new)}
        joined(bs, i, j) == [RemoveAt(bs, j) EXCEPT ![i] = Block(bs[i].addr, bs[i].size + bs[j].size)]
    IN  IF before # {} THEN
            LET i == Min(before)
                grown == [blocks EXCEPT ![i] = Block(@.addr, @.size + new.size)]
            IN  IF i < Len(blocks) /\ End(grown[i]) = grown[i + 1].addr
                THEN joined(grown, i, i + 1) ELSE grown
        ELSE IF after # {} THEN
            [blocks EXCEPT ![Min(after)] = Block(new.addr, new.size + @.size)]
        ELSE LET place == Min({i \in DOMAIN blocks : blocks[i].addr >= new.addr} \cup {Len(blocks) + 1})
             IN  InsertAt(blocks, place, new)

(* free_node; the tensors of other buffers are ignored. *)
FreeNode(a, t) ==
    IF a.data[t] = Null THEN a
    ELSE [a EXCEPT
            !.blocks = Returned(@, Block(a.data[t], AllocSize(graph, t))),
            !.failed = (@ \/ Len(Returned(a.blocks, Block(a.data[t], AllocSize(graph, t)))) > MaxFreeBlocks),
            !.live = @ \ {x \in a.live : a.data[x] = a.data[t]}]

-------------------------------------------------------------------------------
(* The graph allocator. *)

(* Fault: a parent that others view, or whose memory others view. *)
ReusableDespiteViews(a, node, parent) ==
    /\ a.data[parent] # Null
    /\ a.n_children[parent] = 1
    /\ graph[node].shape = graph[parent].shape

(* Fault: no view's memory is used again. *)
ReusableUnlessView(a, node, parent) ==
    /\ a.data[parent] # Null /\ a.view_src[parent] = NoTensor
    /\ a.n_children[parent] = 1 /\ a.n_views[parent] = 0
    /\ graph[node].shape = graph[parent].shape

(* Parents in whose memory node can work (GGML_OP_MUL_MAT cannot); a view, *)
(* too, if what it views has no other reader and begins where it does.     *)
Reusable(a, node, parent) ==
    LET root == a.view_src[parent] IN
    /\ a.data[parent] # Null
    /\ a.n_children[parent] = 1 /\ a.n_views[parent] = 0
    /\ graph[node].shape = graph[parent].shape
    /\ root # NoTensor =>
        a.n_views[root] = 1 /\ a.n_children[root] = 0 /\ a.data[root] = a.data[parent]

AllocateNode(a, t) ==
    LET node == graph[t]
        reusable == {i \in DOMAIN node.src : Reusable(a, t, node.src[i])}
    IN  IF a.data[t] # Null \/ node.kind = "external" THEN a
        ELSE IF node.kind = "view" THEN
            [a EXCEPT !.data[t] = a.data[node.view_src] + node.offs, !.own[t] = a.own[node.view_src]]
        ELSE IF node.kind = "inplace" /\ reusable # {} THEN
            LET parent == node.src[Min(reusable)]
                owner == IF a.view_src[parent] = NoTensor THEN parent ELSE a.view_src[parent]
            IN  [a EXCEPT !.view_src[t] = owner, !.n_views[owner] = @ + 1,
                          !.data[t] = a.data[owner], !.own[t] = a.own[owner]]
        ELSE Alloc(graph, base, a, t)

(* One of the node's parents has one child less. *)
UpdateParent(a, parent) ==
    LET b == [a EXCEPT !.n_children[parent] = @ - 1]
        root == a.view_src[parent]
        c == [b EXCEPT !.n_views[root] = @ - 1, !.dropped = @ \cup {parent}]
        unused(s, t) == s.n_children[t] = 0 /\ s.n_views[t] = 0
    IN  IF ~unused(b, parent) THEN b
        ELSE IF root = NoTensor THEN FreeNode(b, parent)
        ELSE IF unused(c, root) THEN FreeNode(c, root) ELSE c

(* The srcs, those of them that are leafs for the first time, and the node. *)
AllocateRound(a, t) ==
    LET srcs == graph[t].src
        allocated[k \in 0 .. Len(srcs)] ==
            IF k = 0 THEN a ELSE AllocateNode(allocated[k - 1], srcs[k])
    IN  AllocateNode(allocated[Len(srcs)], t)

UpdateParents(a, t) ==
    LET srcs == graph[t].src
        updated[k \in 0 .. Len(srcs)] ==
            IF k = 0 THEN a ELSE UpdateParent(updated[k - 1], srcs[k])
    IN  updated[Len(srcs)]

(* A round of the loop of ggml_tallocr_alloc_graph_impl. *)
AllocGraph ==
    /\ phase \in {"measure", "decode"}
    /\ pos \in Tensors
    /\ alloc' = UpdateParents(AllocateRound(alloc, pos), pos)
    /\ phase' = IF alloc'.failed THEN "abort" ELSE phase
    /\ pos' = NextNode(graph, pos)
    /\ UNCHANGED <<model, graph, size, base>>

Allocated == phase \in {"measure", "decode"} /\ pos \notin Tensors

-------------------------------------------------------------------------------
(* llama_new_context_with_model and llama_decode. *)

(* A graph of one input and any ops and views; the last tensor is its result. *)
AddTensor(tensor) ==
    /\ model = NoModel /\ phase = "build"
    /\ Len(graph) < MaxTensors
    /\ graph' = Append(graph, tensor)
    /\ UNCHANGED <<model, phase, pos, size, base, alloc>>

AddLeaf == \E shape \in Shapes : graph = <<>> /\ AddTensor(Leaf(shape))
AddOp ==
    \E kind \in {"op", "inplace"}, shape \in Shapes, p, q \in Tensors :
        p <= q /\ AddTensor(Tensor(kind, IF p = q THEN <<p>> ELSE <<p, q>>, shape))

(* ggml_new_tensor_impl: a view of a view is a view of what that one views. *)
AddView ==
    \E p \in Tensors, shape \in Shapes, offs \in {0, Align} :
        /\ offs + NBytes(shape) <= NBytes(graph[p].shape)
        /\ AddTensor(View(p, IF graph[p].view_src = NoTensor THEN p ELSE graph[p].view_src,
                          shape, graph[p].offs + offs))

(* ggml_allocr_reset, then llama_build_graph, whose callback allocates the  *)
(* inputs as it builds them.                                               *)
Built(g, buffer, bytes) ==
    LET built[t \in 0 .. Len(g)] ==
            IF t = 0 THEN Fresh(g, buffer, bytes)
            ELSE IF g[t].input THEN Alloc(g, buffer, built[t - 1], t) ELSE built[t - 1]
    IN  built[Len(g)]

Start(label, g, buffer, bytes) ==
    LET a == Built(g, buffer, bytes)
    IN  /\ graph' = g
        /\ base' = buffer /\ size' = bytes
        /\ alloc' = a
        /\ phase' = IF a.failed THEN "abort" ELSE label
        /\ pos' = NextNode(g, 0)
        /\ UNCHANGED model

AllNeeded(g) == \A t \in 1 .. Len(g) - 1 : \E n \in DOMAIN g : t \in ToSet(g[n].src)

(* llama_new_context_with_model measures the graph of the largest batch. *)
Measure ==
    /\ phase = "build"
    /\ IF model = NoModel
       THEN graph # <<>> /\ AllNeeded(graph) /\ Start("measure", graph, 0, Unlimited)
       ELSE Start("measure", build_llama(model, model.n_batch, model.n_ctx, TRUE, FALSE), 0, Unlimited)

(* Fault: a buffer of just the size that was measured. *)
DecodeWithoutMargin ==
    /\ phase = "measure" /\ Allocated
    /\ \E buffer \in Misaligned :
        IF model = NoModel THEN Start("decode", graph, buffer, alloc.max_size)
        ELSE \E b \in Batches(model), shift \in BOOLEAN, embd \in BOOLEAN :
                Start("decode", build_llama(model, b.n_tokens, b.n_kv, shift, embd), buffer, alloc.max_size)

(* The buffer, with a margin for its alignment, and in it the graph of a   *)
(* batch.                                                                  *)
Decode ==
    /\ phase = "measure" /\ Allocated
    /\ \E buffer \in Misaligned :
        LET start(g) == Start("decode", g, buffer, alloc.max_size + Align) IN
        IF model = NoModel THEN start(graph)
        ELSE \E b \in Batches(model), shift \in BOOLEAN, embd \in BOOLEAN :
                start(build_llama(model, b.n_tokens, b.n_kv, shift, embd))

Init ==
    /\ model \in Models \cup {NoModel}
    /\ graph = <<>>
    /\ phase = "build"
    /\ pos = 1
    /\ size = 0 /\ base = 0
    /\ alloc = Fresh(<<>>, 0, Unlimited)

Next ==
    \/ AddLeaf \/ AddOp \/ AddView
    \/ Measure \/ Decode
    \/ AllocGraph

Spec == Init /\ [][Next]_vars

-------------------------------------------------------------------------------

Allocating == phase \in {"measure", "decode"}
Extent(t) == [lo |-> alloc.data[t], hi |-> alloc.data[t] + AllocSize(graph, t)]
Apart(x, y) == x.hi <= y.lo \/ y.hi <= x.lo

(* Types; a free block is never empty (ggml_tallocr_alloc takes it out of  *)
(* the table).                                                             *)
TypeOK ==
    /\ phase \in {"build", "measure", "decode", "abort"}
    /\ pos \in 1 .. Len(graph) + 1
    /\ Allocating => \A i \in DOMAIN alloc.blocks : alloc.blocks[i] \in [addr : Nat, size : Nat \ {0}]

(* The tensor whose kernel writes what t reads as; an input is written     *)
(* before all of them.                                                     *)
Writer(t) == IF graph[t].view_src = NoTensor THEN t ELSE graph[t].view_src
WrittenAt(t) == IF graph[Writer(t)].kind = "leaf" THEN 0 ELSE Writer(t)
Writes(t) == graph[t].kind \in {"op", "inplace"}
InPlaceOf(n, t) == graph[n].kind = "inplace" /\ Extent(n) = Extent(t)

(* The data of a tensor stays intact until its last reader has computed:   *)
(* whatever allocate_node and free_node do with its memory, no kernel      *)
(* overwrites it between the one that writes it and one that reads it, in  *)
(* the order of the graph, but for a reader that works in place on it.     *)
SrcsIntact ==
    Allocating =>
        \A n \in 1 .. pos - 1 : \A t \in ToSet(graph[n].src) : alloc.data[t] # Null =>
            \A w \in (WrittenAt(t) + 1) .. n : Writes(w) =>
                Apart(Extent(w), Extent(t)) \/ (w = n /\ InPlaceOf(w, t))

(* The buffer that llama_new_context_with_model measures is large enough,  *)
(* wherever it begins, for the same graph and for the graph of any smaller *)
(* batch, with or without a K-shift or embeddings; and MaxFreeBlocks are   *)
(* enough: neither GGML_ASSERT of the allocator fails.                     *)
Fits == phase # "abort"

Freed == {[lo |-> alloc.blocks[i].addr, hi |-> End(alloc.blocks[i])] : i \in DOMAIN alloc.blocks}
InUse == {Extent(t) : t \in alloc.live}

(* ggml_tallocr_free_tensor keeps the table in order with no two blocks    *)
(* that touch, and no free memory is in use; nor do two tensors that have  *)
(* memory of their own share any of it.                                    *)
BlocksSound ==
    Allocating =>
        LET bs == alloc.blocks IN
        /\ \A i \in 1 .. Len(bs) - 1 : End(bs[i]) < bs[i + 1].addr
        /\ \A x \in Freed, y \in InUse : Apart(x, y)
        /\ \A s, t \in alloc.live : s # t => Apart(Extent(s), Extent(t))

(* An op has worked in place in the first part of a tensor. *)
PartReused == \E t \in Tensors : graph[t].kind = "inplace" /\ AllocSize(graph, t) < AllocSize(graph, alloc.own[t])

(* No memory leaks and none is returned twice: what is free and what is in *)
(* use are together the buffer, where one begins the other ends.  Except   *)
(* that when an op has worked in place on a view of the first part of a    *)
(* tensor, free_node may return only that part.                            *)
Conserved ==
    Allocating /\ ~PartReused =>
        LET pieces == Freed \cup InUse
            first == base + AlignedOffset(base, 0)
        IN  /\ \E p \in pieces : p.lo = first
            /\ \A p \in pieces : first <= p.lo /\ (p.hi = base + size \/ \E r \in pieces : r.lo = p.hi)

(* At the end of ggml_tallocr_alloc_graph_impl, only memory of tensors     *)
(* that nothing reads (the results) is still allocated: the counts of      *)
(* children and views have freed everything else.                          *)
NothingLost ==
    Allocated => \A t \in alloc.live : \E r \in Tensors :
        ~Read(graph, r) /\ alloc.data[t] <= alloc.data[r] /\ alloc.data[r] < Extent(t).hi

(* The free blocks and what is in use partition the buffer all the time,   *)
(* and what nothing reads any more goes back.                              *)
MemorySound == TypeOK /\ BlocksSound /\ Conserved /\ NothingLost

(* LayerGraphs, whose allocations ComboGraph takes for given, says what    *)
(* allocate_node does with each layer of build_llama: the same tensors     *)
(* have memory of their own, and the same ones share it.                   *)
Layers == INSTANCE LayerGraphs
AttentionTensor(k, i) == k + (IF i < 20 THEN i ELSE i + 2)   \* scale, add and soft_max are one there
FeedForwardTensor(k, i) == k + 27 + i
SameAllocations(half, tensor(_)) ==
    \A i \in DOMAIN half : \A name \in half[i].writes :
        \A f \in DOMAIN half : half[f].fresh /\ half[f].writes = {name} =>
            /\ alloc.own[tensor(i)] = tensor(f)
            /\ half[i].fresh <=> i = f
AsInLayerGraphs ==
    Allocated => \A il \in 1 .. model.n_layer :
        LET k == 6 + model.n_layer + LayerLen * (il - 1) IN
        /\ SameAllocations(Layers!Attention, LAMBDA i : AttentionTensor(k, i))
        /\ SameAllocations(Layers!FeedForward, LAMBDA i : FeedForwardTensor(k, i))

===============================================================================
