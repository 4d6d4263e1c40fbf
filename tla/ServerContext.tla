----------------------------- MODULE ServerContext -----------------------------
(***************************************************************************)
(* What one slot of the HTTP server (examples/server/server.cpp) knows of  *)
(* its context and what the KV cache holds of it: the prompt cache, the    *)
(* truncation of long prompts, the context shift, the system prompt, and   *)
(* tokens that are only part of a character.  The server has one slot      *)
(* here, so its n_ctx is the cache's; ServerTasks has the slots, queues    *)
(* and threads.                                                            *)
(*                                                                         *)
(* The KV cache is the sequence of the cells of the slot's sequence; where *)
(* the cells lie and how they are rotated is left to KVCache.              *)
(*                                                                         *)
(* The empty prompt here is the array [], which is launched and loaded     *)
(* like any other; the server answers the empty string at once, which      *)
(* ServerTasks models.                                                     *)
(***************************************************************************)
EXTENDS Integers, SequencesExt

CONSTANTS
    NCtx,        \* slot.n_ctx
    SysLen,      \* tokens of a system prompt
    Tokens,      \* tokens that are characters
    Answers,     \* those the model answers with
    Prompts,     \* prompts, sequences of Tokens
    Keeps,       \* values of n_keep
    CachePrompts, \* values of cache_prompt
    MaxSystem    \* bound: system prompts that are set

Part == "part"   \* a token that is the first part of a character
NoToken == "none"

ASSUME SizesAssumption == NCtx \in Nat /\ NCtx >= 5 /\ SysLen \in 1 .. NCtx - 1 /\ MaxSystem \in Nat
ASSUME PromptsAssumption == Prompts \subseteq Seq(Tokens)
ASSUME KeepsAssumption == Keeps \subseteq Int /\ CachePrompts \subseteq BOOLEAN
ASSUME TokensAssumption == {Part, NoToken} \cap Tokens = {} /\ Answers \subseteq Tokens

VARIABLES
    \* the slot
    state, command, prompt, cache_prompt, n_keep, n_past, cache_tokens, sampled, multibyte_pending,
    \* the server
    pc, all_slots_are_idle, clean_kv_cache, system_need_update, batch,
    system_prompt,   \* which one is set: 0 is the empty one
    system_tokens,   \* which one was tokenized last
    kv,              \* llama_context: the cells [pos, tok]
    \* ghosts
    text,            \* what the model is to have been given, less what was discarded
    reused,          \* the prompt cache was used for this request
    parts,           \* the model has answered with parts of characters
    displaced,       \* a context shift has moved system tokens
    stray            \* the row before an empty prompt has been put into the cache

request == <<prompt, cache_prompt, n_keep>>
context == <<n_past, cache_tokens, sampled, multibyte_pending>>
server == <<all_slots_are_idle, clean_kv_cache, system_need_update, system_prompt, system_tokens>>
ghosts == <<text, reused, parts, displaced, stray>>
vars == <<state, command, request, context, pc, server, batch, kv, ghosts>>

Init ==
    /\ state = "IDLE" /\ command = "NONE"
    /\ prompt = <<>> /\ cache_prompt = FALSE /\ n_keep = 0
    /\ n_past = 0 /\ cache_tokens = <<>> /\ sampled = NoToken /\ multibyte_pending = FALSE
    /\ pc = "tasks"
    /\ all_slots_are_idle = TRUE /\ clean_kv_cache = TRUE
    /\ system_need_update = FALSE /\ system_prompt = 0 /\ system_tokens = 0
    /\ batch = <<>> /\ kv = <<>>
    /\ text = <<>> /\ reused = FALSE /\ parts = FALSE /\ displaced = FALSE /\ stray = FALSE

Goto(label) == pc' = label
Processing == (state = "IDLE" /\ command = "LOAD_PROMPT") \/ state = "PROCESSING"
NSystem == IF system_tokens = 0 THEN 0 ELSE SysLen

-------------------------------------------------------------------------------
(* process_tasks. *)

(* A completion that comes when the slot is available; the new system      *)
(* prompt, if it has one, waits until the slots are idle.                  *)
Launch(p, cache, keep, system) ==
    /\ pc = "tasks" /\ state = "IDLE" /\ command = "NONE"
    /\ command' = "LOAD_PROMPT"
    /\ prompt' = p /\ cache_prompt' = cache /\ n_keep' = keep
    /\ n_past' = 0 /\ multibyte_pending' = FALSE
    /\ all_slots_are_idle' = FALSE
    /\ IF system
       THEN /\ system_prompt < MaxSystem
            /\ system_prompt' = system_prompt + 1
            /\ system_need_update' = TRUE
       ELSE UNCHANGED <<system_prompt, system_need_update>>
    /\ UNCHANGED <<state, cache_tokens, sampled, pc, clean_kv_cache, system_tokens, batch, kv, ghosts>>

(* A cancel task with the id of the slot's task. *)
Cancel ==
    /\ pc = "tasks"
    /\ command' = "RELEASE"
    /\ UNCHANGED <<state, request, context, pc, server, batch, kv, ghosts>>

TasksDone ==
    /\ pc = "tasks"
    /\ Goto("idle")
    /\ UNCHANGED <<state, command, request, context, server, batch, kv, ghosts>>

-------------------------------------------------------------------------------
(* update_slots. *)

SystemCells == [i \in 1 .. SysLen |-> [pos |-> i - 1, tok |-> <<"system", system_prompt>>]]

(* The system prompt is decoded, or, once, the cache is cleared. *)
WhenIdle ==
    /\ pc = "idle"
    /\ IF system_need_update /\ all_slots_are_idle
       THEN /\ kv' = SystemCells
            /\ system_tokens' = system_prompt
            /\ system_need_update' = FALSE
            /\ clean_kv_cache' = FALSE
            /\ displaced' = FALSE /\ stray' = FALSE
       ELSE IF all_slots_are_idle /\ system_prompt = 0 /\ clean_kv_cache
       THEN /\ kv' = <<>>
            /\ clean_kv_cache' = FALSE
            /\ stray' = FALSE
            /\ UNCHANGED <<system_tokens, system_need_update, displaced>>
       ELSE UNCHANGED <<kv, system_tokens, system_need_update, clean_kv_cache, displaced, stray>>
    /\ Goto("shift")
    /\ UNCHANGED <<state, command, request, context, all_slots_are_idle, system_prompt, batch, text, reused, parts>>

(* The cells that have one of the positions, in their order. *)
CellsAt(cells, positions) ==
    LET upto[n \in 0 .. Len(cells)] ==
            IF n = 0 THEN <<>>
            ELSE IF cells[n].pos \in positions THEN Append(upto[n - 1], cells[n])
            ELSE upto[n - 1]
    IN  upto[Len(cells)]

(* Fault: p1 is removed, too. *)
SeqRmInclusive(cells, p0, p1) == CellsAt(cells, Nat \ (p0 .. p1))

(* llama_kv_cache_seq_rm and llama_kv_cache_seq_shift for p0 <= pos < p1. *)
SeqRm(cells, p0, p1) == CellsAt(cells, Nat \ (p0 .. p1 - 1))
SeqShift(cells, p0, p1, delta) ==
    CellsAt([i \in DOMAIN cells |-> IF cells[i].pos \in p0 .. p1 - 1
                                    THEN [cells[i] EXCEPT !.pos = @ + delta] ELSE cells[i]],
            Nat)

(* Division of C, which truncates. *)
Half(x) == IF x >= 0 THEN x \div 2 ELSE -((-x) \div 2)

NLeft == n_past - n_keep - 1
NDiscard == Half(NLeft)

(* Fault: the shift waits until the tokens do not fit. *)
ShiftOverdue == Processing /\ n_past > NCtx

ShiftDue == Processing /\ Len(cache_tokens) >= NCtx

(* What follows the first n_keep + 1 and the n_discard elements after them *)
(* is moved down over these, and the sequence shortened.                   *)
Discard(s) ==
    [i \in 1 .. Len(s) - NDiscard |-> IF i <= n_keep + 1 THEN s[i] ELSE s[i + NDiscard]]

ContextShift ==
    /\ pc = "shift" /\ ShiftDue
    /\ kv' = SeqShift(SeqRm(kv, n_keep + 1, n_keep + NDiscard + 1),
                      n_keep + 1 + NDiscard, n_past, -NDiscard)
    /\ cache_tokens' = Discard(cache_tokens)
    /\ n_past' = n_past - NDiscard
    /\ text' = Discard(text)
    /\ displaced' = (displaced \/ (NSystem > 0 /\ NDiscard > 0))
    /\ Goto("batch")
    /\ UNCHANGED <<state, command, request, sampled, multibyte_pending, server, batch, reused, parts, stray>>

NoShift ==
    /\ pc = "shift" /\ ~ShiftDue
    /\ Goto("batch")
    /\ UNCHANGED <<state, command, request, context, server, batch, kv, ghosts>>

Release ==
    /\ pc = "batch" /\ command = "RELEASE"
    /\ state' = "IDLE" /\ command' = "NONE"
    /\ batch' = <<>>
    /\ all_slots_are_idle' = TRUE
    /\ Goto("tasks")
    /\ UNCHANGED <<request, context, clean_kv_cache, system_need_update, system_prompt, system_tokens,
                   kv, ghosts>>

NoSlotBusy ==
    /\ pc = "batch" /\ state = "IDLE" /\ command = "NONE"
    /\ batch' = <<>>
    /\ all_slots_are_idle' = TRUE
    /\ Goto("tasks")
    /\ UNCHANGED <<state, command, request, context, clean_kv_cache, system_need_update, system_prompt,
                   system_tokens, kv, ghosts>>

Generate ==
    /\ pc = "batch" /\ state = "PROCESSING" /\ command # "RELEASE"
    /\ batch' = << [pos |-> NSystem + n_past, tok |-> sampled] >>
    /\ text' = Append(text, sampled)
    /\ n_past' = n_past + 1
    /\ Goto("decode")
    /\ UNCHANGED <<state, command, request, cache_tokens, sampled, multibyte_pending, server, kv,
                   reused, parts, displaced, stray>>

Least(x, y) == IF x <= y THEN x ELSE y

Keep == Least(NCtx - 4, IF n_keep < 0 THEN Len(prompt) ELSE n_keep)

(* Fault: the rest begins with the last of the erased tokens. *)
TruncatedOffByOne ==
    IF Len(prompt) < NCtx THEN prompt
    ELSE LET n_block_size == (NCtx - Keep) \div 2
             erased_blocks == (Len(prompt) - Keep - n_block_size) \div n_block_size
         IN  SubSeq(prompt, 1, Keep) \o SubSeq(prompt, Keep + erased_blocks * n_block_size, Len(prompt))

(* The prompt without as many blocks after its first n_keep tokens as make *)
(* it shorter than the context.                                            *)
Truncated ==
    IF Len(prompt) < NCtx THEN prompt
    ELSE LET n_block_size == (NCtx - Keep) \div 2
             erased_blocks == (Len(prompt) - Keep - n_block_size) \div n_block_size
         IN  SubSeq(prompt, 1, Keep) \o SubSeq(prompt, Keep + erased_blocks * n_block_size + 1, Len(prompt))

CommonPart(a, b) == Max({n \in 0 .. Least(Len(a), Len(b)) : SubSeq(a, 1, n) = SubSeq(b, 1, n)})

(* Fault: cache_tokens is left alone unless cache_prompt is set. *)
LoadPromptUncached ==
    /\ pc = "batch" /\ state = "IDLE" /\ command = "LOAD_PROMPT" /\ ~cache_prompt /\ prompt # <<>>
    /\ kv' = CellsAt(kv, 0 .. NSystem - 1)
    /\ batch' = [i \in 1 .. Len(Truncated) |-> [pos |-> NSystem + i - 1, tok |-> Truncated[i]]]
    /\ n_past' = Len(Truncated)
    /\ text' = Truncated
    /\ reused' = FALSE
    /\ parts' = FALSE
    /\ n_keep' = Keep
    /\ state' = "PROCESSING" /\ command' = "NONE"
    /\ Goto("decode")
    /\ UNCHANGED <<prompt, cache_prompt, cache_tokens, sampled, multibyte_pending, server, displaced, stray>>

(* prefix_tokens[i - 1].  What lies before an empty prompt is no token of  *)
(* it.                                                                     *)
TokenAt(p, i) == IF i \in DOMAIN p THEN p[i] ELSE NoToken

(* A prompt of which common tokens are cached; the last one is decoded     *)
(* again if all are.  For the empty prompt that is the row before the      *)
(* first, at position NSystem - 1.                                         *)
LoadPrompt ==
    /\ pc = "batch" /\ state = "IDLE" /\ command = "LOAD_PROMPT"
    /\ LET p == Truncated
           common == IF cache_prompt THEN CommonPart(cache_tokens, p) ELSE 0
           from == IF common = Len(p) THEN common - 1 ELSE common
       IN  /\ kv' = CellsAt(kv, 0 .. NSystem + common - 1)
           /\ cache_tokens' = p
           /\ batch' = [i \in 1 .. Len(p) - from |->
                          [pos |-> NSystem + from + i - 1, tok |-> TokenAt(p, from + i)]]
           /\ n_past' = Len(p)
           /\ text' = p
           /\ reused' = (common > 0)
           /\ stray' = (stray \/ p = <<>>)
    /\ parts' = FALSE
    /\ n_keep' = Keep
    /\ state' = "PROCESSING" /\ command' = "NONE"
    /\ Goto("decode")
    /\ UNCHANGED <<prompt, cache_prompt, sampled, multibyte_pending, server, displaced>>

(* That row is read from before the vector of the tokens, which may as     *)
(* well end the process.                                                   *)
ReadBeforePrompt ==
    /\ pc = "batch" /\ state = "IDLE" /\ command = "LOAD_PROMPT" /\ Truncated = <<>>
    /\ Goto("stopped")
    /\ UNCHANGED <<state, command, request, context, server, batch, kv, ghosts>>

Fits == Len(kv) + Len(batch) <= NCtx

(* A cell at a negative position counts as free, but no removal finds it   *)
(* and the attention still sees it.                                        *)
Decode ==
    /\ pc = "decode" /\ Fits
    /\ kv' = kv \o CellsAt(batch, Nat)
    /\ Goto("sample")
    /\ UNCHANGED <<state, command, request, context, server, batch, ghosts>>

(* Even one token at a time: update_slots returns false, the server stops. *)
DecodeFails ==
    /\ pc = "decode" /\ ~Fits
    /\ Goto("stopped")
    /\ UNCHANGED <<state, command, request, context, server, batch, kv, ghosts>>

(* process_token.  A part of a character is not added to cache_tokens. *)
Sample(tok, more) ==
    /\ pc = "sample"
    /\ sampled' = tok
    /\ multibyte_pending' = (tok = Part /\ ~multibyte_pending)
    /\ cache_tokens' = IF multibyte_pending' THEN cache_tokens ELSE Append(cache_tokens, tok)
    /\ command' = IF more THEN command ELSE "RELEASE"
    /\ Goto("tasks")
    /\ parts' = (parts \/ tok = Part)
    /\ UNCHANGED <<state, request, n_past, server, batch, kv, text, reused, displaced, stray>>

-------------------------------------------------------------------------------

Next ==
    \/ \E p \in Prompts, cache \in CachePrompts, keep \in Keeps, system \in BOOLEAN :
         Launch(p, cache, keep, system)
    \/ Cancel \/ TasksDone \/ WhenIdle
    \/ ContextShift \/ NoShift
    \/ Release \/ NoSlotBusy \/ Generate \/ LoadPrompt \/ ReadBeforePrompt
    \/ Decode \/ DecodeFails
    \/ \E tok \in Answers \cup {Part}, more \in BOOLEAN : Sample(tok, more)

Spec == Init /\ [][Next]_vars

-------------------------------------------------------------------------------

SystemTokens == [i \in 1 .. NSystem |-> [pos |-> i - 1, tok |-> <<"system", system_tokens>>]]
Expected == SystemTokens \o [i \in 1 .. Len(text) |-> [pos |-> NSystem + i - 1, tok |-> text[i]]]
SameCells(a, b) == Len(a) = Len(b) /\ ToSet(a) = ToSet(b)
ContextCached == pc = "sample" => SameCells(kv, Expected)

(* Types, and what a slot that works keeps of its context in a shift.      *)
TypeOK ==
    /\ state \in {"IDLE", "PROCESSING"}
    /\ command \in {"NONE", "LOAD_PROMPT", "RELEASE"}
    /\ prompt \in Prompts \cup {<<>>} /\ cache_prompt \in BOOLEAN
    /\ n_keep \in Int /\ (state = "PROCESSING" => n_keep \in 0 .. NCtx - 4)
    /\ n_past \in Nat
    /\ cache_tokens \in Seq(Tokens \cup {Part})
    /\ sampled \in Tokens \cup {Part, NoToken}
    /\ multibyte_pending \in BOOLEAN

(* When a token is sampled, the KV cache holds the system prompt and the   *)
(* text so far, one cell for each token, at its place, and nothing of      *)
(* earlier requests: after any releases, cancellations, truncations and    *)
(* context shifts, as long as no cached prompt is used, no context shift   *)
(* has moved the system prompt, and no empty prompt has put the row before *)
(* it into the cache.                                                      *)
ContextInCache == ~reused /\ ~displaced /\ ~stray => ContextCached

(* cache_prompt only saves work (README.md:201): a request that finds a    *)
(* part of its prompt in cache_tokens continues from the cells it would    *)
(* have without the cache.  The code does not do so.                       *)
CachedPromptAsFresh == reused /\ ~displaced /\ ~stray => ContextCached

(* cache_tokens, which the next prompt is compared with, is the text and   *)
(* the token that was sampled last, through shifts and truncations, unless *)
(* the model has answered with parts of characters.                        *)
PromptCacheTrue ==
    pc = "tasks" /\ state = "PROCESSING" /\ ~parts =>
        cache_tokens = Append(text, sampled)

(* However long a prompt is, what the truncation leaves of it is shorter   *)
(* than the context, and empty only if the prompt is the empty array, of   *)
(* which no token is given to the model.                                   *)
PromptFits == [][LoadPrompt => n_past' < NCtx /\ (n_past' = 0 => prompt = <<>>)]_vars

(* The context shift comes in time, however long the model goes on: there  *)
(* is a cell for every row of the batch.  Unless there were parts of       *)
(* characters, which cache_tokens does not count, a cached prompt, or a    *)
(* system prompt, which the shift does not count.                          *)
DecodeFits ==
    pc = "decode" /\ ~reused /\ NSystem = 0 /\ ~parts => Fits

(* A context shift discards something, and nothing that it is to keep.     *)
ShiftMakesRoom == pc = "shift" /\ ShiftDue => NDiscard >= 1 /\ n_keep + 1 + NDiscard <= n_past

(* The context shift and n_keep are such that there is always room, and    *)
(* the shift is never asked to discard what it keeps.                      *)
RoomInTime == TypeOK /\ DecodeFits /\ ShiftMakesRoom

===============================================================================
