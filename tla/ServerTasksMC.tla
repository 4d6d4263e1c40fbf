----------------------------- MODULE ServerTasksMC -----------------------------
(***************************************************************************)
(* Two slots and three requests: one that streams from the second slot,    *)
(* one that waits for its answer, and one that has an empty prompt, wants  *)
(* the embedding, or sets the system prompt.                               *)
(***************************************************************************)
EXTENDS ServerTasks

Plain == [stream |-> FALSE, slot_id |-> 0, embedding |-> FALSE, system |-> FALSE, rows |-> 1]
Stream == [Plain EXCEPT !.stream = TRUE, !.slot_id = 2]

MCKinds == <<
    {Stream},
    {[Plain EXCEPT !.rows = 2]},
    {[Plain EXCEPT !.rows = 0], [Plain EXCEPT !.embedding = TRUE],
     [Plain EXCEPT !.rows = -1, !.system = TRUE], [Stream EXCEPT !.system = TRUE]} >>

===============================================================================
