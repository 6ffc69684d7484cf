------------------------------ MODULE TurnLoop ------------------------------
(***************************************************************************)
(* What a turn does between its events: core/loop.py's run_turn over the   *)
(* state dict of core/state.py, with the prompt overlay (core/prompt.py),  *)
(* the pruning of the context (core/pruning.py), use_skill and             *)
(* edit_memory, and the compaction of what is saved                        *)
(* (host/stores/conversation_store.py).                                    *)
(*                                                                         *)
(* Turns of one conversation follow each other (TurnLifecycle).  A turn    *)
(* works on a copy of the stored context, saves all of it at every durable *)
(* event, and may be stopped (cancelled, or the process dies) at any       *)
(* await; then the copy is lost.  A text is kept as its kind; a user       *)
(* message as its turn, a summary as the turns it tells of, the system     *)
(* prompt as the skills it shows, the scratchpad as its version, the text  *)
(* of a skill (its arguments filled in) as its length.                     *)
(***************************************************************************)
EXTENDS SequencesExt, Integers

CONSTANTS Skills,
          OneTurn,       \* the skills whose mode is one_turn
          Size,          \* the length of each skill's text
          SkillBudget,   \* max_skill_tokens, in characters
          Batches,       \* what the model may ask for: sequences of actions
          MaxToolCalls,  \* max_tool_calls_per_turn
          MaxActive,     \* max_active_skills
          KeepLastTurns, \* keep_last_turns
          MaxPersisted,  \* max_persisted_messages
          MaxTurns,      \* bound: messages the user sends
          MaxCalls,      \* bound: tool calls the model makes in all
          MaxStops,      \* bound: turns that are cancelled or die
          MaxErrors      \* bound: model calls, summaries and saves that raise

\* An action names a tool of the registry by what it does to the state.
Tools == [does: {"note", "activate", "deactivate", "other", "exclusive"}, skill: Skills]

ASSUME LoopAssumption ==
  /\ IsFiniteSet(Skills) /\ OneTurn \subseteq Skills
  /\ Size \in [Skills -> Nat] /\ SkillBudget \in Nat
  /\ Batches \subseteq Seq(Tools) \ {<<>>}
  /\ MaxToolCalls \in Nat \ {0} /\ KeepLastTurns \in Nat \ {0} /\ MaxActive \in Nat
  /\ MaxPersisted \in Nat /\ MaxTurns \in Nat /\ MaxCalls \in Nat
  /\ MaxStops \in Nat /\ MaxErrors \in Nat

VARIABLES stored,   \* the context in the conversation's document
          ctx,      \* the running turn's state
          pc,       \* where run_turn is
          turn,     \* the turns started
          spent,    \* tools_this_turn
          atStart,  \* _skills_at_iter_start
          batch,    \* the actions to run, with their call ids
          skipped,  \* the calls that an exclusive one displaced
          results,  \* results[i]: the outcome of batch[i], "none" before
          next,     \* the action to open or to close
          issued, stops, errors,
          shows,    \* shows[s]: model calls that showed s since its activation
          fresh,    \* the skills use_skill just activated, not active before
          ran       \* tools run in this turn, the exclusive ones apart

vars == <<stored, ctx, pc, turn, spent, atStart, batch, skipped, results, next,
          issued, stops, errors, shows, fresh, ran>>

Ids == 1 .. MaxCalls

-----------------------------------------------------------------------------
(* Messages *)

Message(kind, of) == [kind |-> kind, of |-> of]

\* The kinds whose role is "system".
System == {"prompt", "scratchpad", "summary"}

Messages ==
  [kind: {"prompt"}, of: SUBSET Skills]
    \cup [kind: {"scratchpad", "user", "summary"}, of: SUBSET (0 .. MaxTurns + MaxCalls)]
    \cup [kind: {"text", "calls", "result"}, of: SUBSET Ids]

\* skills and front are the list active_skills: its skills, and for each of them
\* those in front of it.  cut: a save cut the beginning of messages off.
Contexts == [messages: Seq(Messages),
             calls: [Ids -> {"none", "started", "completed", "error"}],
             skills: SUBSET Skills, front: [Skills -> SUBSET Skills],
             notes: Nat, cut: BOOLEAN]

Leads(m) == m # <<>> /\ m[1].kind \in System

\* The characters of the texts of some skills.
Text(S) == UNION {{s} \X (1 .. Size[s]) : s \in S}

\* build_active_skills_text: the active skills in their order, up to the first whose
\* text is beyond the budget.
InBudget(c) == {s \in c.skills : Cardinality(Text(c.front[s] \cup {s})) <= SkillBudget}

\* The first message, if it is a system message, becomes the prompt.
Overlaid(m, skills) ==
  IF Leads(m) THEN [m EXCEPT ![1] = Message("prompt", skills)] ELSE m

ScratchpadAt(m) == {i \in DOMAIN m : m[i].kind = "scratchpad"}

\* Bug: a scratchpad message that is there already is not refreshed.
BugScratched(m, notes) ==
  IF notes = 0 \/ ScratchpadAt(m) # {} THEN m
  ELSE InsertAt(m, IF Leads(m) THEN 2 ELSE 1, Message("scratchpad", {notes}))

\* inject_scratchpad: replace the message, or insert it behind the prompt.
Scratched(m, notes) ==
  IF notes = 0 THEN m
  ELSE IF ScratchpadAt(m) # {}
  THEN [m EXCEPT ![Min(ScratchpadAt(m))] = Message("scratchpad", {notes})]
  ELSE InsertAt(m, IF Leads(m) THEN 2 ELSE 1, Message("scratchpad", {notes}))

\* Bug: every message but a result starts a turn.
BugTurnStarts(m) == {i \in DOMAIN m : i = 1 \/ m[i].kind # "user"}

\* _split_into_turns: where the turns of a list of messages start.
TurnStarts(m) == {i \in DOMAIN m : i = 1 \/ m[i].kind = "user"}

\* The turns whose user message is there, and those that a summary tells of.
Users(m) == UNION {m[i].of : i \in {j \in DOMAIN m : m[j].kind = "user"}}
Summarised(m) == UNION {m[i].of : i \in {j \in DOMAIN m : m[j].kind = "summary"}}
Covered(m) == Users(m) \cup Summarised(m)

\* _summarize_messages: each message is cut to its first 500 characters.  That tells
\* of a user's message; of what an earlier summary told, some is left (kept).
Condensed(m, kept) == Message("summary", Users(m) \cup (Summarised(m) \cap kept))

\* Bug: one turn more is left out of what is kept, and is not summarised.
BugPruned(m, kept) ==
  LET lead   == IF Leads(m) THEN <<m[1]>> ELSE <<>>
      rest   == SubSeq(m, Len(lead) + 1, Len(m))
      starts == TurnStarts(rest)
      cut    == CHOOSE i \in starts :
                  Cardinality({j \in starts : j >= i}) = KeepLastTurns
      before == CHOOSE i \in starts : i < cut /\ \A j \in starts : j < cut => j <= i
  IN IF Cardinality(starts) <= KeepLastTurns THEN m
     ELSE lead \o <<Condensed(SubSeq(rest, 1, before - 1), kept)>>
            \o SubSeq(rest, cut, Len(rest))

\* prune_messages of a context over the token threshold: all turns but the
\* last ones become one summary, behind the prompt.
Pruned(m, kept) ==
  LET lead   == IF Leads(m) THEN <<m[1]>> ELSE <<>>
      rest   == SubSeq(m, Len(lead) + 1, Len(m))
      starts == TurnStarts(rest)
      cut    == CHOOSE i \in starts :
                  Cardinality({j \in starts : j >= i}) = KeepLastTurns
  IN IF Cardinality(starts) <= KeepLastTurns THEN m
     ELSE lead \o <<Condensed(SubSeq(rest, 1, cut - 1), kept)>>
            \o SubSeq(rest, cut, Len(rest))

-----------------------------------------------------------------------------
(* The context *)

\* The seeded context of create_conversation: init_state adds the
\* prompt when a turn restores it.
Seeded == [messages |-> <<>>, calls |-> [i \in Ids |-> "none"], skills |-> {},
           front |-> [s \in Skills |-> {}], notes |-> 0, cut |-> FALSE]

\* restore_state, then inject_user_message.
Restored(c, t) ==
  [c EXCEPT !.messages =
     Append(IF @ = <<>> THEN <<Message("prompt", {})>> ELSE Overlaid(@, {}),
            Message("user", {t}))]

\* _compact_state
Compacted(c) ==
  IF MaxPersisted > 0 /\ Len(c.messages) > MaxPersisted
  THEN [c EXCEPT !.messages = SubSeq(@, Len(@) - MaxPersisted + 1, Len(@)), !.cut = TRUE]
  ELSE c

Said(c, message) == [c EXCEPT !.messages = Append(@, message)]

\* Bug: a failed call keeps the status it had.
BugTracked(c, id, status) ==
  IF status = "error" THEN c
  ELSE [c EXCEPT !.calls = [@ EXCEPT ![id] = status]]

\* Bug: a status that no reader of tool_calls knows.
BugTrackedAs(c, id, status) == [c EXCEPT !.calls = [@ EXCEPT ![id] = "running"]]

\* upsert_tool_call
Tracked(c, id, status) == [c EXCEPT !.calls = [@ EXCEPT ![id] = status]]

\* The list without the skills that are not in K.
Reduced(c, K) ==
  [c EXCEPT !.skills = @ \cap K,
            !.front = [s \in Skills |-> IF s \in K THEN c.front[s] \cap K ELSE {}]]

\* expire_one_turn_skills
Expired(c, skip) == Reduced(c, (Skills \ OneTurn) \cup skip)

\* The skills that were activated in this iteration.
Fresh(c) == c.skills \ atStart

\* Whether the state lets a tool succeed; any may fail all the same (a key that
\* cannot be parsed, a skill that is not there, an exception).
Permitted(a, c) ==
  /\ a.does = "activate" => a.skill \in c.skills \/ Cardinality(c.skills) < MaxActive
  /\ a.does = "deactivate" => a.skill \in c.skills

\* A skill joins the list at its end, unless it is there already.
Added(c, s) ==
  IF s \in c.skills THEN c
  ELSE [c EXCEPT !.skills = @ \cup {s}, !.front = [@ EXCEPT ![s] = c.skills]]

\* What a tool that succeeds makes of the state.
Done(a, c) ==
  CASE a.does = "note"       -> [c EXCEPT !.notes = @ + 1]
    [] a.does = "activate"   -> Added(c, a.skill)
    [] a.does = "deactivate" -> Reduced(c, Skills \ {a.skill})
    [] OTHER                 -> c

-----------------------------------------------------------------------------

Stages == {"idle", "iterate", "pruning", "asking", "opening", "running", "closing",
           "spoken", "finalize", "failing"}

TypeOK ==
  /\ stored \in Contexts /\ ctx \in Contexts
  /\ pc \in Stages
  /\ turn \in 0 .. MaxTurns
  /\ spent \in Nat
  /\ atStart \subseteq Skills
  /\ batch \in Seq([id: Ids, does: {a.does : a \in Tools}, skill: Skills])
  /\ skipped \in Seq(Ids)
  /\ results \in Seq({"none", "completed", "error"}) /\ Len(results) = Len(batch)
  /\ next \in Nat
  /\ issued \in 0 .. MaxCalls
  /\ stops \in 0 .. MaxStops /\ errors \in 0 .. MaxErrors
  /\ shows \in [Skills -> Nat]
  /\ fresh \subseteq Skills
  /\ ran \in Nat

Init ==
  /\ stored = Seeded /\ ctx = Seeded
  /\ pc = "idle"
  /\ turn = 0 /\ spent = 0
  /\ atStart = {}
  /\ batch = <<>> /\ skipped = <<>> /\ results = <<>> /\ next = 1
  /\ issued = 0 /\ stops = 0 /\ errors = 0
  /\ shows = [s \in Skills |-> 0]
  /\ fresh = {}
  /\ ran = 0

work    == <<batch, skipped, results, next>>
history == <<shows, fresh, ran>>

\* publish_durable_event with state c: save it and go on with d at stage s, or
\* the save raises.
Publish(c, d, s) ==
  \/ /\ stored' = Compacted(c)
     /\ ctx' = d /\ pc' = s
     /\ UNCHANGED errors
  \/ /\ errors < MaxErrors /\ errors' = errors + 1
     /\ ctx' = c /\ pc' = "failing"
     /\ UNCHANGED stored

StartTurn ==
  /\ pc = "idle" /\ turn < MaxTurns
  /\ turn' = turn + 1
  /\ ctx' = Restored(stored, turn + 1)
  /\ pc' = "iterate"
  /\ spent' = 0 /\ ran' = 0
  /\ fresh' = {}
  /\ UNCHANGED <<stored, atStart, work, issued, stops, errors, shows>>

\* The top of the loop, below the tool call limit: overlay and scratchpad.
Iterate ==
  /\ pc = "iterate" /\ spent < MaxToolCalls
  /\ atStart' = ctx.skills
  /\ ctx' = [ctx EXCEPT !.messages = Scratched(Overlaid(@, InBudget(ctx)), ctx.notes)]
  /\ pc' = "pruning"
  /\ UNCHANGED <<stored, turn, spent, work, issued, stops, errors, history>>

\* At the limit the loop is left after one more message to the user.
Limit ==
  /\ pc = "iterate" /\ spent >= MaxToolCalls
  /\ atStart' = ctx.skills
  /\ Publish(ctx, ctx, "finalize")
  /\ UNCHANGED <<turn, spent, work, issued, stops, history>>

\* The context is pruned or still small enough, and the model is called.
Prune ==
  /\ pc = "pruning"
  /\ \E kept \in SUBSET Summarised(ctx.messages) :
     \E m \in {ctx.messages, Pruned(ctx.messages, kept)} : ctx' = [ctx EXCEPT !.messages = m]
  /\ pc' = "asking"
  /\ shows' = [s \in Skills |-> IF s \in InBudget(ctx) THEN shows[s] + 1
                               ELSE IF s \in ctx.skills THEN shows[s] ELSE 0]
  /\ UNCHANGED <<stored, turn, spent, atStart, work, issued, stops, errors, fresh, ran>>

\* The summary or the model call raises, or times out.
Raise ==
  /\ pc \in {"pruning", "asking"}
  /\ errors < MaxErrors /\ errors' = errors + 1
  /\ pc' = "failing"
  /\ UNCHANGED <<stored, ctx, turn, spent, atStart, work, issued, stops, history>>

-----------------------------------------------------------------------------
(* The model answers with tool calls. *)

Exclusive(b) == {i \in DOMAIN b : b[i].does = "exclusive"}

\* Bug: a batch counts as one call.
BugCounted(b) == IF Exclusive(b) = {} THEN 1 ELSE 0

\* What the calls count towards the limit.
Counted(b) == IF Exclusive(b) = {} THEN Len(b) ELSE 0

\* The first exclusive call runs alone, or else all calls run.
AnswerCalls(b) ==
  LET calls == [i \in DOMAIN b |-> [id |-> issued + i, does |-> b[i].does,
                                    skill |-> b[i].skill]]
      alone == Min(Exclusive(b))
      asked == Said(ctx, Message("calls", {calls[i].id : i \in DOMAIN calls}))
  IN
  /\ pc = "asking" /\ issued + Len(b) <= MaxCalls
  /\ issued' = issued + Len(b)
  /\ IF Exclusive(b) = {}
     THEN batch' = calls /\ skipped' = <<>>
     ELSE /\ batch' = <<calls[alone]>>
          /\ skipped' = RemoveAt([i \in DOMAIN b |-> calls[i].id], alone)
  /\ results' = [i \in DOMAIN batch' |-> "none"]
  /\ next' = 1
  /\ spent' = spent + Counted(b)
  /\ fresh' = {}
  /\ \/ Publish(ctx, asked, "opening")     \* with a text for the user
     \/ ctx' = asked /\ pc' = "opening" /\ UNCHANGED <<stored, errors>>
  /\ UNCHANGED <<turn, atStart, stops, shows, ran>>

AtLast == next = Len(batch)

\* tool_started for the next call; then the displaced ones get their results.
OpenCall ==
  /\ pc = "opening"
  /\ LET c == Tracked(ctx, batch[next].id, "started")
         passed == [i \in DOMAIN skipped |-> Message("result", {skipped[i]})]
     IN Publish(c, [c EXCEPT !.messages = @ \o passed],
                IF AtLast THEN "running" ELSE "opening")
  /\ next' = IF AtLast THEN 1 ELSE next + 1
  /\ UNCHANGED <<turn, spent, atStart, batch, skipped, results, issued, stops, history>>

\* One of the tools that run at the same time returns.
Run(i) ==
  LET a == batch[i] IN
  /\ pc = "running" /\ i \in DOMAIN batch /\ results[i] = "none"
  /\ \/ /\ results' = [results EXCEPT ![i] = "error"]
        /\ \/ ctx' = ctx
           \/ a.does = "note" /\ ctx' = Done(a, ctx)   \* it raises after the note
        /\ UNCHANGED <<fresh, shows>>
     \/ /\ Permitted(a, ctx)
        /\ results' = [results EXCEPT ![i] = "completed"]
        /\ ctx' = Done(a, ctx)
        /\ fresh' = IF a.does = "activate" THEN fresh \cup ({a.skill} \ atStart)
                    ELSE IF a.does = "deactivate" THEN fresh \ {a.skill} ELSE fresh
        /\ shows' = IF a.does = "activate" /\ a.skill \notin ctx.skills
                    THEN [shows EXCEPT ![a.skill] = 0] ELSE shows
  /\ ran' = IF a.does = "exclusive" THEN ran ELSE ran + 1
  /\ pc' = IF \A j \in DOMAIN batch : results'[j] # "none" THEN "closing" ELSE "running"
  /\ UNCHANGED <<stored, turn, spent, atStart, batch, skipped, next, issued, stops, errors>>

\* The results are told in the order of the calls; then the loop goes round.
CloseCall ==
  /\ pc = "closing"
  /\ LET id == batch[next].id
         c == Tracked(Said(ctx, Message("result", {id})), id, results[next])
     IN IF AtLast THEN Publish(c, Expired(c, Fresh(c)), "iterate")
        ELSE Publish(c, c, "closing")
  /\ next' = IF AtLast THEN 1 ELSE next + 1
  /\ UNCHANGED <<turn, spent, atStart, batch, skipped, results, issued, stops, history>>

-----------------------------------------------------------------------------
(* The model answers with a text, and the turn ends. *)

AnswerText ==
  /\ pc = "asking"
  /\ LET c == Said(ctx, Message("text", {})) IN
     \/ Publish(c, c, "spoken")
     \/ ctx' = c /\ pc' = "spoken" /\ UNCHANGED <<stored, errors>>   \* an empty text
  /\ fresh' = {}
  /\ UNCHANGED <<turn, spent, atStart, work, issued, stops, shows, ran>>

\* Bug: the answer does not expire the skills of the turn.
BugFinalize ==
  /\ pc \in {"spoken", "finalize"}
  /\ Publish(ctx, ctx, "idle")
  /\ UNCHANGED <<turn, spent, atStart, work, issued, stops, history>>

\* turn_completed
Finalize ==
  /\ pc \in {"spoken", "finalize"}
  /\ LET c == IF pc = "spoken" THEN Expired(ctx, {}) ELSE ctx IN Publish(c, c, "idle")
  /\ UNCHANGED <<turn, spent, atStart, work, issued, stops, history>>

\* turn_error
Fail ==
  /\ pc = "failing"
  /\ stored' = Compacted(ctx)
  /\ pc' = "idle"
  /\ UNCHANGED <<ctx, turn, spent, atStart, work, issued, stops, errors, history>>

\* The task is cancelled, or the process dies, or turn_error cannot be saved.
Stop ==
  /\ pc # "idle" /\ stops < MaxStops
  /\ stops' = stops + 1
  /\ pc' = "idle"
  /\ UNCHANGED <<stored, ctx, turn, spent, atStart, work, issued, errors, history>>

Next ==
  \/ StartTurn \/ Iterate \/ Limit \/ Prune \/ Raise
  \/ \E b \in Batches : AnswerCalls(b)
  \/ OpenCall
  \/ \E i \in DOMAIN batch : Run(i)
  \/ CloseCall
  \/ AnswerText \/ Finalize \/ Fail \/ Stop

Spec == Init /\ [][Next]_vars

-----------------------------------------------------------------------------
(* Properties *)

\* Some turn was stopped, or something raised in it.
Interrupted == stops + errors > 0

\* The model is called with the system prompt in front, once, showing the active
\* skills of this instant as far as the budget goes (loop.py:411-415, state.py:42-43).
PromptLeads ==
  pc = "asking" =>
    /\ ctx.messages[1] = Message("prompt", InBudget(ctx))
    /\ \A i \in DOMAIN ctx.messages : ctx.messages[i].kind = "prompt" => i = 1

\* The model sees the notes as they are now, once; only in the iteration that
\* prunes the context may they be missing (loop.py:417-419).
NotesShown ==
  LET at == ScratchpadAt(ctx.messages) IN
  /\ pc \in {"pruning", "asking"} =>
       /\ Cardinality(at) <= 1
       /\ \A i \in at : ctx.messages[i].of = {ctx.notes}
  /\ pc = "pruning" /\ ctx.notes > 0 => at # {}

\* What the model is sent is the context of this instant: the prompt leads with the
\* active skills, and the notes are the present ones, as long as no save has cut off
\* the beginning of the context (conversation_store.py:292).
ContextShown == ~ctx.cut => PromptLeads /\ NotesShown

\* What a chat API demands of its input (loop.py:450, 473-479, 539-556; pruning
\* must not cut between them): whatever stopped earlier turns, no result is sent
\* without its call before it; and the results of one message's calls follow it at
\* once, one for each call, unless a turn was interrupted: it leaves calls without
\* results for good.  A context whose beginning a save cut off may break this.
CallsAnswered ==
  LET m == ctx.messages IN
  pc = "asking" /\ ~ctx.cut =>
    /\ \A j \in DOMAIN m : m[j].kind = "result" =>
         \E i \in 1 .. j - 1 : m[i].kind = "calls" /\ m[j].of \subseteq m[i].of
    /\ \A i \in DOMAIN m : m[i].kind = "calls" /\ ~Interrupted =>
         LET after == SubSeq(m, i + 1, Min({Len(m), i + Cardinality(m[i].of)}))
         IN /\ \A j \in DOMAIN after : after[j].kind = "result"
            /\ {after[j].of : j \in DOMAIN after} = {{id} : id \in m[i].of}

\* A skill that use_skill activated is active at the next model call, unless it was
\* active already when the iteration began (loop.py:394-403, 509, 581); a one_turn
\* skill is shown to one model call per activation at most (prompt.py:114-128), across
\* turns too; and a skill that was shown is shown as long as it stays active, whatever
\* skills come and go beside it (prompt.py:85-111, use_skill.py:72-111).  The last two
\* not when a turn is interrupted between a call and its save.  That an active skill is
\* shown at all is up to the budget.
SkillsShown ==
  /\ pc = "asking" => fresh \subseteq ctx.skills
  /\ ~Interrupted =>
       /\ \A s \in OneTurn : shows[s] <= 1
       /\ pc \notin {"idle", "failing"} =>
            \A s \in ctx.skills : shows[s] > 0 => s \in InBudget(ctx)

\* A turn runs at most one batch of parallel tools more than the limit allows
\* (loop.py:404-409, 520); exclusive tools are never counted (462-518).
LoopGuard == ran < MaxToolCalls + Max({Len(b) : b \in Batches})

\* When a turn has ended by itself, none of its calls is left as started
\* (loop.py:524-579).
CallsClosed == pc = "idle" /\ ~Interrupted => \A id \in Ids : stored.calls[id] # "started"

\* A user's message that is in the stored context leaves it for a summary that tells
\* of it, however often a turn prunes and saves (pruning.py:33-38, 68-95), unless a
\* save cuts it off.  What a summary told may be lost by the next one.
NothingForgotten ==
  [][~stored.cut /\ ~stored'.cut =>
       Users(stored.messages) \subseteq Covered(stored'.messages)]_vars

=============================================================================
