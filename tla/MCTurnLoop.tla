----------------------------- MODULE MCTurnLoop -----------------------------
(* Small instances of TurnLoop. *)
EXTENDS TurnLoop

CONSTANTS s1, s2

Does(d, s) == [does |-> d, skill |-> s]

\* One call, two at a time, an exclusive one among others; skills that come and
\* go, one or two in a batch.
ToolBatches == {<<Does("note", s1)>>,
                <<Does("other", s1), Does("note", s1)>>,
                <<Does("other", s1), Does("exclusive", s1)>>}

SkillBatches == {<<Does("activate", s1)>>,
                 <<Does("activate", s1), Does("activate", s2)>>,
                 <<Does("deactivate", s1), Does("activate", s1)>>,
                 <<Does("exclusive", s1), Does("activate", s2)>>}

\* Each skill fits the budget of two alone, and not behind the other.
Sizes == (s1 :> 1) @@ (s2 :> 2)

AllBatches == ToolBatches \cup SkillBatches

=============================================================================
