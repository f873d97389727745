------------------------- MODULE MCConversationTurn ------------------------
(***************************************************************************)
(* Plans of up to two steps, two turns with a session of one: small        *)
(* talk, a question, a compound request, a tool, a heavy request and one   *)
(* that refers to what was said before.                                    *)
(***************************************************************************)
EXTENDS ConversationTurn

TwoSteps == {1, 2}
NoUnknown == {}

Some == {{"reasoning", "memory", "internet", "tool"}, {"memory"}, {}}
Backed == {"reasoning", "memory", "tool"}

Texts == {Empty, {"answer"}, {"claim"}, {"marker"}, {"echo", "artifact"}}

Seg(label, confidence) == [label |-> label, confidence |-> confidence]

Say(heard, compound, segs, words, refers) ==
    [heard |-> heard, compound |-> compound, segments |-> segs, words |-> words, refers |-> refers]

Sayings ==
    {Say({"greeting", "thanks"}, FALSE, <<Seg("greeting", 95)>>, {}, FALSE),
     Say({}, FALSE, <<Seg("knowledge_question", 80)>>, {}, FALSE),
     Say({}, TRUE, <<Seg("current_info", 80), Seg("coding", 90)>>, {"browser"}, FALSE),
     Say({}, FALSE, <<Seg("tool", 90)>>, {}, FALSE),
     Say({}, FALSE, <<Seg("follow_up", 60)>>, {}, TRUE)}

Both == BOOLEAN
Low == {40, 90}
High == {70}
=============================================================================
