-------------------------- MODULE MCKnowledgeEngine -------------------------
(***************************************************************************)
(* Two askers and two time-sensitive questions with room for one in the    *)
(* cache, and a question that is answered from memory.                     *)
(***************************************************************************)
EXTENDS KnowledgeEngine

CONSTANTS a1, a2, weather, news, name

TwoAskers  == {a1, a2}
Everything == {weather, news, name}
Live       == {weather, news}
Own        == {name}
=============================================================================
