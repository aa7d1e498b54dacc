------------------------------ MODULE MCSidebar ------------------------------
(* Sidebar for TLC: panes of two workspaces whose ids end alike, and three  *)
(* releases, whose numbers and text compare differently.                    *)
EXTENDS Sidebar

MCShownIds == <<<<"w", "1", ":", "p", "2">>, <<"w", "2", ":", "p", "2">>, <<"w", "1", ":", "p", "1", "2">>>>
MCTags == <<<<0, 9>>, <<0, 10>>, <<0, 10, 1>>>>
=============================================================================
