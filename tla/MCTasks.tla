------------------------------ MODULE MCTasks ------------------------------
(* Two tasks and a driver in a few frames, tables of twelve entries. *)
EXTENDS Tasks

MCBootFrames == 0 .. 11
MCTmpPage == <<0, 0, 0, 11>>
MCMmapPages == {<<1, 0, 0, 0>>, <<1, 0, 0, 1>>}
=============================================================================
