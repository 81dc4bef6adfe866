----------------------- MODULE MCSubagentCoordinator ------------------------
(* Small instances of SubagentCoordinator for TLC. *)
EXTENDS SubagentRefinement, TLC

CONSTANTS i1, i2, i3, c1, c2, s1, s2, p1, w1, l1

Base == [parent |-> s1, prompt |-> p1, run |-> NoRun, loop |-> NoLoop, background |-> FALSE,
         toCompletion |-> FALSE, surface |-> TRUE, defBackground |-> FALSE]

Foreground == Base
Background == [Base EXCEPT !.background = TRUE]
Awaited == [Base EXCEPT !.toCompletion = TRUE, !.surface = FALSE]
Workflow == [Base EXCEPT !.run = w1, !.toCompletion = TRUE]
OtherWorkflow == [Workflow EXCEPT !.parent = s2]
Declared == [Base EXCEPT !.defBackground = TRUE, !.loop = l1]

TaskRequests == {Foreground, Background}
\* A child's own tool calls spawn from the child's session.
WorkflowRequests == {Workflow, OtherWorkflow,
                     [Base EXCEPT !.parent = i1], [Base EXCEPT !.parent = i2]}
SilentRequests == {Background, Awaited}
AllRequests == {Foreground, Background, Awaited, Workflow, Declared}
OneScope == Sessions \X Prompts

IdSymmetry == Permutations(Ids)
=============================================================================
