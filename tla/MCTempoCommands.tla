--------------------------- MODULE MCTempoCommands --------------------------
(* TempoCommands on a month of three worklogs, two of them on the date and *)
(* all on one issue or another, of which Tempo returns one per page.       *)
EXTENDS TempoCommands

MCIssueOf(w) == IF w = 3 THEN 2 ELSE 1
MCOrder == <<1, 2, 3>>
MCBatches == {<<>>, <<1, 2>>, <<2, 2>>}
=============================================================================
