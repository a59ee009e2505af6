--------------------------- MODULE MCListSession ---------------------------
(* ListSession on six dates in two months; the session can stand on the    *)
(* four inner ones, the outer two are the ends of the range of dates.      *)
EXTENDS ListSession

MCDates == 0 .. 5
MCMonthOf(d) == IF d < 3 THEN 1 ELSE 2
=============================================================================
