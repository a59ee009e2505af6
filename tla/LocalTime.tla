----------------------------- MODULE LocalTime -----------------------------
(***************************************************************************)
(* Local time in a zone with one change of its offset, [at, before,       *)
(* after]: at the instant `at` the clock goes from showing instant +      *)
(* before to showing instant + after.  It skips local times when it goes   *)
(* forward (a gap) and shows some twice when it goes back.  A date and a   *)
(* clock make the local time date * day + clock.                           *)
(***************************************************************************)
EXTENDS Integers, FiniteSetsExt

\* What the clock shows at an instant.
Wall(zone, instant) ==
  instant + (IF instant < zone.at THEN zone.before ELSE zone.after)

\* The instants at which it shows that local time: none, one or two.
Instants(zone, local) ==
  {i \in {local - zone.before, local - zone.after} : Wall(zone, i) = local}

Shown(zone, local) == Instants(zone, local) # {}

\* Drag's own choice: the earlier of two; a skipped time is moved forward by
\* the width of the gap.
ResolveLocal(zone, local) ==
  IF Shown(zone, local) THEN Min(Instants(zone, local)) ELSE local - zone.before

=============================================================================
