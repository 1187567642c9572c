----------------------------- MODULE MCFarmClock -----------------------------
(***************************************************************************)
(* A slow crop, a festival crop that does not pay, and a quick one.        *)
(***************************************************************************)
EXTENDS FarmClock

MCSeed   == <<2, 2, 1>>
MCSell   == <<4, 1, 2>>
MCGrowth == <<2, 1, 1>>
MCCrowPrice == <<2>>
MCDropCoins == <<1>>
MCHarvestPrice == [n \in 0 .. NPlots |-> n]

\* A farm whose one sowing plot got a festival seed on a festival day.
SownInSeason(day) ==
    [plots     |-> [p \in Plots |-> [EmptyPlot EXCEPT !.crop = IF p = 1 THEN 2 ELSE NoCrop,
                                                     !.planted = IF p = 1 THEN day ELSE 0,
                                                     !.autoHarvest = p = 1, !.autoSow = p = 1]],
     coins     |-> 3 * MCSeed[2], updated |-> day, eventEnds |-> 0, last |-> 2,
     pouches   |-> <<>>, clock |-> 0]

\* The absence from `day` to `to`, looked in on at the moment `cut` or not.
Whole(day, to)    == Advanced(SownInSeason(day), to, FALSE)
Cut(day, cut, to) == Advanced(Advanced(SownInSeason(day), cut, FALSE).farm, to, FALSE)

\* An observation on Advance's season check (advance.go:175), which takes the
\* season at the END of the call for every sowing in it.  The design document
\* (docs/tui/05-seasonal-themes.md, "Auto-sow tick") has a plot come up empty
\* after its last in-season cycle.  A night that ends in the next festival keeps
\* the plot in festival seed through the days between, where it comes up empty if
\* somebody looks in on one of those days ...
ASSUME SeasonIsTakenAtTheEnd ==
    /\ 0 \in FestivalDays /\ 2 \notin FestivalDays
    /\ Whole(0, 3).farm.plots[1].crop \in Festival
    /\ Cut(0, 2, 3).farm.plots[1].crop = NoCrop
\* ... and one that ends after the festival loses the cycles that were in it,
\* which a visit on its last day keeps.
ASSUME SeasonLosesItsLastCycles ==
    /\ Whole(3, 5).gathered[1] = 1 /\ Whole(3, 5).farm.plots[1].crop = NoCrop
    /\ Advanced(SownInSeason(3), 4, FALSE).gathered[1] + Cut(3, 4, 5).gathered[1] = 2
=============================================================================
