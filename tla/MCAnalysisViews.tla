--------------------------- MODULE MCAnalysisViews ---------------------------
(***************************************************************************)
(* AnalysisViews on traces of twenty minutes in days of twelve.            *)
(***************************************************************************)
EXTENDS AnalysisViews

MCFields == <<"motion", "door", "lamp">>
LampOn == Statement("lamp", TRUE)
LampOff == Statement("lamp", FALSE)
Dark == [v \in {"motion", "door", "lamp"} |-> FALSE]

\* A trace of events <<time, what, external>>
TraceOf(events, end) ==
    LET pre[i \in 1 .. Len(events)] ==
            IF i = 1 THEN Dark
            ELSE [pre[i - 1] EXCEPT ![events[i - 1][2].var] = events[i - 1][2].val]
        log == [i \in DOMAIN events |-> Entry(events[i][1], events[i][2], events[i][3], pre[i])]
    IN  [init |-> Dark, log |-> log, start |-> 0, end |-> end]

MotionRule == Tap(Event("motion", TRUE), <<>>, LampOn)
CarefulRule == Tap(Event("motion", TRUE), <<Statement("door", TRUE)>>, LampOn)
CalmRule == Tap(Event("motion", TRUE), <<Statement("door", FALSE)>>, LampOn)
ClockRule == Tap(AtClock(3), <<>>, LampOn)
DoorRule == Tap(HeldFor("door", TRUE, 2), <<Statement("motion", FALSE)>>, LampOn)
OffRule == Tap(Event("motion", FALSE), <<Statement("door", TRUE)>>, LampOff)

\* Motion turns the lamp on twice; the users take it back once and use it by hand twice.
Evening == TraceOf(
    <<<<1, Event("motion", TRUE), TRUE>>, <<1, Event("lamp", TRUE), FALSE>>,
      <<2, Event("lamp", FALSE), TRUE>>, <<4, Event("motion", FALSE), TRUE>>,
      <<6, Event("door", TRUE), TRUE>>, <<7, Event("lamp", TRUE), TRUE>>,
      <<11, Event("lamp", FALSE), FALSE>>, <<13, Event("motion", TRUE), TRUE>>,
      <<13, Event("lamp", TRUE), FALSE>>, <<16, Event("lamp", FALSE), TRUE>>,
      <<18, Event("lamp", TRUE), TRUE>>>>, 20)
\* The lamp at a time of day, over midnight
Night == TraceOf(
    <<<<3, Event("lamp", TRUE), FALSE>>, <<4, Event("lamp", FALSE), TRUE>>,
      <<8, Event("door", TRUE), TRUE>>, <<10, Event("lamp", TRUE), TRUE>>,
      <<11, Event("motion", TRUE), TRUE>>, <<11, Event("motion", FALSE), TRUE>>,
      <<17, Event("door", FALSE), TRUE>>>>, 18)

MCScenes == {[trace |-> Evening, taps |-> <<>>],
             [trace |-> Evening, taps |-> <<MotionRule, OffRule>>],
             [trace |-> Evening, taps |-> <<CalmRule, CarefulRule>>],
             [trace |-> Night, taps |-> <<DoorRule, ClockRule>>]}
MCRelated == {[trig |-> {"motion", "door"}, timings |-> timings, cond |-> {"door"},
               rev |-> {"motion"}] : timings \in {{}, {<<"door", 2>>}}}
MCNewTaps == {CarefulRule}
MCFnTimes == <<18, 7, 6>>
MCRate == [fn |-> 30, revert |-> 50, remaining |-> 50]
=============================================================================
