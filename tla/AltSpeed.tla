------------------------------- MODULE AltSpeed -------------------------------
(***************************************************************************)
(* The fleet-wide rate and its alternative (engine/altspeed.go,            *)
(* ratelimit.go): a weekly window decides every so often which of the two  *)
(* is in force; users switch it by hand and change the normal rate.  Every *)
(* call reads under the lock and sets the limiter after it.                *)
(***************************************************************************)
EXTENDS Naturals, FiniteSets

CONSTANTS WeekDays,      \* 7
          DayLength,     \* units of time in a day
          NormalRates, AltRate,
          Caller,        \* bound: calls under way at once; Schedule is StartAltSpeedSchedule's
          ScheduleLoop,
          MaxSwitches,   \* bound: what users call
          NoCall

ASSUME AltSpeedAssumption == {WeekDays, DayLength} \subseteq Nat \ {0} /\ ScheduleLoop \in Caller /\ AltRate \notin NormalRates

VARIABLES
    window,     \* Defaults.AltSchedule: days, start and end
    clock,      \* time of the week
    altActive,  \* altSpeedActive
    normal,     \* normalDownBps
    live,       \* the limiter's rate
    calling,    \* each caller: the rate it is about to set
    switches,   \* counter for the bound
    dueCheck    \* the loop has not looked since the clock moved

altSpeedVars == <<window, clock, altActive, normal, live, calling, switches, dueCheck>>

Day(t) == t \div DayLength
TimeOfDay(t) == t % DayLength

\* Schedule.active.  Mutant: the small hours belong to their own day.
ActiveToday(w, t) ==
    IF w.start = w.end THEN FALSE
    ELSE IF w.end > w.start THEN Day(t) \in w.days /\ TimeOfDay(t) >= w.start /\ TimeOfDay(t) < w.end
    ELSE Day(t) \in w.days /\ (TimeOfDay(t) >= w.start \/ TimeOfDay(t) < w.end)
Active(w, t) ==
    IF w.start = w.end THEN FALSE
    ELSE IF w.end > w.start THEN Day(t) \in w.days /\ TimeOfDay(t) >= w.start /\ TimeOfDay(t) < w.end
    ELSE \/ TimeOfDay(t) >= w.start /\ Day(t) \in w.days
         \/ TimeOfDay(t) < w.start /\ TimeOfDay(t) < w.end /\ (Day(t) + WeekDays - 1) % WeekDays \in w.days

\* setAltSpeed, under the lock and after it.
BeginAlt(c, active) ==
    /\ calling[c] = NoCall
    /\ calling' = [calling EXCEPT ![c] = IF active THEN AltRate ELSE normal]
    /\ altActive' = active
\* applyAltSpeed, on the schedule's tick.
ApplyAltSpeed ==
    /\ BeginAlt(ScheduleLoop, Active(window, clock)) /\ dueCheck' = FALSE
    /\ UNCHANGED <<window, clock, normal, live, switches>>
Switched == switches < MaxSwitches /\ switches' = switches + 1
SetAltSpeedEnabled(c, on) ==
    /\ Switched /\ c # ScheduleLoop /\ BeginAlt(c, on)
    /\ UNCHANGED <<window, clock, normal, live, dueCheck>>
SetGlobalRateLimit(c, r) ==
    /\ Switched /\ c # ScheduleLoop /\ calling[c] = NoCall
    /\ normal' = r /\ calling' = [calling EXCEPT ![c] = r]
    /\ UNCHANGED <<window, clock, altActive, live, dueCheck>>
LimiterSet(c) ==
    /\ calling[c] # NoCall
    /\ live' = calling[c] /\ calling' = [calling EXCEPT ![c] = NoCall]
    /\ UNCHANGED <<window, clock, altActive, normal, switches, dueCheck>>

\* The clock moves once the loop has looked: it ticks more often than windows open.
ClockMoves ==
    /\ ~dueCheck /\ calling[ScheduleLoop] = NoCall
    /\ clock' = (clock + 1) % (WeekDays * DayLength) /\ dueCheck' = TRUE
    /\ UNCHANGED <<window, altActive, normal, live, calling, switches>>

AltSpeedInit ==
    /\ window \in [days : SUBSET (0..WeekDays - 1), start : 0..DayLength - 1, end : 0..DayLength - 1]
    /\ clock = 0 /\ altActive = FALSE /\ normal \in NormalRates /\ live = normal
    /\ calling = [c \in Caller |-> NoCall] /\ switches = 0 /\ dueCheck = TRUE
AltSpeedNext ==
    \/ ApplyAltSpeed \/ ClockMoves
    \/ \E c \in Caller : LimiterSet(c) \/ (\E on \in BOOLEAN : SetAltSpeedEnabled(c, on))
                                       \/ \E r \in NormalRates : SetGlobalRateLimit(c, r)
AltSpeedFairness == WF_altSpeedVars(ApplyAltSpeed) /\ \A c \in Caller : WF_altSpeedVars(LimiterSet(c))
AltSpeedSpec == AltSpeedInit /\ [][AltSpeedNext]_altSpeedVars /\ AltSpeedFairness

-----------------------------------------------------------------------------
(* Properties *)

(***************************************************************************)
(* A window is what it says: every day it names it opens at its start, and *)
(* stays open until its end, the next day where it crosses midnight and    *)
(* the next week where it crosses that.                                    *)
(***************************************************************************)
WindowIsOpen == Active(window, clock) <=>
    \E d \in window.days : \E k \in 0..DayLength - 1 :
        /\ k < (window.end + DayLength - window.start) % DayLength
        /\ clock = (d * DayLength + window.start + k) % (WeekDays * DayLength)

\* "Records it so AltSpeedEnabled reports what's actually in effect."
Agrees == live = IF altActive THEN AltRate ELSE normal
AltReportsEffect == (\A c \in Caller : calling[c] = NoCall) => Agrees

\* "The schedule's own next tick re-asserts whatever it thinks should be true":
\* whatever users did and however calls overlap, the rate is the right one in the end.
RateIsReasserted == <>[](\A c \in Caller \ {ScheduleLoop} : calling[c] = NoCall)
                       => []<>(Agrees /\ altActive = Active(window, clock))

=============================================================================
