----------------------------- MODULE ServerLoops -----------------------------
(***************************************************************************)
(* Two of the background loops that server.rs spawns at boot: the nightly  *)
(* restart pass with its date marker, and the sampler with its hourly      *)
(* roll-up and pruning (the third, the daily backup, is in Backups).       *)
(*                                                                         *)
(* The sampler's interval is a few units of time, so that the clock moves  *)
(* on, and an hour may end, while a tick is at work.  An interval fires at *)
(* once at boot and then makes up for the ticks it missed; nothing but the *)
(* database survives a restart of the server.                              *)
(***************************************************************************)
EXTENDS Naturals, FiniteSets

CONSTANTS
    Apps,        \* app ids
    Server,      \* the scope of the host's own samples
    Interval,    \* units of time between sampler ticks: 60 s in the code
    Ticks,       \* sampler ticks per hour: 60 in the code
    Hours,       \* hours per day: 24
    NightHour,   \* the hour of the nightly pass: 3
    KeepSamples, \* hours before samples are pruned: 24
    KeepHourly,  \* hours before roll-ups are pruned: 30 days
    MaxTime,     \* bound on the clock
    MaxEvents    \* bound on crashes, failing calls, late ticks and app changes

ASSUME LoopBounds ==
    /\ {Interval, Ticks, Hours, KeepSamples, KeepHourly, MaxTime} \subseteq Nat \ {0}
    /\ NightHour \in 0..(Hours - 1) /\ MaxEvents \in Nat /\ KeepSamples >= 2
ASSUME ServerIsNoApp == Server \notin Apps

VARIABLES
    now,       \* the clock
    apps,      \* the rows of apps: gone, or what Docker says of the container
    up,        \* the server runs
    night,     \* the nightly loop
    marker,    \* last_nightly_restart_date, NoDay when never set
    meter,     \* the sampler loop
    samples,   \* metric_sample: pairs of time and scope
    hourly,    \* metric_hourly: pairs of hour and scope
    booted,    \* history: when the server was booted
    steady,    \* history: no tick began late since, and no call failed
    sampled,   \* history: hours and scopes that were sampled since the boot
    restarts,  \* history: how often each app was restarted on each date
    excused,   \* history: passes of each date whose end could not be recorded
    events

host == <<now, apps>>
loops == <<up, night, meter>>
tables == <<marker, samples, hourly>>
history == <<booted, steady, sampled, restarts, excused>>
vars == <<host, loops, tables, history, events>>

HourTime == Ticks * Interval
Hour(t) == t \div HourTime
Day(t) == Hour(t) \div Hours
Days == 0..Day(MaxTime)
NoDay == Day(MaxTime) + 1
Scopes == Apps \cup {Server}

NightOff == [pc |-> "idle", due |-> 0, date |-> NoDay, todo |-> {}]
MeterOff == [pc |-> "idle", due |-> 0, count |-> 0, ts |-> 0, todo |-> {}]

Init ==
    /\ now = 0 /\ apps \in [Apps -> {"gone", "running", "stopped"}]
    /\ up = FALSE /\ night = NightOff /\ meter = MeterOff
    /\ marker = NoDay /\ samples = {} /\ hourly = {}
    /\ booted = 0 /\ steady = TRUE /\ sampled = {}
    /\ restarts = [d \in Days |-> [a \in Apps |-> 0]]
    /\ excused = [d \in Days |-> 0] /\ events = 0

-----------------------------------------------------------------------------

Event == events < MaxEvents /\ events' = events + 1
Ok == UNCHANGED <<events, steady>>
Fails == Event /\ steady' = FALSE
Rows == {a \in Apps : apps[a] # "gone"}

\* Both intervals fire at once; the counters and caches are the task's own.
Boot ==
    /\ ~up /\ up' = TRUE
    /\ night' = [NightOff EXCEPT !.due = 1]
    /\ meter' = [MeterOff EXCEPT !.due = 1]
    /\ booted' = now /\ steady' = TRUE /\ sampled' = {}
    /\ UNCHANGED <<host, tables, restarts, excused, events>>

Crash ==
    /\ up /\ Event /\ up' = FALSE
    /\ night' = NightOff /\ meter' = MeterOff
    /\ excused' = IF night.pc = "idle" THEN excused
                  ELSE [excused EXCEPT ![night.date] = @ + 1]
    /\ UNCHANGED <<host, tables, booted, steady, sampled, restarts>>

Busy == up /\ ({night.due, meter.due} # {0} \/ {night.pc, meter.pc} # {"idle"})
Late == up /\ {night.due, meter.due} # {0}

\* Time goes on whatever the loops are at; a tick that is due and does not
\* begin at once is an event.
Pass ==
    /\ now < MaxTime /\ now' = now + 1
    /\ IF Late THEN Fails ELSE Ok
    /\ IF up THEN LET fires(every) == IF (now + 1 - booted) % every = 0 THEN 1 ELSE 0
                  IN /\ meter' = [meter EXCEPT !.due = @ + fires(Interval)]
                     /\ night' = [night EXCEPT !.due = @ + fires(HourTime)]
             ELSE UNCHANGED <<meter, night>>
    /\ UNCHANGED <<apps, up, tables, booted, sampled, restarts, excused>>

\* Apps are created, deleted, started and stopped at any moment.
ChangeApp ==
    /\ Event /\ \E a \in Apps, s \in {"gone", "running", "stopped"} :
        s # apps[a] /\ apps' = [apps EXCEPT ![a] = s]
    /\ UNCHANGED <<now, loops, tables, history>>

-----------------------------------------------------------------------------
(* The nightly loop *)

\* Mutated form of ShouldRunNow: a server that has never run a pass waits.
ShouldRunNowMarked(last) ==
    Hour(now) % Hours = NightHour /\ last # Day(now) /\ last # NoDay

\* should_run_now.
ShouldRunNow(last) == Hour(now) % Hours = NightHour /\ last # Day(now)

\* The tick: a marker that cannot be read counts as none.
NightTick ==
    /\ up /\ night.pc = "idle" /\ night.due > 0
    /\ \E last \in {marker, NoDay} :
        /\ IF last = marker THEN Ok ELSE Fails
        /\ night' = IF ShouldRunNow(last)
                    THEN [night EXCEPT !.due = @ - 1, !.pc = "list", !.date = Day(now)]
                    ELSE [night EXCEPT !.due = @ - 1]
        /\ excused' = IF last # marker /\ ShouldRunNow(last) /\ marker = Day(now)
                      THEN [excused EXCEPT ![Day(now)] = @ + 1] ELSE excused
    /\ UNCHANGED <<host, up, meter, tables, booted, sampled, restarts>>

\* restart_running_apps: an error leaves nothing to restart, and the date is
\* marked all the same.
NightList ==
    /\ up /\ night.pc = "list"
    /\ \/ night' = [night EXCEPT !.pc = "pass", !.todo = Rows] /\ Ok
       \/ night' = [night EXCEPT !.pc = "mark"] /\ Fails
    /\ UNCHANGED <<host, up, meter, tables, booted, sampled, restarts, excused>>

\* restart_one_app, which AppLifecycle has in full: a running app is restarted,
\* others are skipped, and a failure does not end the pass.
NightApp ==
    /\ up /\ night.pc = "pass" /\ night.todo # {}
    /\ \E a \in night.todo :
        /\ night' = [night EXCEPT !.todo = @ \ {a}]
        /\ \/ apps[a] # "running" /\ UNCHANGED restarts
           \/ apps[a] = "running" /\ restarts' = [restarts EXCEPT ![night.date][a] = @ + 1]
    /\ Ok /\ UNCHANGED <<host, up, meter, tables, booted, sampled, excused>>

\* Mutated form of NightMark: the date is not recorded.
NightMarkNot ==
    /\ up /\ night.pc \in {"pass", "mark"} /\ night.todo = {}
    /\ night' = [night EXCEPT !.pc = "idle"]
    /\ Ok /\ UNCHANGED <<host, up, meter, tables, booted, sampled, restarts, excused>>

\* set_last_nightly_restart_date; a failure is only logged.
NightMark ==
    /\ up /\ night.pc \in {"pass", "mark"} /\ night.todo = {}
    /\ night' = [night EXCEPT !.pc = "idle"]
    /\ \/ marker' = night.date /\ Ok /\ UNCHANGED excused
       \/ Fails /\ excused' = [excused EXCEPT ![night.date] = @ + 1] /\ UNCHANGED marker
    /\ UNCHANGED <<host, up, meter, samples, hourly, booted, sampled, restarts>>

-----------------------------------------------------------------------------
(* The sampler *)

\* insert_sample; a failure is only logged.
Insert(ts, scope) ==
    \/ /\ samples' = samples \cup {<<ts, scope>>}
       /\ sampled' = sampled \cup {<<Hour(ts), scope>>} /\ Ok
    \/ Fails /\ UNCHANGED <<samples, sampled>>

\* run_tick: the time of all its samples, and sample_server.
MeterTick ==
    /\ up /\ meter.pc = "idle" /\ meter.due > 0
    /\ meter' = [meter EXCEPT !.due = @ - 1, !.pc = "list", !.ts = now]
    /\ Insert(now, Server)
    /\ UNCHANGED <<host, up, night, marker, hourly, booted, restarts, excused>>

\* The apps to sample.
MeterList ==
    /\ up /\ meter.pc = "list"
    /\ \/ meter' = [meter EXCEPT !.pc = "apps", !.todo = Rows] /\ Ok
       \/ meter' = [meter EXCEPT !.pc = "roll"] /\ Fails
    /\ UNCHANGED <<host, up, night, tables, booted, sampled, restarts, excused>>

\* sample_app: a running app only.
MeterApp ==
    /\ up /\ meter.pc = "apps"
    /\ \E a \in meter.todo :
        /\ meter' = [meter EXCEPT !.todo = @ \ {a}]
        /\ IF apps[a] = "running" THEN Insert(meter.ts, a)
           ELSE Ok /\ UNCHANGED <<samples, sampled>>
    /\ UNCHANGED <<host, up, night, marker, hourly, booted, restarts, excused>>

\* Mutated form of RollUpHour: the hour that is still running.
RollUpHourRunning == {x \in {<<Hour(s[1]), s[2]>> : s \in samples} : x[1] = Hour(now)}

\* rollup_hour of the most recently completed hour, by the clock as it is now
\* and not as it was when the tick began: one row for every scope.
RollUpHour == {x \in {<<Hour(s[1]), s[2]>> : s \in samples} : x[1] + 1 = Hour(now)}

\* Mutated form of Due: the interval is taken for 30 s.
DueTwoHourly == meter.count > 0 /\ meter.count % (2 * Ticks) = 0

\* Every hour of ticks since the boot.
Due == meter.count > 0 /\ meter.count % Ticks = 0

\* rollup_and_prune reads the clock once.  An error ends the roll-up with the
\* scopes done so far.
MeterRoll ==
    /\ up /\ meter.pc \in {"apps", "roll"} /\ meter.todo = {}
    /\ IF Due THEN /\ meter' = [meter EXCEPT !.pc = "prune", !.ts = now]
                   /\ \/ hourly' = hourly \cup RollUpHour /\ Ok
                      \/ Fails /\ \E done \in SUBSET RollUpHour : hourly' = hourly \cup done
              ELSE /\ meter' = [meter EXCEPT !.pc = "idle", !.count = @ + 1]
                   /\ Ok /\ UNCHANGED hourly
    /\ UNCHANGED <<host, up, night, marker, samples, booted, sampled, restarts, excused>>

MeterPrune ==
    /\ up /\ meter.pc = "prune"
    /\ \/ samples' = {s \in samples : s[1] + KeepSamples * HourTime >= meter.ts} /\ Ok
       \/ Fails /\ UNCHANGED samples
    /\ hourly' = {x \in hourly : (x[1] + KeepHourly) * HourTime >= meter.ts}
    /\ meter' = [meter EXCEPT !.pc = "idle", !.count = @ + 1]
    /\ UNCHANGED <<host, up, night, marker, booted, sampled, restarts, excused>>

-----------------------------------------------------------------------------

NightLoop == NightTick \/ NightList \/ NightApp \/ NightMark
MeterLoop == MeterTick \/ MeterList \/ MeterApp \/ MeterRoll \/ MeterPrune
Next == Boot \/ Crash \/ Pass \/ ChangeApp \/ NightLoop \/ MeterLoop

Spec == Init /\ [][Next]_vars

-----------------------------------------------------------------------------
(* Properties *)

\* A rolled-up hour is complete: no sample of that hour or of an earlier one is
\* written after the roll-up, not after a restart, a slow tick or a burst of
\* late ticks either (run_tick stamps its samples once; rollup_and_prune takes
\* the last completed hour).
RolledIsFinal ==
    [][\A x \in samples' \ samples : \A r \in hourly : r[2] = x[2] => r[1] < Hour(x[1])]_vars

\* The ticks that roll up begin at the boot's place in the hour: more than an
\* interval before its end.
TicksWellInside == (booted % HourTime) + Interval < HourTime

\* As long as the server runs without a failing call or a late tick, every hour
\* it sampled is rolled up before the hour after it is over and pruning takes
\* none before, unless it was booted in the last interval of an hour: there a
\* roll-up may find the next hour begun, and an hour is left out.
SteadyRollsAll ==
    up /\ steady /\ ~Busy /\ TicksWellInside =>
        \A x \in sampled :
            x[1] + 2 <= Hour(now) /\ (x[1] + KeepHourly) * HourTime >= now => x \in hourly

\* An app is restarted at most once on a date, apart from passes whose end a
\* crash or a failing call kept from being recorded or read.
OnePassUnlessUnmarked ==
    \A d \in Days, a \in Apps : restarts[d][a] <= 1 + excused[d]

\* A server that was up before the night hour and had no late tick or failing
\* call has run the pass when the hour is over, whatever the minute of its boot.
NightNotMissed ==
    up /\ steady /\ ~Busy =>
        \A d \in Days :
            LET night0 == d * Hours + NightHour
            IN booted <= night0 * HourTime /\ Hour(now) > night0 => marker # NoDay /\ marker >= d
=============================================================================
