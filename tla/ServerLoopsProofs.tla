-------------------------- MODULE ServerLoopsProofs --------------------------
(***************************************************************************)
(* Proofs about ServerLoops, for every set of apps, every length of the    *)
(* interval, the hour and the day, any hour of the night and any number of *)
(* faults:                                                                 *)
(* first the sampler's roll-ups, then the nightly pass, then what both     *)
(* loops achieve as long as they keep up with the clock.                   *)
(***************************************************************************)
EXTENDS ServerLoops, TLAPS

Meter == [pc : {"idle", "list", "apps", "roll", "prune"}, due : Nat, count : Nat, ts : Nat,
          todo : SUBSET Apps]

TypeOK ==
    /\ now \in Nat /\ meter \in Meter
    /\ samples \subseteq Nat \X Scopes /\ hourly \subseteq Nat \X Scopes

Sampling == {"list", "apps", "roll"}

\* What is rolled up is over, and was over when the tick under way took its time.
RolledIsOver ==
    /\ \A r \in hourly : r[1] < Hour(now)
    /\ meter.pc \in Sampling => \A r \in hourly : r[1] < Hour(meter.ts)

Inv == TypeOK /\ RolledIsOver

\* RolledIsFinal of one step.
FinalStep == \A x \in samples' \ samples : \A r \in hourly : r[2] = x[2] => r[1] < Hour(x[1])

LEMMA TimesAre ==
    /\ Interval \in Nat \ {0} /\ Ticks \in Nat \ {0} /\ HourTime \in Nat \ {0}
    /\ Interval <= HourTime
<1>1. Interval \in Nat /\ Interval > 0 /\ Ticks \in Nat /\ Ticks > 0
  BY LoopBounds
<1>2. HourTime \in Nat /\ HourTime >= Interval
  BY <1>1, SMTT(30) DEF HourTime
<1>3. QED  BY <1>1, <1>2

LEMMA HourGrows == ASSUME NEW t \in Nat PROVE Hour(t) \in Nat /\ Hour(t) <= Hour(t + 1)
<1>1. HourTime \in Nat /\ HourTime > 0
  BY TimesAre
<1>2. QED
  BY <1>1, SMTT(30) DEF Hour

LEMMA InitInv == Init => Inv
BY DEF Init, Inv, TypeOK, RolledIsOver, MeterOff, Meter, Sampling

LEMMA Off == MeterOff \in Meter /\ [MeterOff EXCEPT !.due = 1] \in Meter
             /\ MeterOff.pc \notin Sampling /\ [MeterOff EXCEPT !.due = 1].pc \notin Sampling
BY DEF MeterOff, Meter, Sampling

LEMMA MeterNext ==
    ASSUME NEW m \in Meter
    PROVE  /\ \A t \in Nat : LET n == [m EXCEPT !.pc = "prune", !.ts = t]
                             IN n \in Meter /\ n.pc \notin Sampling
           /\ [m EXCEPT !.pc = "idle", !.count = @ + 1] \in Meter
           /\ [m EXCEPT !.pc = "idle", !.count = @ + 1].pc \notin Sampling
<1>1. m.count + 1 \in Nat
  BY DEF Meter
<1>2. \A t \in Nat : LET n == [m EXCEPT !.pc = "prune", !.ts = t]
                     IN n \in Meter /\ n.pc = "prune"
  BY DEF Meter
<1>3. /\ [m EXCEPT !.pc = "idle", !.count = @ + 1] \in Meter
      /\ [m EXCEPT !.pc = "idle", !.count = @ + 1].pc = "idle"
  BY <1>1 DEF Meter
<1>4. QED
  BY <1>2, <1>3 DEF Sampling

\* A step that leaves the clock and the tables alone keeps what is rolled up.
LEMMA TablesStay ==
    ASSUME Inv, UNCHANGED <<now, samples, hourly>>, meter' \in Meter,
           meter'.pc \in Sampling => meter.pc \in Sampling /\ meter'.ts = meter.ts
    PROVE  Inv' /\ FinalStep
BY DEF Inv, TypeOK, RolledIsOver, FinalStep

LEMMA Inserted ==
    ASSUME Inv, NEW ts \in Nat, NEW scope \in Scopes, Insert(ts, scope) \/ UNCHANGED samples,
           \A r \in hourly : r[1] < Hour(ts)
    PROVE  FinalStep /\ samples' \subseteq Nat \X Scopes
BY DEF Insert, FinalStep, Inv, TypeOK

LEMMA NextInv == Inv /\ [Next]_vars => Inv' /\ FinalStep
<1> SUFFICES ASSUME Inv, [Next]_vars PROVE Inv' /\ FinalStep
  OBVIOUS
<1> USE DEF host, loops, tables, history
<1>1. CASE Boot
  BY <1>1, Off, TablesStay DEF Boot
<1>2. CASE Crash
  BY <1>2, Off, TablesStay DEF Crash
<1>3. CASE Pass
  <2>1. now \in Nat /\ now' = now + 1 /\ UNCHANGED <<samples, hourly>>
    BY <1>3 DEF Pass, Inv, TypeOK
  <2>2. meter' = meter \/ \E n \in {0, 1} : meter' = [meter EXCEPT !.due = @ + n]
    BY <1>3 DEF Pass
  <2>3. meter' \in Meter /\ meter'.pc = meter.pc /\ meter'.ts = meter.ts
    BY <2>2 DEF Inv, TypeOK, Meter
  <2>4. \A r \in hourly : r[1] \in Nat /\ r[1] < Hour(now')
    BY <2>1, HourGrows DEF Inv, TypeOK, RolledIsOver
  <2>5. QED
    BY <2>1, <2>3, <2>4 DEF Inv, TypeOK, RolledIsOver, FinalStep
<1>4. CASE ChangeApp
  BY <1>4, TablesStay DEF ChangeApp, Inv, TypeOK
<1>5. CASE NightLoop
  BY <1>5, TablesStay
     DEF NightLoop, NightTick, NightList, NightApp, NightMark, Inv, TypeOK
<1>6. CASE MeterTick
  <2>1. now \in Nat /\ Server \in Scopes /\ UNCHANGED <<now, hourly>>
    BY <1>6 DEF MeterTick, Scopes, Inv, TypeOK
  <2>2. meter' \in Meter /\ meter'.pc = "list" /\ meter'.ts = now
    <3>1. /\ meter' = [meter EXCEPT !.due = @ - 1, !.pc = "list", !.ts = now]
          /\ meter \in Meter /\ now \in Nat /\ meter.due > 0
      BY <1>6 DEF MeterTick, Inv, TypeOK
    <3>2. meter.due \in Nat /\ meter.due - 1 \in Nat
      BY <3>1 DEF Meter
    <3>3. QED
      BY ONLY <3>1, <3>2 DEF Meter
  <2>3. FinalStep /\ samples' \subseteq Nat \X Scopes
    BY <1>6, <2>1, Inserted DEF MeterTick, Inv, RolledIsOver
  <2>4. QED
    BY <2>1, <2>2, <2>3 DEF Inv, TypeOK, RolledIsOver
<1>7. CASE MeterList
  <2>1. meter' \in Meter /\ meter'.ts = meter.ts
    BY <1>7 DEF MeterList, Rows, Inv, TypeOK, Meter
  <2>2. QED
    BY <1>7, <2>1, TablesStay DEF MeterList, Sampling
<1>8. CASE MeterApp
  <2>1. PICK a \in meter.todo :
            /\ meter' = [meter EXCEPT !.todo = @ \ {a}]
            /\ IF apps[a] = "running" THEN Insert(meter.ts, a)
               ELSE Ok /\ UNCHANGED <<samples, sampled>>
    BY <1>8 DEF MeterApp
  <2>2. a \in Scopes /\ a \in Apps /\ meter.ts \in Nat /\ UNCHANGED <<now, hourly>>
    BY <1>8 DEF MeterApp, Scopes, Inv, TypeOK, Meter
  <2>3. meter' \in Meter /\ meter'.pc = meter.pc /\ meter'.ts = meter.ts
    BY <2>1, <2>2 DEF Inv, TypeOK, Meter
  <2>4. \A r \in hourly : r[1] < Hour(meter.ts)
    BY <1>8 DEF MeterApp, Inv, RolledIsOver, Sampling
  <2>5. FinalStep /\ samples' \subseteq Nat \X Scopes
    BY <2>1, <2>2, <2>4, Inserted
  <2>6. QED
    BY <2>2, <2>3, <2>5 DEF Inv, TypeOK, RolledIsOver
<1>9. CASE MeterRoll
  <2>1. meter' \in Meter /\ meter'.pc \notin Sampling /\ UNCHANGED <<now, samples>>
    <3>1. \/ meter' = [meter EXCEPT !.pc = "prune", !.ts = now] /\ now \in Nat
          \/ meter' = [meter EXCEPT !.pc = "idle", !.count = @ + 1]
      BY <1>9 DEF MeterRoll, Inv, TypeOK
    <3>2. meter' \in Meter /\ meter'.pc \notin Sampling
      BY <3>1, MeterNext DEF Inv, TypeOK
    <3>3. QED
      BY <1>9, <3>2 DEF MeterRoll
  <2>2. \A x \in RollUpHour : x \in Nat \X Scopes /\ x[1] < Hour(now)
    <3>1. \A s \in samples : s[1] \in Nat /\ s[2] \in Scopes /\ Hour(s[1]) \in Nat
      BY HourGrows DEF Inv, TypeOK
    <3>2. Hour(now) \in Nat
      BY HourGrows DEF Inv, TypeOK
    <3>3. QED
      BY <3>1, <3>2 DEF RollUpHour
  <2>3. hourly' \subseteq hourly \cup RollUpHour
    BY <1>9 DEF MeterRoll
  <2>4. QED
    BY <2>1, <2>2, <2>3 DEF Inv, TypeOK, RolledIsOver, FinalStep
<1>10. CASE MeterPrune
  <2>1. meter' \in Meter /\ meter'.pc \notin Sampling /\ UNCHANGED now
    <3>1. meter' = [meter EXCEPT !.pc = "idle", !.count = @ + 1] /\ UNCHANGED now
      BY <1>10 DEF MeterPrune
    <3>2. QED
      BY <3>1, MeterNext DEF Inv, TypeOK
  <2>2. samples' \subseteq samples /\ hourly' \subseteq hourly
    BY <1>10 DEF MeterPrune
  <2>3. QED
    BY <2>1, <2>2 DEF Inv, TypeOK, RolledIsOver, FinalStep
<1>11. CASE UNCHANGED vars
  BY <1>11, TablesStay DEF vars, Inv, TypeOK
<1>12. QED
  BY <1>1, <1>2, <1>3, <1>4, <1>5, <1>6, <1>7, <1>8, <1>9, <1>10, <1>11 DEF Next, MeterLoop

(* A rolled-up hour is complete: no later sample belongs to it, for every      *)
(* interval, length of the hour and schedule of restarts and faults.           *)
THEOREM RolledHoursAreFinal == Spec => RolledIsFinal
<1>1. Inv /\ [Next]_vars => [FinalStep]_vars
  BY NextInv
<1>2. QED
  BY <1>1, InitInv, NextInv, PTL DEF Spec, RolledIsFinal, FinalStep

-----------------------------------------------------------------------------
(* The nightly loop *)

Night == [pc : {"idle", "list", "pass", "mark"}, due : Nat, date : Days \cup {NoDay},
          todo : SUBSET Apps]

NightTypeOK ==
    /\ now \in 0..MaxTime /\ night \in Night /\ marker \in Days \cup {NoDay}
    /\ restarts \in [Days -> [Apps -> Nat]] /\ excused \in [Days -> Nat]

\* What is left of a date's one pass and of the passes it is excused: an app
\* that the pass under way may still restart has one to come, and so has every
\* app on a date whose pass may still begin.
PassLeft(d, a) == restarts[d][a] <= excused[d]

PassInv ==
    /\ marker # NoDay => marker <= Day(now)
    /\ ~up => night.pc = "idle"
    /\ night.pc # "idle" => night.date \in Days /\ night.date <= Day(now)
    /\ OnePassUnlessUnmarked
    /\ \A d \in Days, a \in Apps :
        d >= Day(now) /\ d # (IF night.pc = "idle" THEN marker ELSE night.date) => PassLeft(d, a)
    /\ night.pc = "list" => \A a \in Apps : PassLeft(night.date, a)
    /\ night.pc = "pass" => \A a \in night.todo : PassLeft(night.date, a)

NightInv == NightTypeOK /\ PassInv

LEMMA DivMono ==
    ASSUME NEW a \in Nat, NEW b \in Nat, a <= b, NEW n \in Nat \ {0}
    PROVE  a \div n \in Nat /\ a \div n <= b \div n
BY SMTT(30)

LEMMA DayGrows ==
    ASSUME NEW t \in Nat, NEW u \in Nat, t <= u
    PROVE  Day(t) \in Nat /\ Day(t) <= Day(u)
<1>1. HourTime \in Nat \ {0} /\ Hours \in Nat \ {0}
  BY TimesAre, LoopBounds
<1>2. Hour(t) \in Nat /\ Hour(u) \in Nat /\ Hour(t) <= Hour(u)
  BY <1>1, DivMono DEF Hour
<1>3. QED  BY <1>1, <1>2, DivMono DEF Day

LEMMA DaysAre ==
    /\ Days \subseteq Nat /\ NoDay \in Nat /\ NoDay \notin Days
    /\ \A t \in 0..MaxTime : Day(t) \in Days
<1>1. MaxTime \in Nat
  BY LoopBounds
<1>2. Day(MaxTime) \in Nat
  BY <1>1, DayGrows
<1>3. \A t \in 0..MaxTime : Day(t) \in Nat /\ Day(t) <= Day(MaxTime)
  BY <1>1, DayGrows
<1>4. QED  BY <1>2, <1>3 DEF Days, NoDay

LEMMA InitNight == Init => NightInv
<1> SUFFICES ASSUME Init PROVE NightInv
  OBVIOUS
<1>1. night \in Night /\ night.pc = "idle"
  BY DEF Init, NightOff, Night
<1>2. now = 0 /\ now \in 0..MaxTime
  BY LoopBounds DEF Init
<1>3. \A d \in Days : excused[d] = 0 /\ \A a \in Apps : restarts[d][a] = 0
  BY DEF Init
<1>4. restarts \in [Days -> [Apps -> Nat]] /\ excused \in [Days -> Nat]
  BY DEF Init
<1>5. PassInv
  BY <1>1, <1>3 DEF PassInv, OnePassUnlessUnmarked, PassLeft, Init
<1>6. QED  BY <1>1, <1>2, <1>4, <1>5 DEF NightInv, NightTypeOK, Init

\* A step that leaves the nightly loop where it is, or the clock that ticks on.
LEMMA NightStays ==
    ASSUME NightInv, UNCHANGED <<up, marker, restarts, excused>>,
           night' \in Night, night'.pc = night.pc, night'.date = night.date,
           night'.todo = night.todo,
           now' \in now..MaxTime
    PROVE  NightInv'
<1>1. now \in Nat /\ now' \in 0..MaxTime /\ now' \in Nat
  BY LoopBounds DEF NightInv, NightTypeOK
<1>2. Day(now) \in Nat /\ Day(now') \in Nat /\ Day(now) <= Day(now') /\ Days \subseteq Nat
  BY <1>1, DayGrows, DaysAre
<1>3. marker # NoDay => marker \in Nat
  BY DaysAre DEF NightInv, NightTypeOK
<1>4. /\ marker' # NoDay => marker' <= Day(now')
      /\ night'.pc # "idle" => night'.date \in Days /\ night'.date <= Day(now')
  <2>1. marker' # NoDay => marker' <= Day(now')
    BY <1>2, <1>3 DEF NightInv, PassInv
  <2>2. ASSUME night.pc # "idle" PROVE night.date \in Days /\ night.date <= Day(now')
    <3>1. night.date \in Nat /\ night.date \in Days /\ night.date <= Day(now)
      BY <1>2, <2>2 DEF NightInv, PassInv
    <3>2. QED  BY <1>2, <3>1
  <2>3. QED  BY <2>1, <2>2
<1>5. \A d \in Days : d >= Day(now') => d >= Day(now)
  BY <1>2
<1>6. PassInv'
  BY <1>4, <1>5 DEF NightInv, PassInv, PassLeft, OnePassUnlessUnmarked
<1>7. QED  BY <1>1, <1>6 DEF NightInv, NightTypeOK

\* A pass that ends unrecorded, or the date read as if it had none, excuses one more.
LEMMA Excuse ==
    ASSUME NightInv, NEW d \in Days, UNCHANGED <<now, marker, restarts>>,
           excused' = [excused EXCEPT ![d] = @ + 1]
    PROVE  /\ excused' \in [Days -> Nat] /\ OnePassUnlessUnmarked'
           /\ \A a \in Apps : restarts'[d][a] <= excused'[d]
           /\ \A e \in Days, a \in Apps : PassLeft(e, a) => PassLeft(e, a)'
<1>1. /\ excused \in [Days -> Nat] /\ restarts \in [Days -> [Apps -> Nat]]
      /\ \A e \in Days, a \in Apps : restarts[e][a] <= 1 + excused[e]
  BY DEF NightInv, NightTypeOK, PassInv, OnePassUnlessUnmarked
<1>2. /\ excused' \in [Days -> Nat] /\ excused'[d] = excused[d] + 1
      /\ \A e \in Days : e # d => excused'[e] = excused[e]
  BY <1>1
<1>3. \A e \in Days : excused[e] \in Nat /\ \A a \in Apps : restarts[e][a] \in Nat
  BY <1>1
<1>4. QED  BY <1>1, <1>2, <1>3 DEF PassLeft, OnePassUnlessUnmarked

LEMMA NightNext == NightInv /\ [Next]_vars => NightInv'
<1> SUFFICES ASSUME NightInv, [Next]_vars PROVE NightInv'
  OBVIOUS
<1> USE DEF host, loops, tables, history
<1>1. now \in 0..MaxTime /\ now \in Nat /\ night \in Night /\ night.due \in Nat
  BY LoopBounds DEF NightInv, NightTypeOK, Night
<1>2. NightOff \in Night /\ [NightOff EXCEPT !.due = 1] \in Night
      /\ NightOff.pc = "idle" /\ [NightOff EXCEPT !.due = 1].pc = "idle"
  BY DEF NightOff, Night
<1>3. Day(now) \in Days /\ Day(now) \in Nat /\ Days \subseteq Nat /\ NoDay \notin Days
  BY <1>1, DaysAre
<1>4. CASE UNCHANGED vars \/ ChangeApp \/ MeterLoop
  <2>1. UNCHANGED <<now, up, night, marker, restarts, excused>>
    BY <1>4 DEF vars, ChangeApp, MeterLoop, MeterTick, MeterList, MeterApp, MeterRoll, MeterPrune
  <2>2. QED  BY <1>1, <2>1, NightStays
<1>5. CASE Pass
  <2>1. /\ now' = now + 1 /\ now < MaxTime /\ UNCHANGED <<up, marker, restarts, excused>>
        /\ night' = night \/ \E n \in {0, 1} : night' = [night EXCEPT !.due = @ + n]
    BY <1>5 DEF Pass
  <2>2. night' \in Night /\ night'.pc = night.pc /\ night'.date = night.date
        /\ night'.todo = night.todo
    BY <1>1, <2>1 DEF Night
  <2>3. now' \in now..MaxTime
    BY <1>1, <2>1, LoopBounds
  <2>4. QED  BY <2>1, <2>2, <2>3, NightStays
<1>6. CASE Boot \/ Crash
  <2>1. night' \in Night /\ night'.pc = "idle" /\ UNCHANGED <<now, marker, restarts>>
    BY <1>2, <1>6 DEF Boot, Crash
  <2>2. CASE night.pc = "idle"
    <3>1. excused' = excused
      BY <1>6, <2>2 DEF Boot, Crash
    <3>2. PassInv'
      BY <2>1, <2>2, <3>1 DEF NightInv, PassInv, OnePassUnlessUnmarked, PassLeft
    <3>3. QED  BY <2>1, <3>1, <3>2 DEF NightInv, NightTypeOK
  <2>3. CASE night.pc # "idle" /\ Boot
    <3>1. excused' = excused /\ ~up
      BY <2>3 DEF Boot
    <3>2. QED  BY <2>3, <3>1 DEF NightInv, PassInv
  <2>4. CASE night.pc # "idle" /\ Crash
    <3>1. night.date \in Days /\ excused' = [excused EXCEPT ![night.date] = @ + 1]
      BY <2>4 DEF Crash, NightInv, PassInv
    <3>2. /\ excused' \in [Days -> Nat] /\ OnePassUnlessUnmarked'
          /\ \A a \in Apps : restarts'[night.date][a] <= excused'[night.date]
          /\ \A e \in Days, a \in Apps : PassLeft(e, a) => PassLeft(e, a)'
      BY <2>1, <3>1, Excuse
    <3>3. PassInv'
      BY <2>1, <2>4, <3>2 DEF NightInv, PassInv, PassLeft
    <3>4. QED  BY <2>1, <3>2, <3>3 DEF NightInv, NightTypeOK
  <2>5. QED  BY <1>6, <2>2, <2>3, <2>4
<1>7. CASE NightTick
  <2>1. PICK last \in {marker, NoDay} :
          /\ night' = IF ShouldRunNow(last)
                      THEN [night EXCEPT !.due = @ - 1, !.pc = "list", !.date = Day(now)]
                      ELSE [night EXCEPT !.due = @ - 1]
          /\ excused' = IF last # marker /\ ShouldRunNow(last) /\ marker = Day(now)
                        THEN [excused EXCEPT ![Day(now)] = @ + 1] ELSE excused
    BY <1>7 DEF NightTick
  <2>2. /\ night.pc = "idle" /\ night.due > 0 /\ night.due - 1 \in Nat
        /\ UNCHANGED <<now, up, marker, restarts>>
    BY <1>1, <1>7 DEF NightTick
  <2>3. CASE ~ShouldRunNow(last)
    <3>1. night' = [night EXCEPT !.due = @ - 1] /\ excused' = excused
      BY <2>1, <2>3
    <3>2. night' \in Night /\ night'.pc = night.pc /\ night'.date = night.date
          /\ night'.todo = night.todo
      BY <1>1, <2>2, <3>1 DEF Night
    <3>3. QED  BY <1>1, <2>2, <3>1, <3>2, NightStays
  <2>4. CASE ShouldRunNow(last)
    <3>1. night' = [night EXCEPT !.due = @ - 1, !.pc = "list", !.date = Day(now)]
      BY <2>1, <2>4
    <3>2. night' \in Night /\ night'.pc = "list" /\ night'.date = Day(now)
      BY <1>1, <1>3, <2>2, <3>1 DEF Night
    <3>3. /\ excused' \in [Days -> Nat] /\ OnePassUnlessUnmarked'
          /\ \A a \in Apps : restarts'[Day(now)][a] <= excused'[Day(now)]
          /\ \A e \in Days, a \in Apps : PassLeft(e, a) => PassLeft(e, a)'
      <4>1. CASE excused' = [excused EXCEPT ![Day(now)] = @ + 1]
        BY <1>3, <2>2, <4>1, Excuse
      <4>2. CASE excused' = excused
        <5>1. marker # Day(now)
          <6>1. CASE last # marker /\ marker = Day(now)
            <7>1. excused'[Day(now)] = excused[Day(now)] + 1 /\ excused[Day(now)] \in Nat
              BY <1>3, <2>1, <2>4, <6>1 DEF NightInv, NightTypeOK
            <7>2. QED  BY <4>2, <7>1
          <6>2. QED  BY <2>4, <6>1 DEF ShouldRunNow
        <5>2. \A a \in Apps : PassLeft(Day(now), a)
          BY <1>3, <2>2, <5>1 DEF NightInv, PassInv
        <5>3. QED  BY <2>2, <4>2, <5>2 
                 DEF NightInv, NightTypeOK, PassInv, OnePassUnlessUnmarked, PassLeft
      <4>3. QED  BY <2>1, <4>1, <4>2
    <3>4. \A d \in Days, a \in Apps : d >= Day(now) /\ d # Day(now) => PassLeft(d, a)
      BY <1>3, <2>2 DEF NightInv, PassInv
    <3>5. PassInv'
      <4>1. (marker # NoDay => marker <= Day(now))' /\ (~up => night.pc = "idle")'
        BY <1>7, <2>2 DEF NightTick, NightInv, PassInv
      <4>2. (night.date \in Days /\ night.date <= Day(now))'
        BY <1>3, <2>2, <3>2
      <4>3. \A d \in Days, a \in Apps : d >= Day(now) /\ d # Day(now) => PassLeft(d, a)'
        BY <3>3, <3>4
      <4>4. QED  BY <2>2, <3>2, <3>3, <4>1, <4>2, <4>3 DEF PassInv, PassLeft
    <3>6. QED  BY <2>2, <3>2, <3>3, <3>5 DEF NightInv, NightTypeOK
  <2>5. QED  BY <2>3, <2>4
<1>8. CASE NightList
  <2>1. /\ \/ night' = [night EXCEPT !.pc = "pass", !.todo = Rows]
           \/ night' = [night EXCEPT !.pc = "mark"]
        /\ night.pc = "list" /\ UNCHANGED <<now, up, marker, restarts, excused>>
    BY <1>8 DEF NightList
  <2>2. night' \in Night /\ night'.pc \in {"pass", "mark"} /\ night'.date = night.date
    BY <1>1, <2>1 DEF Night, Rows
  <2>3. night'.todo \subseteq Apps
    BY <2>2 DEF Night
  <2>4. PassInv'
    BY <2>1, <2>2, <2>3 DEF NightInv, PassInv, OnePassUnlessUnmarked, PassLeft
  <2>5. QED  BY <2>1, <2>2, <2>4 DEF NightInv, NightTypeOK
<1>9. CASE NightApp
  <2>1. PICK a \in night.todo :
          /\ night' = [night EXCEPT !.todo = @ \ {a}]
          /\ restarts' = restarts \/ restarts' = [restarts EXCEPT ![night.date][a] = @ + 1]
    BY <1>9 DEF NightApp
  <2>2. night.pc = "pass" /\ UNCHANGED <<now, up, marker, excused>>
    BY <1>9 DEF NightApp
  <2>3. night' \in Night /\ night'.pc = night.pc /\ night'.date = night.date
        /\ night'.todo = night.todo \ {a} /\ night.todo \subseteq Apps /\ a \in Apps
    BY <1>1, <2>1 DEF Night
  <2>4. night.date \in Days /\ PassLeft(night.date, a)
    BY <2>1, <2>2 DEF NightInv, PassInv
  <2>5. /\ restarts' \in [Days -> [Apps -> Nat]]
        /\ \A d \in Days, b \in Apps :
            d # night.date \/ b # a => restarts'[d][b] = restarts[d][b]
        /\ restarts'[night.date][a] <= restarts[night.date][a] + 1
    <3>1. restarts \in [Days -> [Apps -> Nat]]
      BY DEF NightInv, NightTypeOK
    <3>2. CASE restarts' = restarts
      BY <2>3, <2>4, <3>1, <3>2
    <3>3. CASE restarts' = [restarts EXCEPT ![night.date][a] = @ + 1]
      <4>1. restarts' = [restarts EXCEPT ![night.date] = [restarts[night.date] EXCEPT ![a] = @ + 1]]
        BY <3>3
      <4>2. [restarts[night.date] EXCEPT ![a] = @ + 1] \in [Apps -> Nat]
        BY <2>3, <2>4, <3>1
      <4>3. QED  BY <2>3, <2>4, <3>1, <4>1, <4>2
    <3>4. QED  BY <2>1, <3>2, <3>3
  <2>6. /\ excused[night.date] \in Nat /\ restarts[night.date][a] \in Nat
        /\ restarts'[night.date][a] \in Nat
    BY <2>3, <2>4, <2>5 DEF NightInv, NightTypeOK
  <2>7. OnePassUnlessUnmarked'
    <3>1. restarts'[night.date][a] <= 1 + excused[night.date]
      BY <2>4, <2>5, <2>6 DEF PassLeft
    <3>2. \A d \in Days, b \in Apps : restarts[d][b] <= 1 + excused[d]
      BY DEF NightInv, PassInv, OnePassUnlessUnmarked
    <3>3. QED  BY <2>2, <2>5, <3>1, <3>2 DEF OnePassUnlessUnmarked
  <2>8. \A d \in Days, b \in Apps : (d # night.date \/ b # a) /\ PassLeft(d, b) => PassLeft(d, b)'
    BY <2>2, <2>5 DEF PassLeft
  <2>9. PassInv'
    BY <2>2, <2>3, <2>4, <2>7, <2>8 DEF NightInv, PassInv
  <2>10. QED  BY <2>2, <2>3, <2>5, <2>9 DEF NightInv, NightTypeOK
<1>10. CASE NightMark
  <2>1. night' = [night EXCEPT !.pc = "idle"] /\ UNCHANGED <<now, up, restarts>>
        /\ night.pc \in {"pass", "mark"}
    BY <1>10 DEF NightMark
  <2>2. night' \in Night /\ night'.pc = "idle"
    BY <1>1, <2>1 DEF Night
  <2>3. night.date \in Days /\ night.date <= Day(now)
    BY <2>1 DEF NightInv, PassInv
  <2>4. CASE marker' = night.date /\ excused' = excused
    <3>1. PassInv'
      BY <2>1, <2>2, <2>3, <2>4 DEF NightInv, PassInv, OnePassUnlessUnmarked, PassLeft
    <3>2. QED  BY <2>1, <2>2, <2>3, <2>4, <3>1 DEF NightInv, NightTypeOK
  <2>5. CASE marker' = marker /\ excused' = [excused EXCEPT ![night.date] = @ + 1]
    <3>1. /\ excused' \in [Days -> Nat] /\ OnePassUnlessUnmarked'
          /\ \A a \in Apps : restarts'[night.date][a] <= excused'[night.date]
          /\ \A e \in Days, a \in Apps : PassLeft(e, a) => PassLeft(e, a)'
      BY <2>1, <2>3, <2>5, Excuse
    <3>2. PassInv'
      BY <2>1, <2>2, <2>5, <3>1 DEF NightInv, PassInv, PassLeft
    <3>3. QED  BY <2>1, <2>2, <2>5, <3>1, <3>2 DEF NightInv, NightTypeOK
  <2>6. QED  BY <1>10, <2>4, <2>5 DEF NightMark
<1>11. QED
  BY <1>4, <1>5, <1>6, <1>7, <1>8, <1>9, <1>10 DEF Next, NightLoop

(* An app is restarted at most once a night, however long a pass takes and     *)
(* whatever restarts, apart from passes whose end could not be recorded.       *)
THEOREM OnePassANight == Spec => []OnePassUnlessUnmarked
<1>1. NightInv => OnePassUnlessUnmarked
  BY DEF NightInv, PassInv
<1>2. QED  BY <1>1, InitNight, NightNext, PTL DEF Spec
-----------------------------------------------------------------------------
(* Loops that keep up with the clock *)

\* The moments at which both loops tick, one in every hour.
TickIn(hour) == hour * HourTime + (booted % HourTime)

NightOf(d) == d * Hours + NightHour

\* The nightly loop has taken the tick of that night.
Taken(d) ==
    \/ now > TickIn(NightOf(d))
    \/ now = TickIn(NightOf(d)) /\ night.due = 0

NightOnTime ==
    /\ night.due \in {0, 1} /\ (night.pc # "idle" /\ marker # NoDay => marker <= night.date)
    /\ \A d \in Days : booted <= NightOf(d) * HourTime /\ Taken(d) =>
        \/ marker # NoDay /\ marker >= d
        \/ night.pc # "idle" /\ night.date >= d

\* When the sampler's tick under way came due, or the next one will.
Tick == booted + meter.count * Interval

\* The roll-up of an hour takes place in the tick of the next hour that began
\* at the boot's minute, whatever the time it is over.
RollDone(h) ==
    \/ Tick > TickIn(h + 1)
    \/ Tick = TickIn(h + 1) /\ meter.pc = "prune"

\* What becomes of the samples of an hour.
SampleOK(x) ==
    /\ x \in Nat \X Scopes /\ x[1] <= Hour(now) /\ booted < (x[1] + 1) * HourTime
    /\ IF RollDone(x[1]) THEN x \in hourly \/ (x[1] + KeepHourly) * HourTime < now
       ELSE \E s \in samples : Hour(s[1]) = x[1] /\ s[2] = x[2]

\* Where the clock is: a tick is over when the next one is due.
ClockOK ==
    IF meter.pc = "idle"
    THEN IF meter.due = 1 THEN now = Tick ELSE now < Tick /\ Tick <= now + Interval
    ELSE /\ Tick <= now
         /\ IF meter.due = 1 THEN now = Tick + Interval ELSE now < Tick + Interval
         /\ IF meter.pc = "prune" THEN meter.ts <= now ELSE meter.ts = Tick

MeterOnTime == meter.due \in {0, 1} /\ ClockOK /\ \A x \in sampled : SampleOK(x)

SteadyInv ==
    /\ booted \in Nat /\ booted <= now
    /\ up /\ steady => NightOnTime /\ (TicksWellInside => MeterOnTime)

LEMMA MulMono ==
    ASSUME NEW a \in Nat, NEW b \in Nat, NEW n \in Nat \ {0}
    PROVE  /\ a * n \in Nat /\ (a + 1) * n = a * n + n
           /\ a <= b => a * n <= b * n
           /\ a < b => a * n + n <= b * n
<1>1. a * n \in Nat
  BY SMTT(30)
<1>2. (a + 1) * n = a * n + n
  BY SMTT(30)
<1>3. a <= b => a * n <= b * n
  BY SMTT(30)
<1>4. a < b => a * n + n <= b * n
  BY SMTT(30)
<1>5. QED  BY <1>1, <1>2, <1>3, <1>4

LEMMA DivMod ==
    ASSUME NEW q \in Nat, NEW r \in Nat, NEW n \in Nat \ {0}, r < n
    PROVE  (q * n + r) \div n = q /\ (q * n + r) % n = r
BY SMTT(30)

LEMMA ModIs ==
    ASSUME NEW a \in Nat, NEW n \in Nat \ {0}
    PROVE  /\ a \div n \in Nat /\ a % n \in Nat /\ a % n < n
           /\ a - n * (a \div n) = a % n /\ a = (a \div n) * n + (a % n)
<1>1. a \div n \in Nat
  BY SMTT(30)
<1>2. a % n \in 0..(n - 1)
  BY SMTT(30)
<1>3. a - n * (a \div n) = a % n
  BY SMTT(30)
<1>4. n * (a \div n) = (a \div n) * n /\ n * (a \div n) \in Nat
  BY <1>1, SMTT(30)
<1>5. QED  BY <1>1, <1>2, <1>3, <1>4

\* Moments of the same minute are whole hours apart.
LEMMA WholeHours ==
    ASSUME NEW a \in Nat, NEW b \in Nat, b <= a, NEW n \in Nat \ {0}, a % n = b % n
    PROVE  (a - b) % n = 0
<1> DEFINE q == a \div n
<1> DEFINE k == b \div n
<1>1. q \in Nat /\ k \in Nat /\ k <= q /\ a = q * n + (a % n) /\ b = k * n + (b % n)
      /\ a % n \in Nat
  BY ModIs, DivMono
<1> HIDE DEF q, k
<1>2. q - k \in Nat /\ q * n \in Nat /\ k * n \in Nat /\ (q - k) * n \in Nat
  BY <1>1, MulMono
<1>3. (q - k) * n = q * n - k * n
  BY <1>1, <1>2, SMTT(30)
<1>4. a - b = (q - k) * n + 0
  BY <1>1, <1>2, <1>3
<1>5. QED  BY <1>2, <1>4, DivMod

\* The next moment is a whole number of intervals away only as the next tick.
LEMMA NextTick ==
    ASSUME NEW a \in Nat, NEW j \in Nat, NEW n \in Nat \ {0}, a < j * n, j * n <= a + n
    PROVE  (a + 1) % n = 0 <=> a + 1 = j * n
<1>1. j * n \in Nat /\ j # 0
  BY MulMono
<1>2. j - 1 \in Nat /\ (j - 1) * n \in Nat /\ ((j - 1) + 1) * n = (j - 1) * n + n
  BY <1>1, MulMono
<1>3. j * n = (j - 1) * n + n
  BY <1>1, <1>2
<1>4. CASE a + 1 = j * n
  <2>1. a + 1 = j * n + 0
    BY <1>1, <1>4
  <2>2. (j * n + 0) % n = 0
    BY DivMod
  <2>3. QED  BY <1>4, <2>1, <2>2, Zenon
<1>5. CASE a + 1 # j * n
  <2> DEFINE r == a + 1 - (j - 1) * n
  <2>1. r \in Nat /\ 0 < r /\ r < n /\ a + 1 = (j - 1) * n + r
    BY <1>1, <1>2, <1>3, <1>5
  <2> HIDE DEF r
  <2>2. ((j - 1) * n + r) % n = r
    BY <1>2, <2>1, DivMod
  <2>3. (a + 1) % n = r
    BY <2>1, <2>2, Zenon
  <2>4. QED  BY <1>5, <2>1, <2>3
<1>6. QED  BY <1>4, <1>5

LEMMA TickIs ==
    ASSUME booted \in Nat, NEW h \in Nat
    PROVE  /\ TickIn(h) \in Nat /\ h * HourTime \in Nat /\ (h + 1) * HourTime = h * HourTime + HourTime
           /\ h * HourTime <= TickIn(h) /\ TickIn(h) < h * HourTime + HourTime
           /\ Hour(TickIn(h)) = h /\ TickIn(h) % HourTime = booted % HourTime
<1>1. HourTime \in Nat \ {0}
  BY TimesAre
<1>2. booted % HourTime \in Nat /\ booted % HourTime < HourTime
  BY <1>1, ModIs
<1>3. h * HourTime \in Nat /\ (h + 1) * HourTime = h * HourTime + HourTime
  BY <1>1, MulMono
<1>4. Hour(TickIn(h)) = h /\ TickIn(h) % HourTime = booted % HourTime
  BY <1>1, <1>2, DivMod DEF Hour, TickIn
<1>5. QED  BY <1>1, <1>2, <1>3, <1>4 DEF TickIn

LEMMA HourIs ==
    ASSUME NEW t \in Nat
    PROVE  /\ Hour(t) \in Nat /\ Hour(t) * HourTime \in Nat
           /\ Hour(t) * HourTime <= t /\ t < Hour(t) * HourTime + HourTime
<1>1. HourTime \in Nat \ {0}
  BY TimesAre
<1>2. Hour(t) \in Nat /\ t % HourTime \in Nat /\ t % HourTime < HourTime /\ t = Hour(t) * HourTime + (t % HourTime)
  BY <1>1, ModIs DEF Hour
<1>3. Hour(t) * HourTime \in Nat
  BY <1>1, <1>2, MulMono
<1>4. QED  BY <1>1, <1>2, <1>3

LEMMA NightOfIs ==
    ASSUME NEW d \in Nat
    PROVE  /\ NightOf(d) \in Nat /\ NightOf(d) % Hours = NightHour
           /\ NightOf(d) \div Hours = d
<1>1. Hours \in Nat \ {0} /\ NightHour \in Nat /\ NightHour < Hours
  BY LoopBounds
<1>2. d * Hours \in Nat
  BY <1>1, MulMono
<1>3. QED  BY <1>1, <1>2, DivMod DEF NightOf

\* The three invariants together.
AllInv == Inv /\ NightInv /\ SteadyInv

LEMMA TypesAre ==
    ASSUME AllInv
    PROVE  /\ now \in Nat /\ booted \in Nat /\ booted <= now
           /\ Hour(now) \in Nat /\ Day(now) \in Nat
           /\ meter \in Meter /\ night \in Night /\ samples \subseteq Nat \X Scopes
           /\ meter.due \in Nat /\ meter.count \in Nat /\ meter.ts \in Nat /\ night.due \in Nat
           /\ HourTime \in Nat \ {0}
<1>1. /\ now \in Nat /\ booted \in Nat /\ booted <= now
      /\ meter \in Meter /\ night \in Night /\ samples \subseteq Nat \X Scopes
  BY DEF AllInv, Inv, TypeOK, NightInv, NightTypeOK, SteadyInv
<1>2. HourTime \in Nat \ {0}
  BY TimesAre
<1>3. Hour(now) \in Nat /\ Day(now) \in Nat
  BY <1>1, HourIs, DayGrows
<1>4. QED  BY <1>1, <1>2, <1>3 DEF Meter, Night

LEMMA NightSame ==
    ASSUME NightOnTime, UNCHANGED <<now, booted, night, marker>>
    PROVE  NightOnTime'
BY DEF NightOnTime, Taken, TickIn

LEMMA MeterSame ==
    ASSUME MeterOnTime, UNCHANGED <<now, booted, meter, sampled, samples, hourly>>
    PROVE  MeterOnTime'
BY DEF MeterOnTime, ClockOK, SampleOK, RollDone, Tick, TickIn

\* The moments at which both loops tick are among the sampler's, and count for it.
LEMMA TickGrid ==
    ASSUME booted \in Nat, NEW h \in Nat, booted < h * HourTime, NEW k \in Nat
    PROVE  /\ booted + k * Interval = TickIn(h) => k > 0 /\ k % Ticks = 0
           /\ booted + k * Interval < TickIn(h) => booted + (k + 1) * Interval <= TickIn(h)
           /\ (k + 1) * Interval = k * Interval + Interval /\ k * Interval \in Nat
<1> DEFINE b == Hour(booted)
<1>1. Interval \in Nat \ {0} /\ Ticks \in Nat \ {0} /\ HourTime \in Nat \ {0}
  BY TimesAre
<1>2. b \in Nat /\ booted = b * HourTime + (booted % HourTime) /\ booted % HourTime \in Nat
      /\ b * HourTime \in Nat /\ b * HourTime <= booted
  BY <1>1, ModIs, HourIs DEF Hour
<1> HIDE DEF b
<1>3. b < h
  <2>1. h <= b => h * HourTime <= b * HourTime
    BY <1>1, <1>2, MulMono
  <2>2. QED  BY <1>1, <1>2, <2>1, MulMono
<1>4. PICK q \in Nat : h = b + q /\ q > 0
  <2>1. h - b \in Nat /\ h = b + (h - b) /\ h - b > 0
    BY <1>2, <1>3
  <2>2. QED  BY <2>1
<1> DEFINE m == q * Ticks
<1>5. m \in Nat /\ m > 0 /\ m % Ticks = 0
  <2>1. m \in Nat /\ m = q * Ticks + 0 /\ Ticks <= m
    <3>1. q * Ticks \in Nat
      BY <1>1, MulMono
    <3>2. 0 < q => 0 * Ticks + Ticks <= q * Ticks
      BY <1>1, MulMono
    <3>3. QED  BY <1>1, <1>4, <3>1, <3>2
  <2> HIDE DEF m
  <2>2. (q * Ticks + 0) % Ticks = 0
    <3>1. 0 \in Nat /\ 0 < Ticks /\ q \in Nat
      BY <1>1, <1>4
    <3>2. QED  BY <1>1, <3>1, DivMod, Zenon
  <2>3. m % Ticks = 0
    BY <2>1, <2>2, Zenon
  <2>4. QED  BY <1>1, <2>1, <2>3
<1>6. m * Interval = q * HourTime
  BY <1>1, <1>4, SMTT(30) DEF HourTime
<1>7. h * HourTime = b * HourTime + q * HourTime
  BY <1>1, <1>2, <1>4, SMTT(30)
<1> HIDE DEF m
<1>8. TickIn(h) = booted + m * Interval /\ m * Interval \in Nat
  <2>1. q * HourTime \in Nat /\ m * Interval \in Nat
    BY <1>1, <1>4, <1>5, MulMono
  <2>2. QED  BY <1>2, <1>6, <1>7, <2>1 DEF TickIn
<1>9. k * Interval \in Nat /\ (k + 1) * Interval = k * Interval + Interval
  BY <1>1, MulMono
<1>10. /\ k < m => k * Interval + Interval <= m * Interval
       /\ m < k => m * Interval + Interval <= k * Interval
  BY <1>1, <1>5, MulMono
<1>11. CASE k < m
  BY <1>1, <1>8, <1>9, <1>10, <1>11
<1>12. CASE k = m
  BY <1>1, <1>5, <1>8, <1>9, <1>12
<1>13. CASE m < k
  BY <1>1, <1>8, <1>9, <1>10, <1>13
<1>14. QED  BY <1>5, <1>11, <1>12, <1>13


\* The clock goes on while no tick is due, whatever the loops are at.
LEMMA PassIs ==
    ASSUME AllInv, up, Pass, ~Late
    PROVE  /\ now' = now + 1 /\ night.due = 0 /\ meter.due = 0
           /\ UNCHANGED <<booted, marker, sampled, samples, hourly, up, steady>>
           /\ night'.pc = night.pc /\ night'.date = night.date
           /\ night'.due = IF (now + 1 - booted) % HourTime = 0 THEN 1 ELSE 0
           /\ meter'.pc = meter.pc /\ meter'.count = meter.count /\ meter'.ts = meter.ts
           /\ meter'.due = IF (now + 1 - booted) % Interval = 0 THEN 1 ELSE 0
<1>1. meter \in Meter /\ night \in Night
  BY TypesAre
<1>2. night.due = 0 /\ meter.due = 0
  BY DEF Late
<1>3. /\ now' = now + 1 /\ UNCHANGED <<booted, marker, sampled, samples, hourly, up>>
      /\ meter' = [meter EXCEPT !.due = @ + IF (now + 1 - booted) % Interval = 0 THEN 1 ELSE 0]
      /\ night' = [night EXCEPT !.due = @ + IF (now + 1 - booted) % HourTime = 0 THEN 1 ELSE 0]
  BY DEF Pass, tables
<1>4. steady' = steady
  BY DEF Pass, Ok
<1>5. QED  BY <1>1, <1>2, <1>3, <1>4 DEF Meter, Night

LEMMA NightPass == ASSUME AllInv, up, steady, Pass, ~Late PROVE NightOnTime'
<1>1. now \in Nat /\ booted \in Nat /\ booted <= now /\ HourTime \in Nat \ {0}
  BY TypesAre
<1>2. NightOnTime
  BY DEF AllInv, SteadyInv
<1>3. /\ now' = now + 1 /\ night.due = 0 /\ booted' = booted /\ marker' = marker
      /\ night'.pc = night.pc /\ night'.date = night.date
      /\ night'.due = IF (now + 1 - booted) % HourTime = 0 THEN 1 ELSE 0
  BY PassIs
<1>4. ASSUME NEW d \in Days, booted <= NightOf(d) * HourTime, Taken(d)' PROVE Taken(d)
  <2>1. d \in Nat /\ NightOf(d) \in Nat
    BY DaysAre, NightOfIs
  <2> DEFINE t == TickIn(NightOf(d))
  <2>2. /\ t \in Nat /\ NightOf(d) * HourTime <= t /\ NightOf(d) * HourTime \in Nat
        /\ t % HourTime = booted % HourTime /\ TickIn(NightOf(d))' = t
    BY <1>1, <1>3, <2>1, TickIs DEF TickIn
  <2> HIDE DEF t
  <2>3. CASE now + 1 = t
    <3>1. (now + 1 - booted) % HourTime = 0
      BY <1>1, <1>4, <2>2, <2>3, WholeHours
    <3>2. QED  BY <1>1, <1>3, <1>4, <2>2, <2>3, <3>1 DEF Taken
  <2>4. CASE now + 1 # t
    <3>1. now + 1 > t
      BY <1>3, <1>4, <2>2, <2>4 DEF Taken
    <3>2. now >= t
      BY <1>1, <2>2, <3>1
    <3>3. QED  BY <1>1, <1>3, <2>2, <3>2 DEF Taken, t
  <2>5. QED  BY <2>3, <2>4
<1>5. QED  BY <1>2, <1>3, <1>4 DEF NightOnTime

LEMMA MeterPass ==
    ASSUME AllInv, up, steady, TicksWellInside, Pass, ~Late PROVE MeterOnTime'
<1>1. /\ now \in Nat /\ booted \in Nat /\ booted <= now /\ meter.count \in Nat
      /\ HourTime \in Nat \ {0} /\ Interval \in Nat \ {0} /\ meter.ts \in Nat
  BY TypesAre, TimesAre
<1>2. MeterOnTime
  BY DEF AllInv, SteadyInv
<1>3. /\ now' = now + 1 /\ meter.due = 0 /\ UNCHANGED <<booted, sampled, samples, hourly>>
      /\ meter'.pc = meter.pc /\ meter'.count = meter.count /\ meter'.ts = meter.ts
      /\ meter'.due = IF (now + 1 - booted) % Interval = 0 THEN 1 ELSE 0
  BY PassIs
<1>4. /\ Tick' = Tick /\ Tick = booted + meter.count * Interval /\ Tick \in Nat
      /\ meter.count * Interval \in Nat /\ meter.count + 1 \in Nat
      /\ (meter.count + 1) * Interval = meter.count * Interval + Interval
  BY <1>1, <1>3, MulMono DEF Tick
<1>5. ClockOK'
  <2> DEFINE a == now - booted
  <2>1. a \in Nat /\ now + 1 - booted = a + 1
    BY <1>1
  <2> HIDE DEF a
  <2>2. CASE meter.pc = "idle"
    <3>1. now < Tick /\ Tick <= now + Interval
      BY <1>2, <1>3, <2>2 DEF MeterOnTime, ClockOK
    <3>2. a < meter.count * Interval /\ meter.count * Interval <= a + Interval
      BY <1>1, <1>4, <3>1 DEF a
    <3>3. (a + 1) % Interval = 0 <=> a + 1 = meter.count * Interval
      BY <1>1, <2>1, <3>2, NextTick
    <3>4. a + 1 = meter.count * Interval <=> now + 1 = Tick
      BY <1>1, <1>4 DEF a
    <3>5. meter'.due = 1 <=> now + 1 = Tick
      BY <1>3, <2>1, <3>3, <3>4
    <3>6. now' = Tick' <=> meter'.due = 1
      BY <1>3, <1>4, <3>5
    <3>7. meter'.due # 1 => now' < Tick' /\ Tick' <= now' + Interval
      <4>1. Tick \in Nat /\ now \in Nat /\ Interval \in Nat
        BY <1>1, <1>4
      <4>2. now + 1 # Tick => now + 1 < Tick /\ Tick <= now + 1 + Interval
        BY <3>1, <4>1
      <4>3. QED  BY <1>3, <1>4, <3>5, <4>2
    <3>8. meter'.pc = "idle"
      BY <1>3, <2>2
    <3>9. QED  BY <3>6, <3>7, <3>8 DEF ClockOK
  <2>3. CASE meter.pc # "idle"
    <3>1. /\ Tick <= now /\ now < Tick + Interval
          /\ IF meter.pc = "prune" THEN meter.ts <= now ELSE meter.ts = Tick
      BY <1>2, <1>3, <2>3 DEF MeterOnTime, ClockOK
    <3>2. a < (meter.count + 1) * Interval /\ (meter.count + 1) * Interval <= a + Interval
      BY <1>1, <1>4, <3>1 DEF a
    <3>3. (a + 1) % Interval = 0 <=> a + 1 = (meter.count + 1) * Interval
      BY <1>1, <1>4, <2>1, <3>2, NextTick
    <3>4. a + 1 = (meter.count + 1) * Interval <=> now + 1 = Tick + Interval
      BY <1>1, <1>4 DEF a
    <3>5. meter'.due = 1 <=> now + 1 = Tick + Interval
      BY <1>3, <2>1, <3>3, <3>4
    <3>6. QED  BY <1>1, <1>3, <1>4, <2>3, <3>1, <3>5 DEF ClockOK
  <2>4. QED  BY <2>2, <2>3
<1>6. ASSUME NEW x \in sampled PROVE SampleOK(x)'
  <2>1. SampleOK(x) /\ x[1] \in Nat /\ x \in Nat \X Scopes
    BY <1>2 DEF MeterOnTime, SampleOK
  <2>2. RollDone(x[1])' <=> RollDone(x[1])
    BY <1>3, <1>4 DEF RollDone, TickIn
  <2>3. Hour(now) \in Nat /\ Hour(now) <= Hour(now + 1) /\ Hour(now + 1) \in Nat
    <3>1. now + 1 \in Nat
      BY <1>1
    <3>2. QED  BY <1>1, <3>1, HourGrows
  <2>4. KeepHourly \in Nat /\ (x[1] + KeepHourly) * HourTime \in Nat
    BY <1>1, <2>1, LoopBounds, MulMono
  <2>5. CASE RollDone(x[1])
    BY <1>1, <1>3, <2>1, <2>2, <2>3, <2>4, <2>5 DEF SampleOK
  <2>6. CASE ~RollDone(x[1])
    BY <1>1, <1>3, <2>1, <2>2, <2>3, <2>6 DEF SampleOK
  <2>7. QED  BY <2>5, <2>6
<1>7. QED  BY <1>3, <1>5, <1>6 DEF MeterOnTime

\* The server boots: both intervals fire at once.
LEMMA BootOnTime == ASSUME AllInv, Boot PROVE NightOnTime' /\ MeterOnTime' /\ booted' = now
<1>1. now \in Nat /\ now' = now /\ booted' = now /\ sampled' = {} /\ marker' = marker
  BY TypesAre DEF Boot, host, tables
<1>2. /\ meter'.pc = "idle" /\ meter'.due = 1 /\ meter'.count = 0
      /\ night'.pc = "idle" /\ night'.due = 1
  BY DEF Boot, NightOff, MeterOff
<1>3. ASSUME NEW d \in Days, now <= NightOf(d) * HourTime PROVE ~Taken(d)'
  <2>1. NightOf(d) \in Nat /\ booted' \in Nat
    BY <1>1, DaysAre, NightOfIs
  <2>2. booted' % HourTime \in Nat /\ NightOf(d) * HourTime \in Nat
    BY <2>1, TypesAre, ModIs, MulMono
  <2>3. TickIn(NightOf(d))' = NightOf(d) * HourTime + (booted' % HourTime)
    BY DEF TickIn
  <2>4. QED  BY <1>1, <1>2, <1>3, <2>2, <2>3 DEF Taken
<1>4. NightOnTime'
  BY <1>1, <1>2, <1>3 DEF NightOnTime
<1>5. Tick' = now
  BY <1>1, <1>2, TimesAre DEF Tick
<1>6. QED  BY <1>1, <1>2, <1>4, <1>5 DEF MeterOnTime, ClockOK

LEMMA NightLoopOnTime ==
    ASSUME AllInv, NightLoop, steady'
    PROVE  steady /\ (up => NightOnTime' /\ (TicksWellInside => MeterOnTime'))
<1>1. /\ UNCHANGED <<now, booted, up, meter, sampled, samples, hourly>> /\ steady
  BY DEF NightLoop, NightTick, NightList, NightApp, NightMark, Ok, Fails, host, tables
<1>2. SUFFICES ASSUME up PROVE NightOnTime' /\ (TicksWellInside => MeterOnTime')
  BY <1>1
<1>3. NightOnTime /\ (TicksWellInside => MeterOnTime')
  BY <1>1, <1>2, MeterSame DEF AllInv, SteadyInv
<1>4. /\ now \in Nat /\ booted \in Nat /\ booted <= now /\ night \in Night /\ night.due \in Nat
      /\ Day(now) \in Nat
  BY TypesAre
<1>5. \A h : TickIn(h)' = TickIn(h)
  BY <1>1 DEF TickIn
<1>6. ASSUME NEW d \in Days, now = TickIn(NightOf(d))
      PROVE  Day(now) = d /\ Hour(now) % Hours = NightHour
  <2>1. /\ d \in Nat /\ NightOf(d) \in Nat
        /\ NightOf(d) % Hours = NightHour /\ NightOf(d) \div Hours = d
    BY DaysAre, NightOfIs
  <2>2. Hour(now) = NightOf(d)
    BY <1>4, <1>6, <2>1, TickIs
  <2>3. QED  BY <2>1, <2>2 DEF Day
<1>7. marker # NoDay => marker <= Day(now) /\ marker \in Nat
  BY DaysAre DEF AllInv, NightInv, PassInv, NightTypeOK
<1>8. CASE NightTick
  <2>1. /\ night' = IF ShouldRunNow(marker)
                    THEN [night EXCEPT !.due = @ - 1, !.pc = "list", !.date = Day(now)]
                    ELSE [night EXCEPT !.due = @ - 1]
        /\ marker' = marker /\ night.pc = "idle" /\ night.due > 0
    BY <1>8 DEF NightTick, tables, Fails
  <2>2. night.due = 1 /\ night.due - 1 = 0
    BY <1>3, <2>1 DEF NightOnTime
  <2>3. CASE ShouldRunNow(marker)
    <3>1. night' = [night EXCEPT !.due = @ - 1, !.pc = "list", !.date = Day(now)]
      BY <2>1, <2>3
    <3>2. night'.pc = "list" /\ night'.due = 0 /\ night'.date = Day(now)
      BY <1>4, <2>2, <3>1 DEF Night
    <3>3. ASSUME NEW d \in Days, booted <= NightOf(d) * HourTime, Taken(d)'
          PROVE  (marker # NoDay /\ marker >= d) \/ Day(now) >= d
      <4>1. CASE now > TickIn(NightOf(d))
        BY <1>3, <2>1, <3>3, <4>1 DEF NightOnTime, Taken
      <4>2. CASE now = TickIn(NightOf(d))
        BY <1>4, <1>6, <4>2
      <4>3. QED  BY <1>1, <1>5, <3>3, <4>1, <4>2 DEF Taken
    <3>4. QED  BY <1>1, <1>3, <1>7, <2>1, <3>2, <3>3 DEF NightOnTime
  <2>4. CASE ~ShouldRunNow(marker)
    <3>1. night' = [night EXCEPT !.due = @ - 1]
      BY <2>1, <2>4
    <3>2. night'.pc = "idle" /\ night'.due = 0
      BY <1>4, <2>1, <2>2, <3>1 DEF Night
    <3>3. ASSUME NEW d \in Days, booted <= NightOf(d) * HourTime, Taken(d)'
          PROVE  marker # NoDay /\ marker >= d
      <4>1. CASE now > TickIn(NightOf(d))
        BY <1>3, <2>1, <3>3, <4>1 DEF NightOnTime, Taken
      <4>2. CASE now = TickIn(NightOf(d))
        <5>1. marker = d
          BY <1>6, <2>4, <4>2 DEF ShouldRunNow
        <5>2. QED  BY <5>1, DaysAre
      <4>3. QED  BY <1>1, <1>5, <3>3, <4>1, <4>2 DEF Taken
    <3>4. QED  BY <1>1, <1>3, <2>1, <3>2, <3>3 DEF NightOnTime
  <2>5. QED  BY <2>3, <2>4
<1>9. CASE NightList \/ NightApp
  <2>1. /\ night'.pc # "idle" /\ night'.due = night.due /\ night'.date = night.date
        /\ night.pc # "idle" /\ marker' = marker
    BY <1>4, <1>9 DEF NightList, NightApp, Night, tables
  <2>2. QED  BY <1>1, <1>3, <1>5, <2>1 DEF NightOnTime, Taken
<1>10. CASE NightMark
  <2>1. marker' = night.date /\ night' = [night EXCEPT !.pc = "idle"] /\ night.pc # "idle"
    BY <1>10 DEF NightMark, Fails
  <2>2. night'.pc = "idle" /\ night'.due = night.due
    BY <1>4, <2>1 DEF Night
  <2>3. night.date # NoDay /\ night.date \in Nat
    BY <2>1, DaysAre DEF AllInv, NightInv, PassInv
  <2>4. ASSUME NEW d \in Days, booted <= NightOf(d) * HourTime, Taken(d)'
        PROVE  night.date >= d
    <3>1. Taken(d)
      BY <1>1, <1>5, <2>2, <2>4 DEF Taken
    <3>2. (marker # NoDay /\ marker >= d) \/ night.date >= d
      BY <1>3, <2>4, <3>1 DEF NightOnTime
    <3>3. marker # NoDay => marker <= night.date
      BY <1>3, <2>1 DEF NightOnTime
    <3>4. QED  BY <1>7, <2>3, <3>2, <3>3, DaysAre
  <2>5. QED  BY <1>1, <1>3, <2>1, <2>2, <2>3, <2>4 DEF NightOnTime
<1>11. QED  BY <1>8, <1>9, <1>10 DEF NightLoop

LEMMA MeterLoopOnTime ==
    ASSUME AllInv, MeterLoop, steady'
    PROVE  steady /\ (up => NightOnTime' /\ (TicksWellInside => MeterOnTime'))
<1>1. /\ UNCHANGED <<now, booted, up, night, marker>> /\ steady
  BY DEF MeterLoop, MeterTick, MeterList, MeterApp, MeterRoll, MeterPrune, Insert, Ok, Fails, host,
         tables
<1>2. up => NightOnTime'
  BY <1>1, NightSame DEF AllInv, SteadyInv
<1> SUFFICES ASSUME up, TicksWellInside PROVE MeterOnTime'
  BY <1>1, <1>2
<1>3. MeterOnTime
  BY <1>1 DEF AllInv, SteadyInv
<1>5. /\ now \in Nat /\ booted \in Nat /\ booted <= now /\ meter \in Meter
      /\ samples \subseteq Nat \X Scopes /\ Hour(now) \in Nat
      /\ HourTime \in Nat \ {0} /\ Interval \in Nat \ {0}
      /\ meter.due \in {0, 1} /\ meter.count \in Nat /\ meter.ts \in Nat
  BY <1>3, TypesAre, TimesAre DEF MeterOnTime
<1>6. \A h : TickIn(h)' = TickIn(h)
  BY <1>1 DEF TickIn
<1>7. \A x \in sampled : SampleOK(x) /\ x \in Nat \X Scopes /\ x[1] \in Nat
  BY <1>3 DEF MeterOnTime, SampleOK
<1>t. /\ Tick \in Nat /\ booted <= Tick
      /\ meter'.count = meter.count => Tick' = Tick
      /\ meter'.count = meter.count + 1 => Tick' = Tick + Interval
  <2>1. /\ meter.count * Interval \in Nat
        /\ (meter.count + 1) * Interval = meter.count * Interval + Interval
    BY <1>5, MulMono
  <2>2. QED  BY <1>1, <1>5, <2>1 DEF Tick
\* The clock during a tick.
<1>c. ASSUME meter.pc # "idle"
      PROVE  /\ Tick <= now /\ now <= Tick + Interval
             /\ IF meter.due = 1 THEN now = Tick + Interval ELSE now < Tick + Interval
             /\ IF meter.pc = "prune" THEN meter.ts <= now ELSE meter.ts = Tick
  <2>1. /\ Tick <= now
        /\ IF meter.due = 1 THEN now = Tick + Interval ELSE now < Tick + Interval
        /\ IF meter.pc = "prune" THEN meter.ts <= now ELSE meter.ts = Tick
    BY <1>3, <1>c DEF MeterOnTime, ClockOK
  <2>2. Tick \in Nat /\ now \in Nat /\ Interval \in Nat
    BY <1>5, <1>t
  <2>3. QED  BY <2>1, <2>2
\* A tick that goes on, or is over.
<1>g. ASSUME meter.pc \notin {"idle", "prune"}, meter'.pc \notin {"idle", "prune"},
             meter'.due = meter.due, meter'.ts = meter.ts, meter'.count = meter.count
      PROVE  ClockOK'
  BY <1>1, <1>c, <1>g, <1>t DEF ClockOK
<1>o. ASSUME meter.pc # "idle", meter'.pc = "idle", meter'.due = meter.due,
             meter'.count = meter.count + 1
      PROVE  ClockOK'
  <2>1. /\ Tick \in Nat /\ now \in Nat /\ Interval \in Nat /\ Tick' = Tick + Interval /\ now' = now
    BY <1>1, <1>5, <1>o, <1>t
  <2>2. /\ meter.due = 1 => now = Tick + Interval
        /\ meter.due # 1 => now < Tick + Interval /\ Tick + Interval <= now + Interval
    BY <1>c, <1>o, <2>1
  <2>3. QED  BY <1>o, <2>1, <2>2 DEF ClockOK
\* A sample that was there, as long as it counts as rolled up as before.
<1>8. ASSUME NEW x \in sampled, RollDone(x[1])' <=> RollDone(x[1]),
             samples \subseteq samples', hourly \subseteq hourly'
      PROVE  SampleOK(x)'
  BY <1>1, <1>7, <1>8 DEF SampleOK
\* A sample that is taken now.
<1>9. ASSUME NEW scope \in Scopes, <<Tick, scope>> \in samples', meter'.pc # "prune",
             meter'.count = meter.count, Tick <= now, NEW x, x = <<Hour(Tick), scope>>
      PROVE  SampleOK(x)'
  <2>0. PICK h \in Nat : h = Hour(Tick)
    BY <1>t, HourIs
  <2>1. /\ h * HourTime \in Nat
        /\ h * HourTime <= Tick /\ Tick < h * HourTime + HourTime /\ h <= Hour(now)
    BY <1>5, <1>9, <1>t, <2>0, HourIs, DivMono DEF Hour
  <2>2. x \in Nat \X Scopes /\ x[1] = h /\ x[2] = scope
    BY <1>9, <2>0, <2>1
  <2>3. /\ (h + 1) * HourTime = h * HourTime + HourTime
        /\ TickIn(h + 1) \in Nat /\ (h + 1) * HourTime <= TickIn(h + 1)
    BY <1>5, <2>1, TickIs
  <2>4. Tick < TickIn(h + 1) /\ booted < (h + 1) * HourTime
    BY <1>5, <1>t, <2>1, <2>3
  <2>5. ~RollDone(h)'
    BY <1>5, <1>6, <1>9, <1>t, <2>3, <2>4 DEF RollDone
  <2>6. \E s \in samples' : Hour(s[1]) = h /\ s[2] = scope
    <3>1. Hour(<<Tick, scope>>[1]) = h /\ <<Tick, scope>>[2] = scope
      BY <2>0
    <3>2. QED  BY <1>9, <3>1
  <2>7. QED  BY <1>1, <2>1, <2>2, <2>4, <2>5, <2>6 DEF SampleOK
<1>10. CASE MeterTick
  <2>1. /\ meter' = [meter EXCEPT !.due = @ - 1, !.pc = "list", !.ts = now]
        /\ meter.pc = "idle" /\ meter.due > 0 /\ hourly' = hourly
        /\ samples' = samples \cup {<<now, Server>>}
        /\ sampled' = sampled \cup {<<Hour(now), Server>>}
    BY <1>10 DEF MeterTick, Insert, Fails
  <2>2. meter.due = 1 /\ meter.due - 1 = 0 /\ now = Tick
    BY <1>3, <2>1 DEF MeterOnTime, ClockOK
  <2>3. meter'.pc = "list" /\ meter'.due = 0 /\ meter'.ts = now /\ meter'.count = meter.count
    BY <1>5, <2>1, <2>2 DEF Meter
  <2>4. \A x \in sampled : RollDone(x[1])' <=> RollDone(x[1])
    BY <1>6, <1>t, <2>1, <2>3 DEF RollDone
  <2>5. \A x \in sampled' : SampleOK(x)'
    <3>1. \A x \in sampled : SampleOK(x)'
      BY <1>8, <2>1, <2>4
    <3>2. Server \in Scopes /\ <<Tick, Server>> \in samples' /\ Tick <= now
      BY <1>5, <2>1, <2>2 DEF Scopes
    <3>3. \A x : x = <<Hour(Tick), Server>> => SampleOK(x)'
      BY <1>9, <2>3, <3>2
    <3>4. QED  BY <2>1, <2>2, <3>1, <3>3
  <2>6. ClockOK'
    <3>1. Tick' = Tick /\ now' = now /\ now < Tick + Interval /\ Tick <= now
      BY <1>1, <1>5, <1>t, <2>2, <2>3
    <3>2. QED  BY <2>2, <2>3, <3>1 DEF ClockOK
  <2>7. QED  BY <2>3, <2>5, <2>6 DEF MeterOnTime
<1>11. CASE MeterList
  <2>1. /\ meter' = [meter EXCEPT !.pc = "apps", !.todo = Rows]
        /\ meter.pc = "list" /\ UNCHANGED <<samples, sampled, hourly>>
    BY <1>11 DEF MeterList, Fails, tables
  <2>2. /\ meter'.pc = "apps" /\ meter'.due = meter.due /\ meter'.ts = meter.ts
        /\ meter'.count = meter.count
    BY <1>5, <2>1 DEF Meter
  <2>3. \A x \in sampled : RollDone(x[1])' <=> RollDone(x[1])
    BY <1>6, <1>t, <2>1, <2>2 DEF RollDone
  <2>4. \A x \in sampled' : SampleOK(x)'
    BY <1>8, <2>1, <2>3
  <2>5. ClockOK'
    BY <1>g, <2>1, <2>2
  <2>6. QED  BY <1>5, <2>2, <2>4, <2>5 DEF MeterOnTime
<1>12. CASE MeterApp
  <2>1. PICK a \in meter.todo :
            /\ meter' = [meter EXCEPT !.todo = @ \ {a}]
            /\ IF apps[a] = "running" THEN Insert(meter.ts, a)
               ELSE Ok /\ UNCHANGED <<samples, sampled>>
    BY <1>12 DEF MeterApp
  <2>2. a \in Scopes /\ meter.pc = "apps" /\ hourly' = hourly
    BY <1>5, <1>12 DEF MeterApp, Meter, Scopes
  <2>3. meter.ts = Tick /\ Tick <= now
    BY <1>c, <2>2
  <2>4. \/ UNCHANGED <<samples, sampled>>
        \/ /\ samples' = samples \cup {<<Tick, a>>}
           /\ sampled' = sampled \cup {<<Hour(Tick), a>>}
    BY <2>1, <2>3 DEF Insert, Fails
  <2>5. /\ meter'.pc = "apps" /\ meter'.due = meter.due /\ meter'.ts = meter.ts
        /\ meter'.count = meter.count
    BY <1>5, <2>1, <2>2 DEF Meter
  <2>6. \A x \in sampled : RollDone(x[1])' <=> RollDone(x[1])
    BY <1>6, <1>t, <2>2, <2>5 DEF RollDone
  <2>7. \A x \in sampled' : SampleOK(x)'
    <3>1. \A x \in sampled : SampleOK(x)'
      BY <1>8, <2>2, <2>4, <2>6
    <3>2. <<Tick, a>> \in samples' => \A x : x = <<Hour(Tick), a>> => SampleOK(x)'
      BY <1>9, <2>2, <2>3, <2>5
    <3>3. CASE UNCHANGED <<samples, sampled>>
      BY <3>1, <3>3
    <3>4. CASE /\ samples' = samples \cup {<<Tick, a>>}
               /\ sampled' = sampled \cup {<<Hour(Tick), a>>}
      BY <3>1, <3>2, <3>4
    <3>5. QED  BY <2>4, <3>3, <3>4
  <2>8. ClockOK'
    BY <1>g, <2>2, <2>5
  <2>9. QED  BY <1>5, <2>5, <2>7, <2>8 DEF MeterOnTime
<1>13. CASE MeterRoll
  <2>1. meter.pc \in {"apps", "roll"} /\ UNCHANGED <<samples, sampled>> /\ hourly \subseteq hourly'
    BY <1>13 DEF MeterRoll
  <2>2. meter'.due = meter.due /\ Tick <= now /\ now <= Tick + Interval
    BY <1>5, <1>13, <1>c, <2>1 DEF MeterRoll, Meter
  <2>3. \/ ~Due /\ meter'.pc = "idle" /\ meter'.count = meter.count + 1
        \/ /\ Due /\ meter'.pc = "prune" /\ meter'.count = meter.count
           /\ meter'.ts = now /\ hourly' = hourly \cup RollUpHour
    BY <1>5, <1>13 DEF MeterRoll, Fails, Meter
  <2>4. ASSUME NEW x \in sampled, Tick = TickIn(x[1] + 1)
        PROVE  Due /\ x \in RollUpHour
    <3> DEFINE h == x[1] + 1
    <3>1. /\ x[1] \in Nat /\ h \in Nat /\ booted < h * HourTime
          /\ x[2] \in Scopes /\ x = <<x[1], x[2]>>
      BY <1>7 DEF SampleOK
    <3>2. Due
      BY <1>5, <2>4, <3>1, TickGrid DEF Due, Tick
    <3>3. Hour(now) = h
      <4>1. /\ TickIn(h) = h * HourTime + (booted % HourTime) /\ h * HourTime \in Nat
            /\ booted % HourTime \in Nat
        BY <1>5, <3>1, ModIs, MulMono DEF TickIn
      <4> DEFINE r == now - h * HourTime
      <4>2. r \in Nat /\ r < HourTime /\ now = h * HourTime + r
        BY <1>5, <2>2, <2>4, <4>1 DEF TicksWellInside
      <4> HIDE DEF r
      <4>3. (h * HourTime + r) \div HourTime = h
        BY <1>5, <3>1, <4>2, DivMod
      <4>4. QED  BY <4>2, <4>3 DEF Hour
    <3>4. ~RollDone(x[1])
      BY <1>t, <2>1, <2>4 DEF RollDone
    <3>5. PICK s \in samples : Hour(s[1]) = x[1] /\ s[2] = x[2]
      BY <1>7, <3>4 DEF SampleOK
    <3>6. x \in {<<Hour(u[1]), u[2]>> : u \in samples}
      BY <3>1, <3>5
    <3>7. QED  BY <3>2, <3>3, <3>6 DEF RollUpHour
  <2>5. ASSUME NEW x \in sampled PROVE SampleOK(x)'
    <3>1. CASE Tick = TickIn(x[1] + 1)
      <4>1. x \in hourly' /\ meter'.pc = "prune" /\ Tick' = Tick
        BY <1>t, <2>3, <2>4, <3>1
      <4>2. RollDone(x[1])'
        BY <1>6, <3>1, <4>1 DEF RollDone
      <4>3. QED  BY <1>1, <1>7, <4>1, <4>2 DEF SampleOK
    <3>2. CASE Tick # TickIn(x[1] + 1)
      <4>1. /\ x[1] + 1 \in Nat /\ booted < (x[1] + 1) * HourTime /\ TickIn(x[1] + 1) \in Nat
        BY <1>5, <1>7, TickIs DEF SampleOK
      <4>2. Tick < TickIn(x[1] + 1) => Tick + Interval <= TickIn(x[1] + 1)
        BY <1>5, <4>1, TickGrid DEF Tick
      <4>3. Tick' = Tick \/ (Tick' = Tick + Interval /\ meter'.pc = "idle")
        BY <1>t, <2>3
      <4>4. Tick' > TickIn(x[1] + 1) <=> Tick > TickIn(x[1] + 1)
        BY <1>5, <1>t, <3>2, <4>1, <4>2, <4>3
      <4>5. meter'.pc = "prune" => Tick' # TickIn(x[1] + 1)
        BY <1>t, <2>3, <3>2
      <4>6. RollDone(x[1])' <=> RollDone(x[1])
        BY <1>6, <3>2, <4>4, <4>5 DEF RollDone
      <4>7. QED  BY <1>8, <2>1, <4>6
    <3>3. QED  BY <3>1, <3>2
  <2>6. ClockOK'
    <3>1. CASE meter'.pc = "idle"
      BY <1>o, <2>1, <2>2, <2>3, <3>1
    <3>2. CASE meter'.pc = "prune"
      <4>1. Tick' = Tick /\ meter'.ts = now /\ now' = now
        BY <1>1, <1>t, <2>3, <3>2
      <4>2. QED  BY <1>5, <1>c, <2>1, <2>2, <3>2, <4>1 DEF ClockOK
    <3>3. QED  BY <2>3, <3>1, <3>2
  <2>7. QED  BY <1>5, <2>1, <2>2, <2>5, <2>6 DEF MeterOnTime
<1>14. CASE MeterPrune
  <2>1. /\ meter' = [meter EXCEPT !.pc = "idle", !.count = @ + 1] /\ meter.pc = "prune"
        /\ samples' = {s \in samples : s[1] + KeepSamples * HourTime >= meter.ts}
        /\ hourly' = {x \in hourly : (x[1] + KeepHourly) * HourTime >= meter.ts}
        /\ sampled' = sampled
    BY <1>14 DEF MeterPrune, Fails
  <2>2. meter.ts <= now /\ Tick <= now /\ now <= Tick + Interval
    BY <1>c, <2>1
  <2>3. /\ meter'.pc = "idle" /\ meter'.due = meter.due /\ meter'.count = meter.count + 1
        /\ Tick' = Tick + Interval
    BY <1>5, <1>t, <2>1 DEF Meter
  <2>4. ASSUME NEW x \in sampled PROVE SampleOK(x)'
    <3>1. /\ x[1] \in Nat /\ x \in Nat \X Scopes /\ SampleOK(x)
          /\ x[1] + 1 \in Nat /\ booted < (x[1] + 1) * HourTime
      BY <1>7 DEF SampleOK
    <3>2. TickIn(x[1] + 1) \in Nat
          /\ (Tick < TickIn(x[1] + 1) => Tick + Interval <= TickIn(x[1] + 1))
      BY <1>5, <3>1, TickIs, TickGrid DEF Tick
    <3>3. Tick + Interval > TickIn(x[1] + 1) <=> Tick >= TickIn(x[1] + 1)
      BY <1>5, <1>t, <3>2
    <3>4. RollDone(x[1])' <=> Tick >= TickIn(x[1] + 1)
      BY <1>6, <2>3, <3>3 DEF RollDone
    <3>5. RollDone(x[1]) <=> Tick >= TickIn(x[1] + 1)
      BY <1>t, <2>1, <3>2 DEF RollDone
    <3>6. CASE RollDone(x[1])
      <4>1. (x[1] + KeepHourly) * HourTime \in Nat
        BY <1>5, <3>1, LoopBounds, MulMono
      <4>2. x \in hourly' \/ (x[1] + KeepHourly) * HourTime < now
        BY <1>5, <2>1, <2>2, <3>1, <3>6, <4>1 DEF SampleOK
      <4>3. QED  BY <1>1, <3>1, <3>4, <3>5, <3>6, <4>2 DEF SampleOK
    <3>7. CASE ~RollDone(x[1])
      <4>1. PICK s \in samples : Hour(s[1]) = x[1] /\ s[2] = x[2]
        BY <3>1, <3>7 DEF SampleOK
      <4>2. s[1] \in Nat /\ x[1] * HourTime <= s[1] /\ x[1] * HourTime \in Nat
        BY <1>5, <4>1, HourIs
      <4>3. now <= TickIn(x[1] + 1)
        BY <1>5, <1>t, <2>2, <3>2, <3>5, <3>7
      <4>4. /\ TickIn(x[1] + 1) < (x[1] + 1) * HourTime + HourTime
            /\ (x[1] + 1) * HourTime = x[1] * HourTime + HourTime
        BY <1>5, <3>1, TickIs
      <4>5. /\ KeepSamples * HourTime \in Nat
            /\ 2 * HourTime <= KeepSamples * HourTime /\ 2 * HourTime = HourTime + HourTime
        BY <1>5, LoopBounds, MulMono
      <4>6. s[1] + KeepSamples * HourTime >= meter.ts
        BY <1>5, <2>2, <3>2, <4>2, <4>3, <4>4, <4>5
      <4>7. s \in samples'
        BY <2>1, <4>6
      <4>8. QED  BY <1>1, <3>1, <3>4, <3>5, <3>7, <4>1, <4>7 DEF SampleOK
    <3>8. QED  BY <3>6, <3>7
  <2>5. ClockOK'
    BY <1>o, <2>1, <2>3
  <2>6. QED  BY <1>5, <2>1, <2>3, <2>4, <2>5 DEF MeterOnTime
<1>15. QED  BY <1>10, <1>11, <1>12, <1>13, <1>14 DEF MeterLoop

LEMMA AllNext == AllInv /\ [Next]_vars => AllInv'
<1> SUFFICES ASSUME AllInv, [Next]_vars PROVE AllInv'
  OBVIOUS
<1> USE DEF host, loops, tables, history
<1>1. Inv' /\ NightInv'
  BY NextInv, NightNext DEF AllInv
<1>2. now \in Nat /\ booted \in Nat /\ booted <= now
  BY TypesAre
<1>4. CASE Boot
  <2>1. NightOnTime' /\ MeterOnTime' /\ booted' = now /\ now' = now
    BY <1>4, BootOnTime DEF Boot
  <2>2. QED  BY <1>1, <1>2, <2>1 DEF AllInv, SteadyInv
<1>5. CASE Crash
  BY <1>1, <1>2, <1>5 DEF Crash, AllInv, SteadyInv
<1>6. CASE Pass
  <2>1. now' = now + 1 /\ booted' = booted /\ up' = up /\ (Late => ~steady')
        /\ (~Late => steady' = steady)
    BY <1>6 DEF Pass, Fails, Ok
  <2>2. ASSUME up', steady' PROVE NightOnTime' /\ (TicksWellInside => MeterOnTime')
    BY <1>6, <2>1, <2>2, NightPass, MeterPass
  <2>3. booted' \in Nat /\ booted' <= now'
    BY <1>2, <2>1
  <2>4. TicksWellInside' <=> TicksWellInside
    BY <2>1 DEF TicksWellInside
  <2>5. QED  BY <1>1, <2>2, <2>3, <2>4 DEF AllInv, SteadyInv
<1>7. CASE ChangeApp \/ UNCHANGED vars
  <2>1. UNCHANGED <<now, booted, up, steady, meter, night, marker, sampled, samples, hourly>>
    BY <1>7 DEF ChangeApp, vars
  <2>2. TicksWellInside' <=> TicksWellInside
    BY <2>1 DEF TicksWellInside
  <2>3. QED  BY <1>1, <1>2, <2>1, <2>2, NightSame, MeterSame DEF AllInv, SteadyInv
<1>8. CASE NightLoop
  <2>1. UNCHANGED <<now, booted, up>>
    BY <1>8 DEF NightLoop, NightTick, NightList, NightApp, NightMark
  <2>2. TicksWellInside' <=> TicksWellInside
    BY <2>1 DEF TicksWellInside
  <2>3. QED  BY <1>1, <1>2, <1>8, <2>1, <2>2, NightLoopOnTime DEF AllInv, SteadyInv
<1>9. CASE MeterLoop
  <2>1. UNCHANGED <<now, booted, up>>
    BY <1>9 DEF MeterLoop, MeterTick, MeterList, MeterApp, MeterRoll, MeterPrune
  <2>2. TicksWellInside' <=> TicksWellInside
    BY <2>1 DEF TicksWellInside
  <2>3. QED  BY <1>1, <1>2, <1>9, <2>1, <2>2, MeterLoopOnTime DEF AllInv, SteadyInv
<1>10. QED
  BY <1>4, <1>5, <1>6, <1>7, <1>8, <1>9 DEF Next

LEMMA AllInit == Init => AllInv
BY InitInv, InitNight DEF AllInv, SteadyInv, Init

(* As long as no tick begins late and no call fails, every hour that was       *)
(* sampled is rolled up in the next hour and kept as long as it is meant to    *)
(* be, although a tick may take up to a whole interval and the hour may end    *)
(* while it is at work: for every interval and every number of ticks in an     *)
(* hour, and every moment of the boot but those in an hour's last interval.    *)
THEOREM SteadyHoursAreRolled == Spec => []SteadyRollsAll
<1>1. ASSUME AllInv PROVE SteadyRollsAll
  <2>1. SUFFICES ASSUME up, steady, ~Busy, TicksWellInside, NEW x \in sampled,
                        x[1] + 2 <= Hour(now), (x[1] + KeepHourly) * HourTime >= now
                 PROVE  x \in hourly
    BY DEF SteadyRollsAll
  <2>2. /\ now \in Nat /\ booted \in Nat /\ HourTime \in Nat \ {0} /\ Hour(now) \in Nat
        /\ SampleOK(x) /\ x[1] \in Nat /\ meter.pc = "idle" /\ meter.due = 0 /\ ClockOK
    BY <1>1, <2>1, TypesAre DEF AllInv, SteadyInv, MeterOnTime, SampleOK, Busy
  <2>3. TickIn(x[1] + 1) \in Nat /\ TickIn(x[1] + 1) < ((x[1] + 1) + 1) * HourTime
    BY <2>2, TickIs
  <2>4. x[1] + 2 = (x[1] + 1) + 1 /\ ((x[1] + 1) + 1) * HourTime \in Nat
        /\ ((x[1] + 1) + 1) * HourTime <= Hour(now) * HourTime
    BY <2>1, <2>2, MulMono
  <2>5. Hour(now) * HourTime <= now /\ Hour(now) * HourTime \in Nat
    BY <2>2, HourIs
  <2>6. now < Tick /\ Tick \in Nat
    <3>1. meter.count * Interval \in Nat
      BY <1>1, TypesAre, TimesAre, MulMono
    <3>2. QED  BY <2>2, <3>1 DEF ClockOK, Tick
  <2>7. RollDone(x[1])
    BY <2>2, <2>3, <2>4, <2>5, <2>6 DEF RollDone
  <2>8. (x[1] + KeepHourly) * HourTime \in Nat
    BY <2>2, LoopBounds, MulMono
  <2>9. QED  BY <2>1, <2>2, <2>7, <2>8 DEF SampleOK
<1>2. QED  BY <1>1, AllInit, AllNext, PTL DEF Spec

(* Such a server runs the pass of every night whose hour it was up for.        *)
THEOREM NightsAreNotMissed == Spec => []NightNotMissed
<1>1. ASSUME AllInv PROVE NightNotMissed
  <2>1. SUFFICES ASSUME up, steady, ~Busy, NEW d \in Days, booted <= NightOf(d) * HourTime,
                        Hour(now) > NightOf(d)
                 PROVE  marker # NoDay /\ marker >= d
    BY DEF NightNotMissed, NightOf
  <2>2. /\ now \in Nat /\ booted \in Nat /\ HourTime \in Nat \ {0} /\ Hour(now) \in Nat
        /\ NightOf(d) \in Nat /\ NightOnTime /\ night.pc = "idle"
    BY <1>1, <2>1, TypesAre, DaysAre, NightOfIs DEF AllInv, SteadyInv, Busy
  <2>3. /\ TickIn(NightOf(d)) \in Nat /\ NightOf(d) * HourTime \in Nat
        /\ TickIn(NightOf(d)) < NightOf(d) * HourTime + HourTime
    BY <2>2, TickIs
  <2>4. NightOf(d) * HourTime + HourTime <= Hour(now) * HourTime
    BY <2>1, <2>2, MulMono
  <2>5. Hour(now) * HourTime <= now /\ Hour(now) * HourTime \in Nat
    BY <2>2, HourIs
  <2>6. Taken(d)
    BY <2>2, <2>3, <2>4, <2>5 DEF Taken
  <2>7. QED  BY <2>1, <2>2, <2>6 DEF NightOnTime
<1>2. QED  BY <1>1, AllInit, AllNext, PTL DEF Spec
=============================================================================
