------------------------------- MODULE Clock -------------------------------
(***************************************************************************)
(* Time in TRCH: the SysTick interrupt (drivers/systick.c, systick_tick in *)
(* trch/main.c), the software timers that the main loop runs               *)
(* (lib/swtimer.c on lib/list.c), msleep (lib/sleep.c), and the watchdog   *)
(* of TRCH itself (trch/watchdog.c on drivers/wdt.c), from start-up over   *)
(* the main loop to a panic and the reset that follows it.                 *)
(*                                                                         *)
(* The interrupt is taken between any two reads of the time; it adds the   *)
(* length of a tick to a time that wraps around.                           *)
(***************************************************************************)
EXTENDS LinkedList, Wdt

CONSTANTS
  Timers,   \* struct sw_timer, = Items
  Interval, \* timer -> cycles
  Periodic, \* timers of type SW_TIMER_PERIODIC
  Sleeps,   \* cycles that msleep is asked for
  W,        \* the time is counted modulo W (2^32)
  Tick,     \* SYSTICK_INTERVAL_CYCLES
  Liberties \* which of the calls below the callbacks of timers may make, besides all others

ASSUME ClockAssumption ==
  /\ Timers = Items /\ Interval \in [Timers -> 1 .. W - 1] /\ Periodic \subseteq Timers
  /\ W \in Nat /\ Tick \in 2 .. W - 1 /\ 2 * (3 * Tick - 1) <= W
  /\ \A c \in Sleeps : c \in 1 .. W - 1 /\ 2 * c < W
  /\ Liberties \subseteq {"own", "behind", "again"}

VARIABLES
  time,    \* of lib/sleep.c and of lib/swtimer.c: both start at 0 and advance together
  list,    \* timers
  next,    \* timer -> tmr->next
  pc,      \* where TRCH is
  node,    \* the node sw_timer_run is at
  sl,      \* locals of msleep
  started, \* trch_wdt_started
  wdt,     \* the watchdog of TRCH
  hit,     \* whether a tick interrupted TRCH since it last waited
  active,  \* timers scheduled and not cancelled or expired since
  left,    \* timer -> cycles until it is really due
  epoch,   \* timer -> how often tmr->next wrapped around less how often the time did
  owed,    \* timers that were due when this sw_timer_run began
  rest     \* cycles that msleep still has to wait for

timerVars == <<list, next, active, left, epoch, owed>>
sleepVars == <<sl, rest>>
dogVars   == <<started, wdt>>
mainVars  == <<timerVars, node, sleepVars, dogVars>>
vars      == <<time, hit, pc, mainVars>>

NoSleep == [wakeup |-> 0, remaining |-> 0, last |-> 0, elapsed |-> 0]
MAX_TIME == W - 1
AsInt(x) == LET u == x % W IN IF 2 * u >= W THEN u - W ELSE u
Less(a, b) == IF a > b THEN a - b ELSE 0

\* TRCH out of reset.
Init ==
  /\ time = 0 /\ list = EmptyList /\ next = [t \in Timers |-> 0]
  /\ pc = "start" /\ node = Head /\ sl = NoSleep
  /\ started = FALSE /\ wdt = WdtReset /\ hit = FALSE
  /\ active = {} /\ left = [t \in Timers |-> 0] /\ epoch = [t \in Timers |-> 0]
  /\ owed = {} /\ rest = 0

-----------------------------------------------------------------------------
(* The interrupt, and the time that passes without it                       *)

Halted == pc \in {"panic", "halt"}

\* systick_tick kicks in place of the main loop, which may be busy for long.
Kick(w) == IF started THEN WdtKick(w) ELSE w

\* sleep_tick and sw_timer_tick
Advance ==
  /\ time' = (time + Tick) % W
  /\ left' = [t \in Timers |-> Less(left[t], Tick)]
  /\ epoch' = [t \in Timers |-> IF t \in active /\ time' < time /\ epoch[t] >= 0
                                THEN epoch[t] - 1 ELSE epoch[t]]
  /\ rest' = Less(rest, Tick)

\* Where TRCH waits or may take long.
Long == {"start", "callback", "serve", "wfi", "sleep"}

\* A tick interrupts any step, and ends any WFI. The steps that only compute take far
\* less than a tick: at most one falls into them from one wait to the next.
SysTick ==
  /\ ~Halted
  /\ \/ pc \in Long /\ hit' = FALSE
     \/ pc \notin Long /\ ~hit /\ hit' = TRUE
  /\ wdt' = Kick(WdtPass(wdt))
  /\ Advance
  /\ pc' = CASE pc = "sleep" -> "elapsed" [] pc = "wfi" -> "top" [] OTHER -> pc
  /\ UNCHANGED <<list, next, active, owed, node, sl, started>>

\* WFI also ends for any other interrupt.
Interrupt ==
  /\ \/ pc = "sleep" /\ pc' = "elapsed"
     \/ pc = "wfi" /\ pc' = "top"
  /\ hit' = FALSE
  /\ UNCHANGED <<time, mainVars>>

\* panic has disabled SysTick and all interrupts.
Pass ==
  /\ Halted /\ wdt.en
  /\ wdt' = WdtPass(wdt)
  /\ UNCHANGED <<time, hit, pc, timerVars, node, sleepVars, started>>

\* The last stage is wired to the reset of TRCH.
Reset ==
  /\ Expired(wdt)
  /\ time' = 0 /\ list' = EmptyList /\ next' = [t \in Timers |-> 0]
  /\ pc' = "start" /\ node' = Head /\ sl' = NoSleep
  /\ started' = FALSE /\ wdt' = WdtReset /\ hit' = FALSE
  /\ active' = {} /\ left' = [t \in Timers |-> 0] /\ epoch' = [t \in Timers |-> 0]
  /\ owed' = {} /\ rest' = 0

-----------------------------------------------------------------------------
(* Start-up and panic                                                       *)

Goto(from, to) == pc = from /\ pc' = to

TrchTimeouts == [s \in Stages |-> IF s = 0 THEN 2000 ELSE 5000]

\* main up to watchdog_init_group: SysTick runs, nothing is scheduled.
StartUp ==
  /\ Goto("start", "enable")
  /\ wdt' = WdtConfigure(wdt, TrchTimeouts)
  /\ UNCHANGED <<time, hit, timerVars, node, sleepVars, started>>

\* A panic before the watchdog runs is for ever.
StartUpFails ==
  /\ Goto("start", "halt")
  /\ UNCHANGED <<time, hit, mainVars>>

\* watchdog_start, and then trch_wdt_started = true
EnableWdt ==
  /\ Goto("enable", "flag")
  /\ wdt' = WdtEnable(wdt)
  /\ UNCHANGED <<time, hit, timerVars, node, sleepVars, started>>
FlagWdt ==
  /\ Goto("flag", "top")
  /\ started' = TRUE
  /\ UNCHANGED <<time, hit, timerVars, node, sleepVars, wdt>>

\* Nothing is due to a TRCH that has stopped.
Abandon ==
  /\ left' = [t \in Timers |-> 0] /\ epoch' = [t \in Timers |-> 0] /\ owed' = {}
  /\ UNCHANGED <<time, hit, list, next, active, node, sleepVars, started>>

\* An assertion fails in some handler: panic.
Panic == Goto("serve", "panic") /\ Abandon /\ UNCHANGED wdt

\* A failed reboot or link: trch_panic stops the watchdog, to keep TRCH as it is.
TrchPanic == Goto("serve", "halt") /\ Abandon /\ wdt' = WdtDisable(wdt)

-----------------------------------------------------------------------------
(* The software timers                                                      *)

\* The timers that sw_timer_run must find expired.
Due == {t \in active : left[t] = 0 /\ epoch[t] = 0}

\* sw_timer_run
Run ==
  /\ Goto("top", "walk")
  /\ node' = Head
  /\ owed' = Due
  /\ UNCHANGED <<time, hit, list, next, active, left, epoch, sleepVars, dogVars>>

\* tmr->next <= time
IsExpired(t) == next[t] <= time

\* The next node: its callback is called if it has expired.
Walk ==
  /\ pc = "walk"
  /\ LET n == list.next[node] IN
       /\ node' = IF n = Null THEN Head ELSE n
       /\ pc' = CASE n = Null -> "serve"
                  [] n # Null /\ IsExpired(n) -> "callback"
                  [] OTHER -> "walk"
       /\ owed' = IF n # Null /\ IsExpired(n) THEN owed \ {n} ELSE owed
  /\ UNCHANGED <<time, hit, list, next, active, left, epoch, sleepVars, dogVars>>

\* time + interval wraps as the time does.
Deadline(t) == time + Interval[t]

\* Mutant: a periodic timer is due again at once.
RearmNot(t) ==
  /\ next' = next
  /\ left' = [left EXCEPT ![t] = Interval[t]]
  /\ epoch' = [epoch EXCEPT ![t] = 0]

Rearm(t) ==
  /\ next' = [next EXCEPT ![t] = Deadline(t) % W]
  /\ left' = [left EXCEPT ![t] = Interval[t]]
  /\ epoch' = [epoch EXCEPT ![t] = Deadline(t) \div W]

\* sw_timer_cancel: the tmr->next of a timer that is not in the list is of no interest.
SwTimerCancel(t) ==
  /\ list' = ListRemove(list, t)
  /\ next' = [next EXCEPT ![t] = 0]
  /\ left' = [left EXCEPT ![t] = 0]
  /\ epoch' = [epoch EXCEPT ![t] = 0]
  /\ active' = active \ {t}
  /\ owed' = owed \ {t}

\* After the callback: the next period, or the end of a one-shot timer.
Fired ==
  /\ Goto("fired", "walk")
  /\ CASE node \in Periodic \cap active -> Rearm(node) /\ UNCHANGED <<list, active, owed>>
       [] node \in Periodic \ active      -> UNCHANGED timerVars
       [] OTHER                          -> SwTimerCancel(node)
  /\ UNCHANGED <<time, hit, node, sleepVars, dogVars>>

\* sw_timer_schedule inserts at the head of the list.
SwTimerSchedule(t) ==
  /\ Rearm(t)
  /\ list' = ListInsert(list, t, Head)
  /\ active' = active \cup {t}
  /\ UNCHANGED owed

-----------------------------------------------------------------------------
(* The clients of the timers: callbacks, and the handlers the main loop     *)
(* calls. Each makes any number of calls, in any order, with ticks between  *)
(* them: it schedules timers that are not scheduled and cancels timers that *)
(* are. Three calls are special, and only made at Liberties:                *)
(*   own     a one-shot timer's callback schedules or cancels that timer    *)
(*   behind  a periodic timer's callback, having cancelled that timer,      *)
(*           cancels the one that came behind it in the list                *)
(*   again   a periodic timer's callback, having cancelled that timer,      *)
(*           schedules it                                                   *)

Own(t)    == pc = "callback" /\ t = node
Behind(t) == pc = "callback" /\ node \notin active /\ t = list.next[node]

ClientSchedules(t) ==
  /\ t \notin active \/ (Own(t) /\ t \notin Periodic)
  /\ Own(t) => (IF t \in Periodic THEN "again" ELSE "own") \in Liberties
  /\ SwTimerSchedule(t)

ClientCancels(t) ==
  /\ t \in active
  /\ Own(t) /\ t \notin Periodic => "own" \in Liberties
  /\ Behind(t) => "behind" \in Liberties
  /\ SwTimerCancel(t)

Call ==
  /\ pc \in {"callback", "serve"}
  /\ \E t \in Timers : ClientSchedules(t) \/ ClientCancels(t)
  /\ UNCHANGED <<time, hit, pc, node, sleepVars, dogVars>>

\* The callback returns; the handlers have been served.
Callback == Goto("callback", "fired") /\ UNCHANGED <<time, hit, mainVars>>
Serve    == Goto("serve", "wfi") /\ UNCHANGED <<time, hit, mainVars>>

\* A handler that waits: msleep.
Wait ==
  /\ Goto("serve", "branch")
  /\ \E c \in Sleeps : /\ sl' = [NoSleep EXCEPT !.wakeup = (time + c) % W]
                      /\ rest' = c
  /\ UNCHANGED <<time, hit, node, timerVars, dogVars>>

-----------------------------------------------------------------------------
(* msleep, read of the time by read of the time                             *)

Set(s) == sl' = s /\ UNCHANGED <<time, hit, timerVars, node, rest, dogVars>>

\* wakeup >= time ? ... : ...
Branch ==
  /\ pc = "branch" /\ pc' = IF sl.wakeup >= time THEN "ahead" ELSE "around"
  /\ Set(sl)

\* int remaining
Ahead ==
  /\ Goto("ahead", "last")
  /\ Set([sl EXCEPT !.remaining = AsInt(sl.wakeup - time), !.wakeup = 0])
Around ==
  /\ Goto("around", "last")
  /\ Set([sl EXCEPT !.remaining = AsInt(MAX_TIME - time + sl.wakeup), !.wakeup = 0])

\* Mutant: last_tick is not initialised.
LastTickNot ==
  /\ Goto("last", "loop")
  /\ Set(sl)

LastTick ==
  /\ Goto("last", "loop")
  /\ Set([sl EXCEPT !.last = time])

\* while (remaining > 0) wfi
Loop ==
  /\ sl.remaining > 0
  /\ Goto("loop", "sleep")
  /\ Set(sl)

Awake ==
  /\ sl.remaining <= 0
  /\ Goto("loop", "wfi")
  /\ sl' = NoSleep /\ rest' = 0
  /\ UNCHANGED <<time, hit, timerVars, node, dogVars>>

Elapsed ==
  /\ pc = "elapsed" /\ pc' = IF time >= sl.last THEN "since" ELSE "wrap"
  /\ Set(sl)

Since ==
  /\ Goto("since", "elapse")
  /\ Set([sl EXCEPT !.elapsed = (time - sl.last) % W])
Wrap ==
  /\ Goto("wrap", "elapse")
  /\ Set([sl EXCEPT !.elapsed = (MAX_TIME - sl.last + time) % W])

\* last_tick = time; remaining -= elapsed
Elapse ==
  /\ Goto("elapse", "loop")
  /\ Set([sl EXCEPT !.last = time, !.remaining = AsInt(@ - sl.elapsed), !.elapsed = 0])

-----------------------------------------------------------------------------
Msleep == Branch \/ Ahead \/ Around \/ LastTick \/ Loop \/ Awake
            \/ Elapsed \/ Since \/ Wrap \/ Elapse
Main == StartUp \/ EnableWdt \/ FlagWdt \/ Run \/ Walk \/ Callback \/ Fired \/ Serve \/ Wait \/ Msleep
Fails == StartUpFails \/ Panic \/ TrchPanic
Next == Main \/ Call \/ Fails \/ SysTick \/ Interrupt \/ Pass \/ Reset

Spec == Init /\ [][Next]_vars

\* TRCH executes, what its clients call returns, time passes, and ticks do not all fall between the end of a WFI and
\* the next: some come while msleep waits.
FairSpec == Spec /\ WF_vars(Main) /\ WF_vars(SysTick) /\ WF_vars(Pass) /\ WF_vars(Reset)
                 /\ SF_vars(SysTick /\ pc = "sleep")

-----------------------------------------------------------------------------
(* Properties *)

Pcs == {"start", "enable", "flag", "top", "walk", "callback", "fired", "serve", "wfi", "panic",
        "halt", "branch", "ahead", "around", "last", "loop", "sleep", "elapsed", "since",
        "wrap", "elapse"}

TypeOK ==
  /\ time \in 0 .. W - 1 /\ next \in [Timers -> 0 .. W - 1]
  /\ list \in [next : [Nodes -> Nodes \cup {Null}], prev : [Nodes -> Nodes \cup {Null}]]
  /\ pc \in Pcs /\ node \in Nodes /\ started \in BOOLEAN /\ hit \in BOOLEAN
  /\ sl \in [wakeup : 0 .. W - 1, remaining : -W .. W,
              last : 0 .. W - 1, elapsed : 0 .. W - 1]
  /\ wdt \in [en : BOOLEAN, term : [Stages -> Nat], count : [Stages -> Nat], status : SUBSET Stages]
  /\ active \subseteq Timers /\ owed \subseteq active
  /\ left \in [Timers -> 0 .. W - 1] /\ epoch \in [Timers -> -1 .. 1] /\ rest \in 0 .. W - 1

\* The list holds the timers that are scheduled, each once, and its back pointers
\* lead the same way: list_insert and list_remove keep it so however many timers a
\* callback schedules and cancels in the middle of sw_timer_run, its own if periodic
\* among them, but for the calls named in Liberties.
ListIntact ==
  /\ ListItems(list) = active /\ ListEnds(list)
  /\ \A t \in active : list.prev[t] \in active \cup {Head} /\ list.next[list.prev[t]] = t

\* A callback is called for a timer that is scheduled and due; early only if
\* tmr->next wrapped around and the time has not yet (swtimer.c:63).
CallbackForCause ==
  [][pc' = "callback" /\ pc # "callback" =>
       node' \in active /\ (left[node'] = 0 \/ epoch[node'] = 1)]_vars

\* A run of the timers misses none that was due when it began, however many timers the
\* callbacks schedule and cancel before the walk reaches it; but for timers that the
\* time passed by wrapping around, and the calls named in Liberties.
NoneMissed == pc = "serve" => \A t \in owed : epoch[t] = -1

\* msleep waits for the cycles it was asked for, in ticks, wherever the ticks fall
\* between its reads of the time; one cycle less if the time wraps (sleep.c:44, 50).
SleptEnough == [][Awake => rest <= 1]_vars

\* The main loop comes round for ever: every msleep ends, the walk over the timers
\* ends, and a panic ends in the reset by the watchdog; unless TRCH halts during
\* start-up or by trch_panic, which it does on purpose.
LoopAlive == []<>(pc \in {"top", "halt"})

\* A callback is never early, and no due timer is missed, even when the time wraps.
NeverEarly == [][pc' = "callback" /\ pc # "callback" => left[node'] = 0]_vars

\* "Sorted by next event time" (swtimer.c:17).
Sorted == \A t \in active : list.next[t] # Null => next[t] <= next[list.next[t]]

=============================================================================
