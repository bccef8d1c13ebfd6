-------------------------------- MODULE Wdt --------------------------------
(***************************************************************************)
(* A watchdog timer of two stages (drivers/wdt.c) and what its hardware    *)
(* does as time passes. A stage counts to its terminal and raises its      *)
(* timeout; the second one starts when the first has expired. Time is      *)
(* counted in units of half a second, the shortest period that the users   *)
(* of the timer know.                                                      *)
(***************************************************************************)
EXTENDS Integers

Stages == {0, 1}
Zero   == [s \in Stages |-> 0]
WdtType == [en : BOOLEAN, term : [Stages -> Nat], count : [Stages -> Nat], status : SUBSET Stages]

\* Out of reset.
WdtReset == [en |-> FALSE, term |-> Zero, count |-> Zero, status |-> {}]

\* MS_TO_WDT_CYCLES: WDT_FREQ_HZ / 1000 loses a fraction, so that a timeout comes a
\* little early; here in whole units.
WDT_FREQ_HZ == 3906250
Units(ms)   == (2 * (ms * (WDT_FREQ_HZ \div 1000))) \div WDT_FREQ_HZ

\* Only while disabled (ASSERT(!wdt_is_enabled)): the divider and EN = 0, and for each
\* stage SCMD_CLEAR, the terminal and SCMD_LOAD. The frequency and the timeouts of the
\* code are within the limits that wdt_configure checks.
WdtConfigure(w, timeouts) ==
  [w EXCEPT !.en = FALSE, !.count = Zero, !.term = [s \in Stages |-> Units(timeouts[s])]]

\* Mutant: the timer is not started.
WdtEnableNot(w) == w

WdtEnable(w)  == [w EXCEPT !.en = TRUE]

\* CMD_DISABLE stops the count where it is.
WdtDisable(w) == [w EXCEPT !.en = FALSE]

\* Mutant: the kick does not clear the count.
WdtKickNot(w) == w

\* Clearing the first stage stops the second in hardware.
WdtKick(w) == [w EXCEPT !.count = Zero]

\* wdt_isr
WdtClearStatus(w, s) == [w EXCEPT !.status = @ \ {s}]

\* A unit of time. The last timeout disables the timer.
WdtPass(w) ==
  CASE ~w.en -> w
    [] w.en /\ w.count[0] < w.term[0] ->
         [w EXCEPT !.count[0] = @ + 1,
                   !.status = IF w.count[0] + 1 = w.term[0] THEN @ \cup {0} ELSE @]
    [] w.en /\ w.count[0] >= w.term[0] ->
         [w EXCEPT !.count[1] = @ + 1,
                   !.status = IF w.count[1] + 1 = w.term[1] THEN @ \cup {1} ELSE @,
                   !.en = w.count[1] + 1 # w.term[1]]

Expired(w) == 1 \in w.status

=============================================================================
