-------------------------------- MODULE Gic --------------------------------
(***************************************************************************)
(* The GIC-500 of the RTPS as drivers/gic.c uses it: which interrupts are  *)
(* enabled in the distributor and in the redistributor of each core. Those *)
(* up to GIC_INTERNAL are private to a core (SGIs and PPIs), the others    *)
(* are shared (SPIs) and routed to any core.                               *)
(***************************************************************************)
EXTENDS Integers, FiniteSets

GIC_NR_SGIS  == 16
GIC_INTERNAL == 32
Cores        == {0, 1}

Private(intid) == intid < GIC_INTERNAL

\* irq_to_intid
Spi(irq) == GIC_INTERNAL + irq
Ppi(irq) == GIC_NR_SGIS + irq

\* Out of reset, with the affinity routing that the start-up code turns on.
GicReset(are) == [are |-> are, dist |-> {}, redist |-> [c \in Cores |-> {}]]

\* use_redist
UseRedist(g, intid) == Private(intid) /\ g.are

\* A private interrupt is that of the core that asks.
GicEnable(g, core, intid) ==
  IF UseRedist(g, intid) THEN [g EXCEPT !.redist[core] = @ \cup {intid}]
                         ELSE [g EXCEPT !.dist = @ \cup {intid}]

\* gic_disable_all: with affinity routing, the private interrupts of every core and
\* none of the shared ones; without, the lower 24 of every 32.
GicDisableAll(g) ==
  IF g.are THEN [g EXCEPT !.redist = [c \in Cores |-> {}]]
           ELSE [g EXCEPT !.dist = {i \in @ : i % 32 >= 24}]

GicEnabled(g, core, intid) ==
  intid \in IF UseRedist(g, intid) THEN g.redist[core] ELSE g.dist

=============================================================================
