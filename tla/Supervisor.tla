----------------------------- MODULE Supervisor -----------------------------
(***************************************************************************)
(* Core 0 after boot: its message loop (lock_core0_as_supervisor, from its *)
(* line 90, in stardust/src/task/scheduler.rs) and the interrupt handlers  *)
(* (arch/x86_64/idt.rs) that run on it.  The loop sleeps on                *)
(* SUPERVISOR_MAILBOX with MONITOR and MWAIT and handles the word it finds *)
(* there; the keyboard handler leaves a word in IRQ_MAILBOXES[33] for a    *)
(* driver.  A word in a mailbox carries the number of its message; 0 is an *)
(* empty mailbox.  Both are public, but no code of the repository posts to *)
(* the supervisor or calls SYS_CHECK_IRQ yet: Post and the calls of        *)
(* CheckIrq stand for the code the kernel is written for.                  *)
(***************************************************************************)
EXTENDS Naturals, Sequences, FiniteSets

CONSTANTS Messages,      \* the words that may be posted; 0 is "no message"
          MaxPosts,      \* bound: words posted
          MaxIrqs        \* bound: keyboard interrupts

ASSUME SupervisorAssumption ==
  /\ Messages \subseteq Nat \ {0}
  /\ MaxPosts \in Nat /\ MaxIrqs \in Nat

VARIABLES SUPERVISOR_MAILBOX,  \* the number and the word of a message
          watch,         \* "armed": MONITOR was executed and nothing ended it
          core0_pc, msg, \* core 0
          expected_acks, \* the answers broadcast_tlb_shootdown waits for
          posts, taken,  \* how many words were posted, which were taken
          irq_mailbox,   \* IRQ_MAILBOXES[33]
          irqs, seen     \* how many keyboard interrupts, which were seen

irqVars == <<irq_mailbox, irqs, seen>>
loopVars == <<msg, expected_acks>>
supervisorVars == <<SUPERVISOR_MAILBOX, watch, core0_pc, loopVars, posts, taken, irqVars>>

Empty == [number |-> 0, word |-> 0]

SupervisorInit ==
  /\ SUPERVISOR_MAILBOX = Empty
  /\ watch = "off"
  /\ core0_pc = "monitor" /\ msg = 0 /\ expected_acks = 0
  /\ posts = 0 /\ taken = <<>>
  /\ irq_mailbox = 0 /\ irqs = 0 /\ seen = <<>>

\* Some core stores a word (external).  The store ends the watch.
Post(m) ==
  /\ posts < MaxPosts
  /\ posts' = posts + 1
  /\ SUPERVISOR_MAILBOX' = [number |-> posts + 1, word |-> m]
  /\ watch' = "off"
  /\ UNCHANGED <<core0_pc, loopVars, taken, irqVars>>
-----------------------------------------------------------------------------
\* An interrupt ends an MWAIT; one before the MWAIT may leave the watch armed.
Interrupted == watch' \in IF core0_pc = "mwait" THEN {"off"} ELSE {"off", watch}

\* generic_irq_handler_33: a store, whatever the mailbox holds.
IrqStoreForgotten(n) == irq_mailbox
IrqStored(n) == n

KeyboardIrq ==
  /\ irqs < MaxIrqs
  /\ irqs' = irqs + 1
  /\ irq_mailbox' = IrqStored(irqs + 1)
  /\ Interrupted
  /\ UNCHANGED <<SUPERVISOR_MAILBOX, core0_pc, loopVars, posts, taken, seen>>

\* timer_interrupt_handler: its tick changes nothing here, see Scheduler.
TimerInterrupt ==
  /\ Interrupted
  /\ UNCHANGED <<SUPERVISOR_MAILBOX, core0_pc, loopVars, posts, taken, irqVars>>

\* SYS_CHECK_IRQ on a worker: swap(0) on the mailbox of the vector.  The answer 0
\* tells of no interrupt and changes nothing.
CheckIrq ==
  /\ irq_mailbox # 0
  /\ seen' = Append(seen, irq_mailbox)
  /\ irq_mailbox' = 0
  /\ UNCHANGED <<SUPERVISOR_MAILBOX, watch, core0_pc, loopVars, posts, taken, irqs>>
-----------------------------------------------------------------------------
Monitor ==
  /\ core0_pc = "monitor"
  /\ watch' = "armed"
  /\ core0_pc' = "check"
  /\ UNCHANGED <<SUPERVISOR_MAILBOX, loopVars, posts, taken, irqVars>>

\* Only an empty mailbox is waited for.
CheckSkipped(word) == "mwait"
Checked(word) == IF word = 0 THEN "mwait" ELSE "swap"

Check ==
  /\ core0_pc = "check"
  /\ core0_pc' = Checked(SUPERVISOR_MAILBOX.word)
  /\ UNCHANGED <<SUPERVISOR_MAILBOX, watch, loopVars, posts, taken, irqVars>>

\* Core 0 stays in MWAIT while the watch is armed.
Mwait ==
  /\ core0_pc = "mwait" /\ watch = "off"
  /\ core0_pc' = "swap"
  /\ UNCHANGED <<SUPERVISOR_MAILBOX, watch, loopVars, posts, taken, irqVars>>

\* swap(0): the word is taken and the mailbox emptied in one step.
Swap ==
  /\ core0_pc = "swap"
  /\ msg' = SUPERVISOR_MAILBOX.word
  /\ taken' = IF msg' = 0 THEN taken ELSE Append(taken, SUPERVISOR_MAILBOX.number)
  /\ SUPERVISOR_MAILBOX' = Empty
  /\ core0_pc' = IF msg' = 0 THEN "monitor" ELSE "handle"
  /\ UNCHANGED <<watch, expected_acks, posts, irqVars>>

\* The cores the flush of word 2 is sent to.
AllWorkers == 1..3
target_mask == {}

\* An interrupt for each of the cores 1 to 3 in the mask, each to be answered.
broadcast_tlb_shootdown(cpu_mask) == expected_acks' = Cardinality(cpu_mask \cap 1..3)

\* The words 1 and 2 are known, the others are ignored.
Handle ==
  /\ core0_pc = "handle"
  /\ IF msg = 2 THEN broadcast_tlb_shootdown(target_mask) /\ core0_pc' = "acks"
                ELSE expected_acks' = expected_acks /\ core0_pc' = "monitor"
  /\ UNCHANGED <<SUPERVISOR_MAILBOX, watch, msg, posts, taken, irqVars>>

\* The wait for SHOOTDOWN_ACK, which stays 0: a worker's local APIC is off since
\* lock_ap_as_worker, so that none would get the interrupt.
AllAcks ==
  /\ core0_pc = "acks"
  /\ expected_acks = 0
  /\ core0_pc' = "monitor"
  /\ UNCHANGED <<SUPERVISOR_MAILBOX, watch, loopVars, posts, taken, irqVars>>

Core0 == Monitor \/ Check \/ Mwait \/ Swap \/ Handle \/ AllAcks

SupervisorNext ==
  \/ \E m \in Messages : Post(m)
  \/ KeyboardIrq \/ TimerInterrupt \/ CheckIrq
  \/ Core0

SupervisorSpec == SupervisorInit /\ [][SupervisorNext]_supervisorVars
-----------------------------------------------------------------------------
\* Core 0 never sleeps over a message: wherever a post falls between MONITOR, the
\* look at the mailbox and MWAIT, core 0 is awake or the watch has ended.
NoSleepOverMessage ==
  core0_pc = "mwait" /\ watch = "armed" => SUPERVISOR_MAILBOX.word = 0

\* SUPERVISOR_MAILBOX is a mailbox: core 0 takes the newest word and no word
\* twice, and the last word posted is taken even if no interrupt ever comes.
Box == INSTANCE NewestWins WITH posted <- posts, taken <- taken
ImplementsNewestWins == Box!Live

\* IRQ_MAILBOXES[33] is one too: no keyboard interrupt is seen twice, and SYS_CHECK_IRQ
\* would answer 0 only if there is none since the last that was seen.
IrqBox == INSTANCE NewestWins WITH posted <- irqs, taken <- seen
IrqSeenByNextCheck ==
  /\ IrqBox!Safe
  /\ [](irq_mailbox = 0 <=> IrqBox!LastTaken = irqs)
=============================================================================
