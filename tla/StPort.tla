------------------------------- MODULE StPort -------------------------------
(***************************************************************************)
(* Layer 1 of one S/T port of the HFC-4S driver                           *)
(* (src/modules/hfc-4s/st_port.c): the state-change work that follows the *)
(* line's state, the FIFO activation work it schedules, the LED, and the   *)
(* sysfs and port operations that write the state register.               *)
(*                                                                         *)
(* The line is the chip's layer 1 state machine, an environment that may   *)
(* move to any state while it is not held by a state load; every change    *)
(* raises the interrupt that queues state_change_work (the interrupt       *)
(* handler is not in the repository).  Time is counted in ticks of 10 ms.  *)
(* A kernel work item has one pending bit: scheduling it while it is       *)
(* pending does nothing, and the bit is cleared as the work starts.        *)
(***************************************************************************)
EXTENDS Integers

CONSTANTS
    LineStates,   \* the values of V_ST_STA the line may take
    Settle,       \* HZ/50 in ticks: the delay of the FIFO activation
    MaxTime,      \* bound on the clock
    MaxChanges,   \* bound on the line's state changes
    RoleInputs    \* what may be written to the role attribute

ASSUME /\ {0, 3, 7} \subseteq LineStates /\ LineStates \subseteq 0..15
       /\ Settle \in Nat /\ MaxTime \in Nat /\ MaxChanges \in Nat
       /\ RoleInputs \subseteq {"NT", "TE", "other"}

VARIABLES
    nt_mode,        \* port->nt_mode
    enabled,        \* port->visdn_port.enabled
    held,           \* the state machine is stopped by V_ST_LD_STA
    line,           \* the line's state, V_ST_STA of A_ST_RD_STA
    l1_state,       \* port->l1_state: the state the driver last read
    led,            \* card->leds[port->id]: "off", "red", "green", "flash"
    scw_pending,    \* state_change_work is queued
    fifo_pending,   \* fifo_activation_work is queued
    fifo_due,       \* the tick at which the queued FIFO work may run
    now,            \* the clock, in ticks
    changes,        \* line state changes so far
    up_since,       \* the tick at which the driver last saw L1 go active
    cfg_since_up    \* the FIFO work has run since then

vars == <<nt_mode, enabled, held, line, l1_state, led, scw_pending,
          fifo_pending, fifo_due, now, changes, up_since, cfg_since_up>>

-----------------------------------------------------------------------------

\* The active state: G3 for NT, F7 for TE.
Active(nt) == IF nt THEN 3 ELSE 7

\* The deactivated state: G1 for NT, F3 for TE.
Deactivated(nt) == IF nt THEN 1 ELSE 3

\* hfc_update_port_led: the colour for the port's state.
LedFor(en, nt, st) ==
    CASE ~en                  -> "off"
      [] st = Active(nt)      -> "red"
      [] st = Deactivated(nt) -> "green"
      [] OTHER                -> "flash"

\* schedule_work and schedule_delayed_work of fifo_activation_work, due
\* after d ticks: nothing happens if the work is already queued.
ScheduleFifo(d) ==
    IF fifo_pending
    THEN UNCHANGED <<fifo_pending, fifo_due>>
    ELSE /\ fifo_pending' = TRUE
         /\ fifo_due' = now + d

\* Mutant: the delay is given in milliseconds where jiffies are expected.
FifoDelayMs == 20

\* HZ/50, the delay after L1 goes active.
FifoDelay == Settle

Init ==
    /\ nt_mode = FALSE
    /\ enabled = FALSE
    /\ held = FALSE
    /\ line = 0
    /\ l1_state = 0
    /\ led = "off"
    /\ scw_pending = FALSE
    /\ fifo_pending = FALSE /\ fifo_due = 0
    /\ now = 0 /\ changes = 0
    /\ up_since = 0 /\ cfg_since_up = TRUE

-----------------------------------------------------------------------------
(* The environment: the line, the interrupt and the clock.                 *)

\* The line changes state, before the horizon MaxTime; the interrupt
\* queues state_change_work.
LineChange ==
    /\ ~held /\ changes < MaxChanges /\ now < MaxTime
    /\ \E s \in LineStates \ {line} : line' = s
    /\ changes' = changes + 1
    /\ scw_pending' = TRUE
    /\ UNCHANGED <<nt_mode, enabled, held, l1_state, led, fifo_pending,
                   fifo_due, now, up_since, cfg_since_up>>

\* Time passes up to MaxTime, and on until a queued delayed work is due
\* (so past MaxTime by at most two delays: one queued before it, and one
\* queued by the state change that work let run).
Tick ==
    /\ now < MaxTime \/ (fifo_pending /\ now < fifo_due)
    /\ now' = now + 1
    /\ UNCHANGED <<nt_mode, enabled, held, line, l1_state, led, scw_pending,
                   fifo_pending, fifo_due, changes, up_since, cfg_since_up>>

-----------------------------------------------------------------------------
(* The driver.                                                            *)

\* Mutant: the comparisons see port->l1_state already overwritten.
ScheduleOnChangeAfterUpdate(new, act) ==
    CASE new = act /\ new # act -> ScheduleFifo(FifoDelay)
      [] new # act /\ new = act -> ScheduleFifo(0)
      [] OTHER                  -> UNCHANGED <<fifo_pending, fifo_due>>

\* hfc_st_port_state_change_work: going active queues the FIFO work after
\* the settle delay, leaving active queues it at once.
ScheduleOnChange(new, act) ==
    CASE new = act /\ l1_state # act -> ScheduleFifo(FifoDelay)
      [] new # act /\ l1_state = act -> ScheduleFifo(0)
      [] OTHER                        -> UNCHANGED <<fifo_pending, fifo_due>>

\* Mutant: port->l1_state is stored only when L1 crosses active.
L1UpdateOnEdge(old, new, act) ==
    IF (new = act) # (old = act) THEN new ELSE old

\* port->l1_state = new_state.
L1Update(old, new, act) == new

\* hfc_st_port_state_change_work, under the card lock: read the state,
\* let NT go from G2 to G3, queue the FIFO work on a change of active,
\* store the state and update the LED.  up_since and cfg_since_up record
\* the activation the driver sees.
StateChangeWork ==
    /\ scw_pending
    /\ scw_pending' = FALSE
    /\ LET new == line
           act == Active(nt_mode)
       IN /\ held' = IF nt_mode /\ new = 2 THEN FALSE ELSE held
          /\ ScheduleOnChange(new, act)
          /\ l1_state' = L1Update(l1_state, new, act)
          /\ led' = LedFor(enabled, nt_mode, l1_state')
          /\ IF new = act /\ l1_state # act
             THEN up_since' = now /\ cfg_since_up' = FALSE
             ELSE UNCHANGED <<up_since, cfg_since_up>>
    /\ UNCHANGED <<nt_mode, enabled, line, now, changes>>

\* hfc_st_port_fifo_activation_work: configures the rx and tx FIFOs of
\* every connected channel, once the work is due.
FifoActivationWork ==
    /\ fifo_pending /\ fifo_due <= now
    /\ fifo_pending' = FALSE
    /\ cfg_since_up' = TRUE
    /\ UNCHANGED <<nt_mode, enabled, held, line, l1_state, led, scw_pending,
                   fifo_due, now, changes, up_since>>

\* hfc_store_role: "NT" or "TE" switches the mode; l1_state keeps the
\* other mode's numbering until the next state change.
StoreRole ==
    /\ \E buf \in RoleInputs :
        nt_mode' = CASE buf = "NT" -> TRUE
                     [] buf = "TE" -> FALSE
                     [] OTHER      -> nt_mode
    /\ UNCHANGED <<enabled, held, line, l1_state, led, scw_pending,
                   fifo_pending, fifo_due, now, changes, up_since,
                   cfg_since_up>>

\* hfc_store_l1_state: "activate", "deactivate" or a state number all
\* write A_ST_WR_STA without V_ST_LD_STA, which lets the state machine
\* run; a number above the mode's limit or an unparsable one is refused.
StoreL1State ==
    /\ \/ \E buf \in {"activate", "deactivate"} : held' = FALSE
       \/ \E state \in {-1, 3, 7} :
            IF state < 0 \/ state > (IF nt_mode THEN 7 ELSE 3)
            THEN UNCHANGED held
            ELSE held' = FALSE
       \/ UNCHANGED held   \* sscanf finds no number
    /\ UNCHANGED <<nt_mode, enabled, line, l1_state, led, scw_pending,
                   fifo_pending, fifo_due, now, changes, up_since,
                   cfg_since_up>>

\* hfc_st_port_check_l1_up: an enabled port whose L1 is not active is
\* told to activate.
CheckL1Up ==
    /\ enabled /\ l1_state # Active(nt_mode)
    /\ held' = FALSE
    /\ UNCHANGED <<nt_mode, enabled, line, l1_state, led, scw_pending,
                   fifo_pending, fifo_due, now, changes, up_since,
                   cfg_since_up>>

\* visdn_port_enable sets enabled; hfc_st_port_enable writes 0 to
\* A_ST_WR_STA, releasing a loaded state, and updates the LED.
Enable ==
    /\ ~enabled
    /\ enabled' = TRUE
    /\ held' = FALSE
    /\ led' = LedFor(TRUE, nt_mode, l1_state)
    /\ UNCHANGED <<nt_mode, line, l1_state, scw_pending, fifo_pending,
                   fifo_due, now, changes, up_since, cfg_since_up>>

\* visdn_port_disable clears enabled; hfc_st_port_disable loads state 0,
\* which stops the state machine there, and turns the LED off.
Disable ==
    /\ enabled
    /\ enabled' = FALSE
    /\ held' = TRUE
    /\ line' = 0
    /\ scw_pending' = (scw_pending \/ line # 0)
    /\ led' = "off"
    /\ UNCHANGED <<nt_mode, l1_state, fifo_pending, fifo_due, now, changes,
                   up_since, cfg_since_up>>

Next ==
    \/ LineChange \/ Tick
    \/ StateChangeWork \/ FifoActivationWork
    \/ StoreRole \/ StoreL1State \/ CheckL1Up \/ Enable \/ Disable

\* The kernel's workqueue runs queued work, and time passes.
Spec ==
    /\ Init /\ [][Next]_vars
    /\ WF_vars(StateChangeWork) /\ WF_vars(FifoActivationWork)
    /\ WF_vars(Tick)


-----------------------------------------------------------------------------
(* Properties.                                                              *)

\* The latest tick the clock reaches.
Horizon == MaxTime + 2 * Settle

TypeOK ==
    /\ nt_mode \in BOOLEAN /\ enabled \in BOOLEAN /\ held \in BOOLEAN
    /\ line \in LineStates /\ l1_state \in LineStates
    /\ led \in {"off", "red", "green", "flash"}
    /\ scw_pending \in BOOLEAN /\ fifo_pending \in BOOLEAN
    /\ now \in 0..Horizon
    /\ fifo_due \in 0..Horizon
    /\ changes \in 0..MaxChanges
    /\ up_since \in 0..Horizon /\ cfg_since_up \in BOOLEAN

\* Once the line stops changing, port->l1_state ends up equal to it: the
\* single pending bit of state_change_work coalesces interrupts but never
\* loses the last one.
DriverTracksLine == <>[](l1_state = line)

\* Every activation of L1 that state_change_work sees is followed by a run
\* of fifo_activation_work, even when a work queued on deactivation is
\* still pending and absorbs the delayed one.
ActivationConfigured == ~cfg_since_up ~> cfg_since_up

\* The FIFO activation work never runs while the driver holds L1 active
\* and less than HZ/50 has passed since it saw L1 go active: the code's
\* comment says the first frame is corrupted otherwise.
FifoSettled ==
    [][FifoActivationWork /\ l1_state = Active(nt_mode)
         => now >= up_since + Settle]_vars

=============================================================================
