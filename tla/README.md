# TLA+ models of vstuff (vISDN)

This directory holds TLA+ specifications of the parts of vstuff whose
behaviour depends on ordering, timers, counters and concurrency, and TLC
configurations that check them. Every module is translated from the C
source under `src/`. `PROJECT.json` maps each definition to the lines it
models, and lists the runs, the mutants that show each property can fail,
the findings, and the hazards.

## The system

vstuff is a user-space ISDN stack and an Asterisk channel driver. It has
three layers:

- **libq931** (`src/libq931`) is the Q.931 signalling engine.
  - An *interface* (`intf.c`) owns its calls, its DLCs, its B-channels and
    a *global call* on call reference 0.
  - The global call (`global.c`) runs the RESTART procedure, with timers
    T316 and T317.
  - A *DLC* (`dlc.c`) wraps one data-link socket. It has a hold count that
    keeps the link up, a reference count that keeps the struct alive, and
    an autorelease timer that shuts an idle link down.
  - The call state machine (`call.c`) is **not** in `src/`. Only its
    header `libq931/call.h` is.
- **chan_visdn** (`src/chan_visdn/chan_visdn.c`) is the Asterisk channel
  driver.
  - One dedicated *q931 thread* polls the DLC sockets and two pipes. It runs
    the library timers and dispatches primitives in both directions through
    two mutex-protected lists. Each list has a pipe that receives one byte
    per message.
  - Asterisk channel threads call `visdn_hangup` and friends.
  - Suspended calls are kept in a per-interface registry
    (`intf->suspended_calls`).
- **Kernel modules and tools**: the HFC drivers, softswitch, the LAPD TEI
  header, the kstreamer router, app_visdn_ppp and a traffic test tool.

How the parts interact:

- Messages on call reference 0 go to the global call.
- A peer RESTART makes the global call ask every call on a named channel to
  restart. Each such call confirms back with `q931_global_restart_confirm`,
  and the global call answers the peer once every channel is free.
- Calls hold the DLC they signal on.
- chan_visdn reacts to indication primitives. It parks a call's Asterisk
  channel in the registry on SUSPEND and re-attaches it on RESUME.

## Modules

| Module | Models | Source |
|---|---|---|
| `Q931Global` | The global call's restart procedure. Calls on the channels are abstracted. | `src/libq931/global.c` |
| `CallRef` | Call reference allocation for outbound calls. | `src/libq931/intf.c` |
| `Dlc` | One DLC's hold and reference counts and its autorelease timer. | `src/libq931/dlc.c` |
| `SuspendResume` | chan_visdn's suspended-call registry. | `src/chan_visdn/chan_visdn.c` |
| `GlobalRestartService` | What the restart procedure promises the peer (abstract, from the spec). Q931Global is checked against it. | spec sections 4.4 and 8 |
| `CallParking` | What suspend and resume promise (abstract, from the spec). SuspendResume is checked against it. | spec sections 4.3, 8 and 9 |
| `StPort` | Layer 1 of one S/T port of the HFC-4S driver: the state-change work, the delayed FIFO activation work, the LED, and the sysfs and port operations that write the state register. | `src/modules/hfc-4s/st_port.c` |
| `ChanVisdnCall` | One outbound or inbound call across chan_visdn's threads: the channel (or PBX) thread's call setup, answer, indications and hangup, the SETUP indication handler, the q931 thread's poll loop, the two primitive queues and the indication handlers. | `src/chan_visdn/chan_visdn.c` |
| `Q931Intf` | An interface's outbound calls and their DLC: CallRef and Dlc composed by INSTANCE, with the calls' life between them. | `src/libq931/intf.c`, `src/libq931/dlc.c` |
| `Router` | `ks_router_run`, kstreamer's Dijkstra, on C ints of a given width, with RECURSIVE reference definitions of the shortest distance and of the route read back. | `src/libkstreamer/router.c` |

`MC*.tla` modules give the model values and constant definitions used by
the `.cfg` files.

### Q931Global

**State.**

- The variables are the fields of `struct q931_global_call`: `state`,
  `reqd` (restart_reqd_chans), `acked`, T316/T317 pending, `T317_expired`,
  `restart_responded`, `restart_acknowledged`, `restart_retransmit_count`,
  and `ri`, the class of `gc->restart_indicator` (`"NONE"` while it is
  NULL).
- `call[c]` abstracts the call on channel `c` to `"none"`, `"active"` or
  `"restarting"`.
- `out` and `prim` record the message sent to the peer and the primitive
  queued for the application by the last step.
- `crashed` records an `assert(0)` or a NULL dereference; after it, no
  action is enabled.

**Actions.** There is one action per handler, covering every branch of
its `switch (gc->state)`:

- `ManagementRestartRequest` and `ManagementRestartIgnored`
- `HandleRestart` and `RejectRestart`
- `HandleRestartAcknowledge` and `RejectRestartAcknowledge`
- `HandleStatus` and `HandleOtherMessage` (the dispatcher's default)
- `TimerT316` and `TimerT317`
- `GlobalRestartConfirm(c)`

The peer is arbitrary: any message may arrive in any state, with any
channel identification and any class in `PeerClasses`. The call side
(`CallSeize`, `CallRelease`, `CallRestartDone`) is modelled from the spec,
because call.c is not in `src/`. A call told to restart eventually
finishes and calls `q931_global_restart_confirm`.

**Abstractions.**

- IE encoding and the dlc a message goes out on are not modelled.
- IE decoding failures (`q931_gc_decode_ies < 0`, outside src/) only drop
  the message, so they are not modelled either.
- Timers have no durations: a pending timer may fire at any step. Firing
  order between T316, T317 and messages is therefore fully interleaved.

**Fairness.** T316 and T317 are weakly fair. The q931 thread runs
`q931_run_timers` on every poll loop, so a pending timer fires. Each
`CallRestartDone(c)` is weakly fair because a restarting call is bounded by
its own release timers (T308), per the spec. The peer and the application
get no fairness.

**Refinement.** `GlobalRestartService` states the promise abstractly:
- a peer RESTART names a set of restartable channels;
- the calls holding them are cleared;
- the RESTART ACKNOWLEDGE is sent once none of them is held, and names
  exactly them (or none, for a whole-interface restart);
- a peer restart may be abandoned on a timeout;
- a local restart is a phase of its own.

`Q931Global` maps onto it as follows:
- `state` is read as the phase;
- `reqd \cup acked` is the named set, and `reqd` the pending set;
- `call[c]` is read as free, busy or clearing;
- a RESTART ACKNOWLEDGE in `out` is the reply.

The run `global_restart_ack_unrequested` checks `RestartServiceRefined`, and
it fails. `q931_global_restart_confirm` accepts a confirmation from any
channel while in RESTART. A call left clearing by a restart that T317
abandoned confirms into the next restart, and the acknowledgement names a
channel the peer never asked for.

### CallRef

**State.**

- `next_call_reference`.
- `ref[s]`, the call reference of the outbound call in slot `s` (or none).
- `hung`, set when the allocation loop would spin for ever.

**Operators and actions.**

- `Take` and `TakeLoop` translate `q931_intf_take_call_reference`,
  including its `try_again` loop, as a RECURSIVE operator with a named
  fuel bound (`Modulus` rounds).
- `InitialRefs` is `(rand() & (modulus-2)) + 1`, computed with Bitwise.
- `FirstFree` is an independent reference definition of the allocation
  (the first free value counting cyclically up from next). The action
  property `TakeIsFirstFree` checks the translation against it.
- Allocating and releasing outbound calls (call.c) are modelled from the
  spec.

**Bounds.** The field is `CallRefBits` wide: 7 bits on a BRA, 15 on a PRA.
The pass run (`intf_calls`, through Q931Intf) uses 3 bits (7 references) and 3 slots, so the wrap and
collisions happen but the space never runs out. `TakeTerminates` (the
allocation always returns) is stated but not run: with every reference of a
2-bit field in use TLC finds the loop spinning for ever, but exhaustion takes
2^(8*len-1)-1 concurrent outbound calls, so it is a hazard note instead.

### Dlc

**State.**

- `holdcnt`, `refcnt`, the autorelease timer, and the socket
  (open/shutdown).
- `freed`.
- The set of calls holding the DLC and the set of reference owners. The
  interface's DLC list is `Owner` and holds the first reference.

**Actions.** `Hold`, `Release`, `Get`, `Put` and `Autorelease` are
`dlc.c` line for line. The callers' discipline is taken from the spec: a
call holds only a DLC it references, and releases its hold before putting
its reference. The autorelease timer is weakly fair, for the same reason
as T316.

**Bounds.** Three calls and autorelease time 10 (the chan_visdn default).
In `Dlc_free.cfg` a freed DLC takes no further step, so deadlock is not
checked there.

### Q931Intf

Composes CallRef and Dlc (`CR == INSTANCE CallRef WITH Slots <- Calls`,
`D == INSTANCE Dlc WITH Users <- Calls`). Each step is one component's
action with the other's variables unchanged. The calls' life (call.c, not
in `src/`) is taken from the spec:

- `CallAlloc`: a call not bound to a DLC takes a call reference.
- `CallBind`: a call with a reference takes a DLC reference.
- `CallHold` and `CallUnhold`: the call holds and releases the link.
- `CallUnbind`: the call puts its DLC reference.
- `CallFree`: an unbound call frees its call reference.
- `ListPut` and `DlcAutorelease`: the interface's list puts its reference,
  and the autorelease timer fires.

The composition checks the properties of both components on one run
(`intf_calls`), together with `TakeIsFirstFree` restated over the calls.
Deadlock is checked and does not occur: a call can always be allocated or
freed again.

### SuspendResume

**State.**

- `suspended_calls` is a sequence, because `list_add_tail` and the
  first-match scan make order matter. Each record holds the identity, the
  channel and `old_when_to_hangup`.
- `cstate[ch]` is `"call"`, `"susp"` or `"gone"`.
- `whentohangup[ch]` is in seconds from now.
- `reply` is the response primitive.
- `crashed`.

**Actions.**

- `SuspendIndication` and `SuspendAllocFails` are
  `visdn_q931_suspend_indication`.
- `ResumeIndication` is `visdn_q931_resume_indication`, including the NULL
  `ci` dereference and the swapped causes.
- `Hangup` is visdn_hangup's handling of a suspended channel.

**Refinement.** `CallParking` states what the registry promises:
- a parked call has an identity no other parked call has;
- a RESUME takes back the call parked under its identity;
- hanging up a channel drops its parked call.

The mapping reads the sequence `suspended_calls` as a set of
[ident, chan] records, so the abstract spec ignores order.
`RegistryImplementsParking` replaces the earlier invariant
`IdentitiesUnique`. That invariant stays defined but is no longer checked,
because the refinement implies it and says more: a resume restores the
right channel, and a hangup drops exactly that channel's record.

Time does not advance inside these handlers, so deadlines are constants
chosen on each side of the 45 s margin and of T307: 0, 30, 100 and 300.

### ChanVisdnCall

**State.**

- `role` (TE or NT) and `inbound` are fixed at Init; both values of each
  are explored.
- `app` is the channel thread's program point (for an inbound call, the PBX
  thread's). `"none"` means no channel exists yet. It splits
  `visdn_request_call` and `visdn_hangup` where another thread can get
  in: after the request is appended to the queue and before its pipe byte
  is written, and between the `visdn.lock` and `ast_chan->lock` sections.
  `"freed"` means Asterisk has freed the ast_channel after `visdn_hangup`
  returned.
- `has_call` is `visdn_chan->q931_call`. `q931_call->pvt` is set exactly
  while the channel thread is between setting it and clearing it (`PvtSet`).
- `softhangup`, `inband_info` and `answered` are the channel's fields.
- `cstate` abstracts `q931_call->state` to the classes that
  `visdn_hangup`'s switch and the tests of `visdn_answer` and
  `visdn_indicate` tell apart:
  - `"present"` is U6/N1, before PROCEEDING or MORE INFO;
  - `"overlap"` is U25/N2, after MORE INFO;
  - `"incoming"` is U9/N3, after PROCEEDING;
  - `"alerted"` is U7/N4, after ALERTING.
- `indicated` counts the calls of `visdn_indicate`, up to `MaxIndicates`.
- `ccbq` is the indication queue. `rq` is the request queue, with its pipe
  byte count `rbytes`.
- `qpc`, `ready` and `handling` are the q931 thread's place in
  `visdn_q931_thread_do_poll`, the fds `poll()` returned, and the
  indication being handled. `setup_tail` is what the SETUP handler still
  has to send after `ast_pbx_start` returned.
- `uaf` records an indication handler touching a freed channel, and
  `setup_uaf` the SETUP handler touching a visdn_chan its `ast_hangup`
  destroyed. The model then goes
  on as the code does.

**Actions.**

- The channel thread: `RequestCall`, `RequestCallAllocFails`,
  `RequestWrite`, `Answer`, `Indicate`, `HangupBegin`, `HangupWrite` and
  `HangupDestroy`.
- `Indicate` is `visdn_indicate`. It reads `q931_call->state` without
  `visdn.lock`. `IndicateRequest` gives the request each condition sends:
  - RINGING sends PROCEEDING from N1 and ALERTING from U6, U9, U25, N2
    and N3;
  - PROCEEDING sends PROCEEDING from N1, N2, U6 and U25;
  - PROGRESS sends PROGRESS;
  - DISCONNECT, BUSY and CONGESTION all send DISCONNECT.

  INBAND_INFO sets `inband_info`. The other conditions only start or stop
  a local tone, and are left out.
- `SetupIndication` is `visdn_q931_setup_indication` up to `ast_pbx_start`.
  When the PBX is not started, it runs to the end. `SetupOutcomes` lists its
  seven ways out: allocation failure, unsupported bearer capability, no
  extension, PBX start failure (en-bloc or overlap), and PBX start success
  (en-bloc or overlap). Each way gives the requests sent, where the channel
  ends, and whether the freed visdn_chan is used. `SetupTail` sends
  PROCEEDING or MORE INFO after the PBX thread has started, so `Answer` and
  `HangupBegin` can run in between.
- The q931 thread runs one loop: `RunTimers` (or `TimerT308`), then `Poll`,
  `IndicationRead`/`IndicationUse` until `IndicationsDone`,
  `RequestDispatch` until `RequestsDone`, and `DlcReceive`.
- An indication handler is split in two at `callpvt_to_astchan`. Between
  reading the pointer and using it, the handler holds no lock and no
  reference.
- `RequestDispatch` reads the pipe byte inside the queue lock. When the
  byte is not written yet, the thread blocks holding the lock
  (`ConsumerBlocked`), so no producer can append.

**From the spec.** call.c is not in `src/`. The library's reaction to each
request (`CcbDispatch`), to peer frames (the disjuncts of `DlcReceive`)
and to T308 (`TimerT308`) is modelled from the spec. The peer may send
SETUP (inbound calls), ALERTING, CONNECT, DISCONNECT or RELEASE in the
states where Q.931 allows them, or a frame for another call.

**Not modelled.** The call's reference count. Queued primitives hold no
reference (`visdn_queue_primitive` takes none). When the library drops its
own reference is call.c's business, so the model does not claim a
use-after-free of the `q931_call` itself. For the same reason, the
reference leaked on `err_visdn_new` is a hazard, not a property. INFO
indications (incoming digits) and the channel's frame I/O are left out. The reject handler is
modelled for a call dialled on an interface: it sets the soft hangup.
Hunting the next huntgroup member with a new SETUP is left out, because
the model has no T303 to end a peer that never answers the retry.

**B channel.** The library queues CONNECT-CHANNEL and DISCONNECT-CHANNEL
on the indication queue like any other primitive (`DlcChannel`, from the
spec). In the model, connect comes once the call is active and disconnect
once it is released. The library can also connect earlier, for in-band
tones before CONNECT. Those connects run the same handlers, and are left
out to keep the instance within the run's time budget.
- `sp` is `visdn_chan->sp_fd`: `"none"` (-1), `"open"`, or `"closed_kept"`
  (closed, but still >= 0). `ec` is `ec_fd >= 0`. `bchan` is where the
  library is: not connected, connected, or disconnected.
- `ChannelHandler` is the pair of handlers. The connect handler takes
  `ast_chan->lock`, and `ConnectOutcomes` lists where every exit leaves
  the two fds. The exits are:
  - readlink or channel-id failure, or a non-voice call;
  - the streamport open failing;
  - `VISDN_SP_GET_CHANID` failing, which leaks the open streamport;
  - `visdn_connect_channels` (`ConnectChannelsOutcomes`);
  - with `EchoCancel`, `visdn_connect_channels_with_ec`
    (`EcConnectOutcomes`). Its `err_ioctl` closes `sp_fd` without
    resetting it and leaves `ec_fd` open.
- `DisconnectFromVisdn` is `visdn_disconnect_chan_from_visdn`. Both the
  DISCONNECT-CHANNEL handler and `HangupDestroy` call it, as
  `visdn_hangup` does when `sp_fd >= 0`. `double_close` records a close of
  an `sp_fd` that is already closed.
- `EchoCancel` is `visdn_intf->echocancel`, a constant. The cfgs set it
  TRUE: with it, every exit of the connect handler is reachable, except
  the plain connect without echo canceller. That one leaves the same fds
  as the `VISDN_SP_GET_CHANID` failure, which is reachable either way.

**DTMF.** `dtmf_deferred` is set by `visdn_request_call`. It is cleared
by `visdn_undefer_dtmf_in`, which runs on MORE INFO, PROCEEDING and SETUP
CONFIRM, and flushes `dtmf_queue` as one INFO request.
- `SendDigit` is `visdn_send_digit`. It tests `dtmf_deferred` without the
  channel lock.
- Whether the caller holds the channel lock is a nondeterministic choice:
  `ast_write` holds it, and `ast_senddigit` does not.
- Without the lock the thread can stop between the test and
  `visdn_queue_dtmf` (`app = "digit"`). The append then happens in
  `QueueDigit`.
- A digit that finds the queue full (`DtmfQueueSize` - 1) is dropped, as
  the code does.

The bounds are `MaxDigits` = 2 and `DtmfQueueSize` = 2 in the DTMF run,
so that a second digit meets a full queue. The passing run sends one
digit (`MCCallMaxDigits`): it still defers, queues and flushes a digit,
and the second digit would double a state space the B channel has
already doubled.

**Indications.** The library's outbound call may deliver PROCEEDING,
PROGRESS and MORE INFO. It may also deliver SETUP CONFIRM in TE role,
CONNECT in NT role, or REJECT (the peer refused the SETUP). `CallFails` is `visdn_call` failing after the channel
was allocated, so that the channel thread goes on to hang up.

**Fairness.** The q931 thread is weakly fair: it loops for ever. T308 is
strongly fair, because `q931_run_timers` runs on every loop and time
passes. The channel thread is weakly fair in finishing a step it has
started. The dialplan's answer and hangup get no fairness. Asterisk hangs up a channel whose soft hangup is set, so
`HangupBegin` is weakly fair under `softhangup`. The caller and the peer
get no fairness.

`QueueDigit` is weakly fair, because it is the rest of a call the channel
thread has begun.

**Bound.** At most `MaxQueued` = 3 indications wait in the queue. That is
enough for ALERTING, CONNECT and DISCONNECT to be pending together. The
request queue is bounded by the code and by `MaxIndicates` = 1: the
dialplan's one indication may be any of the five conditions, and it races
the q931 thread and the answer. A bound of 2 multiplies the state space
(about 2.3 million states) several times, past the run's time budget.

**The NT answer race.** `AnsweredConnects` states that an inbound call
the PBX answers gets connected or cleared. `ChanVisdnCall_answer.cfg`
checks it, and TLC finds it violated in NT role. The SETUP handler queues
MORE INFO (or PROCEEDING) after `ast_pbx_start`. The PBX thread answers
while the call is still in N1. `visdn_answer` does not test N1, so it sends
nothing and returns success. The call then sits in N2 (or N3) for ever.
`PROJECT.json` records this as hazard `chan_visdn.c:836`. It has no run
entry, because the run budget is spent on findings of the same weight.

**The B-channel fds.** `PathReleasedOnHangup` (in the passing run) states
that once Asterisk has freed the channel, the streamport and
echo-canceller fds are closed. That holds whichever of the library's
DISCONNECT-CHANNEL and `visdn_hangup`'s own disconnect comes first, and
wherever the connect handler falls. A handler that used the freed
channel is left to `NoUseAfterFree`. `NoDoubleClose` states that no fd is
closed twice. `ChanVisdnCall_close.cfg` checks it, and TLC finds it
violated in 23 steps:
1. the connect handler takes `err_ioctl` of
   `visdn_connect_channels_with_ec`, which closes `sp_fd` but leaves it
   >= 0;
2. `visdn_hangup` then sees `sp_fd >= 0`, runs the disconnect ioctls on
   the dead fd, and closes it again.

In a process with other threads, that second close can close an fd
someone else has just opened. `PROJECT.json` records this as hazard
`chan_visdn.c:3347`, with no run for the same budget reason.

### StPort

**State.**
- The port's fields: `nt_mode`, `enabled`, `l1_state` and the LED colour.
- The chip: `line` (V_ST_STA), and `held`, which is set while a state
  loaded with V_ST_LD_STA stops the state machine.
- The two work items: `scw_pending`, and `fifo_pending` with its due tick
  `fifo_due`.
- The clock `now`, in ticks of 10 ms (HZ = 100).
- `up_since` and `cfg_since_up` record the latest activation the driver
  saw and whether the FIFO work has run since.

**Kernel work items.** A work item has one pending bit.
`schedule_work` or `schedule_delayed_work` on a pending item does nothing
(`ScheduleFifo`), and the bit is cleared as the work starts.

**Actions.**
- The environment:
  - `LineChange`: the line moves while not held, and the interrupt queues
    the state-change work;
  - `Tick`.
- The driver:
  - `StateChangeWork` is `hfc_st_port_state_change_work`. It reads the
    state, lets NT go from G2 to G3, and queues the FIFO work. The work is
    queued HZ/50 later when L1 goes active, and at once when L1 leaves
    active. It then stores `l1_state` and updates the LED.
  - `FifoActivationWork`.
- The port operations:
  - `StoreRole`;
  - `StoreL1State`, which includes its refusals;
  - `CheckL1Up`;
  - `Enable`;
  - `Disable`.

**Bounds.**
- `Settle` = 2 ticks. HZ/50 is 20 ms, although the code's comment says
  50 ms.
- `MaxTime` = 4.
- `MaxChanges` = 4.
- `LineStates` = {0, 1, 2, 3, 7}: the NT and TE active and deactivated
  states, NT's G2, and the reset state.

Four changes within twice the delay are enough for an up, down, up
sequence to occur inside one pending delay. The clock stops at `MaxTime`,
except that it runs on until a queued delayed work is due.

**Fairness.** The workqueue runs queued work and time passes. So
`StateChangeWork`, `FifoActivationWork` and `Tick` are weakly fair. Writes
to sysfs and the line get no fairness.

### Router

`ks_router_run` (`src/libkstreamer/router.c`) finds the cheapest path of
channels ("arches") between two nodes of a kstreamer connection.

**State.** The graph is chosen in Init: each arc's `from`, `to_of` and
`cost_of`, and `start` and `to`. `cost`, `done`, `prev` and `prev_thru`
are the nodes' router fields. `running` is the `while (1)` loop.

**Actions.**

- `Extract` is one pass of the loop that does not break. It takes an
  undone node of least cost (`MinCostNodes`) other than `to`, marks it
  done, and relaxes its arches (`RelaxFrom`).
- `Finish` is the pass that breaks: no undone node is left, or `to` has
  the least cost.
- The hash buckets' order is not fixed. So a tie for least cost, and the
  choice among parallel arcs of equal cost, are nondeterministic.
- Costs are C ints of `IntWidth` bits. `AddInt` wraps the way the build's
  int does. `INT_MAX` marks both an unreached node and an unusable arc
  (`Improves`).

**Reference definitions.** `CostWithin` is a RECURSIVE Bellman-style least
cost with at most k arcs, in unbounded integers. `Distance` caps it at
`IntMax`. `ChainCost` follows `prev_thru` back from a node.

**Properties.**

- `DoneAreShortest`: a node marked done, and `to` once the loop breaks,
  has its shortest distance as its cost.
- `RouteMatchesCost`: the route read back is a path of recorded arcs
  whose costs add up to `to`'s cost.
- `RouterReturns`: the loop always breaks. `WF_vars(Next)` holds, because
  the function runs to its return on the caller's thread.

**Bounds.** Three nodes and three arcs, all graphs over them,
`IntWidth` = 8, and arc costs {0, 1, INT_MAX}. Self-loops, parallel arcs,
unusable arcs, unreachable nodes and `start` = `to` all occur. Deadlock is
not checked, because the function returns.

**Overflow.** An arc cost near INT_MAX (INT_MAX - 1 with `IntWidth` = 8)
makes `cost + arch->cost` wrap negative. TLC then finds
`DoneAreShortest` violated through a self-loop: the node gets a negative
cost and becomes its own `prev`. This is recorded as hazard
`router.c:118`, with no run, because the channels' costs in vstuff are
small constants.

## Runs

| Run | Config | Expect | Shows |
|---|---|---|---|
| global_restart | `Q931Global.cfg` | pass | A peer restart waits exactly for the calls still on its channels. It acknowledges only released, restartable channels, and it always ends. |
| global_restart_ack_unrequested | `Q931Global_ref.cfg` | violation | The procedure does not implement the restart service: a confirmation left over from an abandoned restart makes the acknowledgement name a channel the peer did not ask for. |
| intf_calls | `Q931Intf.cfg` | pass | On the composition of call references and the DLC: references stay unique, nonzero and inside the field, each equals the reference definition, and autorelease is never pending while a call holds the link. |
| router | `Router.cfg` | pass | Over all graphs of three nodes and three arcs, and whatever the hash order, the router's costs are the shortest distances, the route read back adds up to the cost, and the loop returns. |
| dlc_free_with_timer | `Dlc_free.cfg` | violation | The DLC is freed with its autorelease timer armed. |
| suspend_resume | `SuspendResume.cfg` | pass | The registry matches the channels, suspended channels are bounded by T307, and the registry implements `CallParking`. |
| st_port | `StPort.cfg` | pass | The driver's `l1_state` ends up equal to the line, and every activation is followed by a FIFO activation. |
| st_port_fifo_settle | `StPort_settle.cfg` | violation | Going up, down and up again inside HZ/50 lets the FIFO work queued on the way down run right after the last activation, with no settle delay. |
| chan_visdn_call | `ChanVisdnCall.cfg` | pass | Outbound and inbound calls, TE and NT role, with one indication from the dialplan. Every queued request reaches the library: the pipe byte protocol loses no wakeup. A call the network clears always gets its channel hung up. The pipe never holds more bytes than messages. A freed channel has its streamport and echo-canceller fds closed. |
| dtmf_digit_stranded | `ChanVisdnCall_dtmf.cfg` | violation | A digit sent without the channel lock is queued after the q931 thread undeferred and flushed the queue, and stays there. |
| indication_use_after_free | `ChanVisdnCall_uaf.cfg` | violation | An indication handler that read `q931_call->pvt` locks an ast_channel that `visdn_hangup` and Asterisk freed in between. |
| setup_use_after_free | `ChanVisdnCall_setup.cfg` | violation | A rejected inbound SETUP destroys the visdn_chan twice (unsupported bearer capability), or reads it after `ast_hangup` (PBX start failure). |

**Why the bounds are enough.**

- Q931Global uses three channels, one of them leased. That is enough for a
  restart that names a busy and an idle channel together, a channel that
  must be excluded, and a third call seizing a channel in the middle.
- The retransmit counter is bounded by the code itself (2).

Each property of a passing run has a mutant in `PROJECT.json`: a plausible
bug in the code it is about, under which TLC finds the property violated.

## What is not modelled, and why

- **MANAGEMENT-RESTART-CONFIRM's channel set.** `global.c:182` passes a
  local set that the intersection never filled, so the set is always
  empty. Q931Global's confirm carries that empty set in `prim.chans`. No
  run checks it, because the only consumer
  (`visdn_q931_management_restart_confirm`) ignores it.
- **A hangup racing the queued SETUP_REQUEST.** ChanVisdnCall reaches it:
  `visdn_hangup` sends nothing for a call still in the null state, and the
  SETUP goes out afterwards for a call nobody owns. This is listed as a
  hazard, not a run, because the project is at its run budget.

- **Defined but unchecked properties.** The run budget is spent on the
  deepest questions. Some properties a single call already violates stay
  defined, with a hazard note in `PROJECT.json`, but no run checks them:
  - `Q931Global`: `NoCrash` (the NULL `restart_indicator`),
    `PeerRestartAcknowledged` (T317 sends RESTART) and `LocalRestartEnds`;
  - `SuspendResume`: `ResumeRejectCause` (the swapped causes);
  - `CallRef`: `TakeTerminates`.
  - `ChanVisdnCall`: `AnsweredConnects` (the NT answer race) and
    `NoDoubleClose` (the streamport closed twice).
- **StPort's other attributes.** The clock, sampling and loopback
  attributes, `st_port_sysfs.c`, and the interrupt handler, which is not in
  the repository.
- **The router's overflow.** This is described under Router. The passing
  run keeps the costs where no addition wraps.
- **call.c.** The full Q.931 call state machine is not in `src/`.
- **IE codecs, sockets, sysfs, hardware registers, pppd spawning and the
  traffic tool.** These are I/O with no protocol state of their own.
- **The softswitch module.** It forwards frames under RCU and has no state
  of its own. The pipeline lists it reads are written by kstreamer, which
  is not in `src/`, so there is no writer to race it with.
- **Early B-channel connects.** The library may connect the bearer before
  CONNECT, for in-band tones. ChanVisdnCall connects it only once the call
  is active, and disconnects it only once the call is released. Every
  handler path is still reached, and the wider choice would put the run
  past its time budget. The library asks for one connect per call in the model.
  A second CONNECT-CHANNEL would make `visdn_q931_connect_channel` open a
  new streamport over the old `sp_fd` (`chan_visdn.c:3393`), without
  closing it. No property depends on a second connect.

## Plan for later work

The project uses all 12 runs and 40 hazards. New questions therefore go
into existing runs as properties, or replace a run or a hazard.

1. **Thread handoff for suspend/resume.** Fold the suspended-call registry
   into ChanVisdnCall's two-thread model. Then suspend, which runs on the
   q931 thread and clears `pvt` without `visdn.lock`, can race
   `visdn_hangup`.
2. **Huntgroup retry.** Add the reject handler's retry on the next
   huntgroup member, with T303 from the spec. Let the B channel connect
   in every offered state once a faster instance allows it.
3. **Composition.** Q931Global with Dlc: the global call's messages hold
   the DLC they go out on.
4. **Larger bounds.** Four channels for Q931Global, two digits in the passing run and three for DTMF,
   and four router nodes.
