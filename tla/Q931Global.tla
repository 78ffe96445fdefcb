----------------------------- MODULE Q931Global -----------------------------
(***************************************************************************)
(* The global call (call reference 0) of a libq931 interface: the restart *)
(* procedure of src/libq931/global.c.                                     *)
(*                                                                         *)
(* The peer is arbitrary: any RESTART, RESTART ACKNOWLEDGE, STATUS or      *)
(* other message on the global call reference may arrive in any state.     *)
(* The application may issue a management restart request at any time.   *)
(* T316 and T317 fire whenever they are pending (the worker's run-timers   *)
(* sweep).  A call occupying a channel is abstracted to "active" or        *)
(* "restarting"; the call state machine (call.c) is not in src/, so its    *)
(* part -- a call taking a channel, clearing, and finishing a restart by   *)
(* calling q931_global_restart_confirm -- is modelled from the spec.       *)
(*                                                                         *)
(* Each step records the message it sends to the peer in `out` and the     *)
(* primitive it queues for the application in `prim`.                      *)
(***************************************************************************)
EXTENDS Naturals, FiniteSets

CONSTANTS
    Chans,          \* the B-channels of the interface, intf->channels[]
    Unrestartable,  \* channels in MAINTAINANCE or LEASED state
    PeerClasses,    \* restart classes the peer may send in a RESTART
    InitRI          \* class of gc->restart_indicator when checking starts

Indicated  == "INDICATED"          \* Q931_IE_RI_C_INDICATED
SingleIntf == "SINGLE_INTERFACE"   \* Q931_IE_RI_C_SINGLE_INTERFACE
AllIntf    == "ALL_INTERFACES"     \* Q931_IE_RI_C_ALL_INTERFACES
NoRI       == "NONE"               \* gc->restart_indicator == NULL
RIClasses  == {Indicated, SingleIntf, AllIntf}

ASSUME /\ Unrestartable \subseteq Chans
       /\ PeerClasses \subseteq RIClasses
       /\ InitRI \in RIClasses \cup {NoRI}

GlobalStates == {"NULL", "RESTART_REQUEST", "RESTART"}
CallStates   == {"none", "active", "restarting"}

\* A channel identification IE, or its absence.
CIs == {[present |-> FALSE, chans |-> {}]}
         \cup {[present |-> TRUE, chans |-> s] : s \in SUBSET Chans}

Causes == {"none", "INVALID_CALL_REFERENCE_VALUE",
           "IDENTIFIED_CHANNEL_DOES_NOT_EXIST"}
Msgs   == [type : {"RESTART", "RESTART_ACKNOWLEDGE", "STATUS"},
           chans : SUBSET Chans, cause : Causes]
NoMsg  == [type |-> "none", chans |-> {}, cause |-> "none"]
Prims  == [type : {"MANAGEMENT_RESTART_CONFIRM",
                   "TIMEOUT_MANAGEMENT_INDICATION",
                   "STATUS_MANAGEMENT_INDICATION"},
           ok : BOOLEAN, chans : SUBSET Chans]
NoPrim == [type |-> "none", ok |-> FALSE, chans |-> {}]

VARIABLES
    state,                     \* gc->state
    reqd,                      \* gc->restart_reqd_chans
    acked,                     \* gc->restart_acked_chans
    T316, T317,                \* pending global timers
    T317_expired,              \* gc->T317_expired
    restart_responded,         \* gc->restart_responded
    restart_acknowledged,      \* gc->restart_acknowledged
    restart_retransmit_count,  \* gc->restart_retransmit_count
    ri,                        \* gc->restart_indicator->restart_class
    call,                      \* chan->call of each channel, abstracted
    out,                       \* message sent to the peer by the last step
    prim,                      \* primitive queued by the last step
    crashed                    \* an assert or a NULL dereference was hit

gcVars == <<state, reqd, acked, T316, T317, T317_expired, restart_responded,
            restart_acknowledged, restart_retransmit_count, ri>>
vars == <<gcVars, call, out, prim, crashed>>

-----------------------------------------------------------------------------

Status(cause) == [type |-> "STATUS", chans |-> {}, cause |-> cause]

\* The channel identification IE is only added for the INDICATED class.
WithCI(type, chans, cls) ==
    [type |-> type, chans |-> IF cls = Indicated THEN chans ELSE {},
     cause |-> "none"]

\* q931_global_primitive1(gc, MANAGEMENT_RESTART_CONFIRM, &cs): cs is
\* initialised empty and q931_chanset_intersect() stores its result in
\* restart_reqd_chans, so the channel set passed is always empty.
RestartConfirmed == [type |-> "MANAGEMENT_RESTART_CONFIRM", ok |-> TRUE,
                     chans |-> {}]
\* ... and a NULL channel set when the restart has failed.
RestartFailed == [type |-> "MANAGEMENT_RESTART_CONFIRM", ok |-> FALSE,
                  chans |-> {}]

\* Mutant: the LEASED test of q931_channel_is_restartable is dropped.
RestartableIgnoresLeased(c) == TRUE

\* q931_channel_is_restartable
Restartable(c) == c \notin Unrestartable

\* An assert(0) or a NULL dereference: the process is gone.
Crash == /\ crashed' = TRUE
         /\ out' = NoMsg /\ prim' = NoPrim
         /\ UNCHANGED gcVars

ResetRestartFlags ==
    /\ T317_expired' = FALSE
    /\ restart_retransmit_count' = 0
    /\ restart_responded' = FALSE
    /\ restart_acknowledged' = FALSE

-----------------------------------------------------------------------------

Init ==
    /\ state = "NULL"
    /\ reqd = {} /\ acked = {}
    /\ T316 = FALSE /\ T317 = FALSE
    /\ T317_expired = FALSE /\ restart_responded = FALSE
    /\ restart_acknowledged = FALSE /\ restart_retransmit_count = 0
    /\ ri = InitRI
    /\ call = [c \in Chans |-> "none"]
    /\ out = NoMsg /\ prim = NoPrim
    /\ crashed = FALSE

-----------------------------------------------------------------------------
(* Requests from the application.                                          *)

\* q931_management_restart_request in state NULL.  The class comes from the
\* restart indicator the last peer RESTART left in gc->restart_indicator:
\* NULL on a fresh interface, and ALL_INTERFACES hits assert(0).  The loop
\* that would hand the request to the calls on the channels is compiled
\* out (#if 0), so no call is told and T317 is not started.
ManagementRestartRequest ==
    /\ ~crashed
    /\ state = "NULL"
    /\ \E cs \in (SUBSET Chans) \ {{}} :
         IF ri \in {NoRI, AllIntf}
         THEN Crash /\ UNCHANGED call
         ELSE /\ ResetRestartFlags
              /\ reqd' = IF ri = Indicated THEN cs ELSE reqd
              /\ acked' = IF ri = Indicated THEN {} ELSE acked
              /\ out' = WithCI("RESTART", cs, ri)
              /\ T316' = TRUE
              /\ state' = "RESTART_REQUEST"
              /\ prim' = NoPrim
              /\ UNCHANGED <<T317, ri, call, crashed>>

\* q931_management_restart_request in RESTART_REQUEST or RESTART: ignored.
ManagementRestartIgnored ==
    /\ ~crashed
    /\ state # "NULL"
    /\ out' = NoMsg /\ prim' = NoPrim
    /\ UNCHANGED <<gcVars, call, crashed>>

-----------------------------------------------------------------------------
(* Messages from the peer on the global call reference.                    *)

\* Mutant: the loop over the channels neither tells the calls to restart
\* nor starts T317 (as in the #if 0 of q931_management_restart_request).
HandleRestartNoCascade ==
    /\ ~crashed
    /\ state = "NULL"
    /\ \E cls \in PeerClasses, ci \in CIs :
        LET named == IF ci.present THEN ci.chans ELSE Chans
            req   == {c \in named : Restartable(c)}
            busy  == {c \in req : call[c] # "none"}
        IN /\ req # {} /\ busy # {}
           /\ ri' = cls /\ ResetRestartFlags
           /\ reqd' = busy /\ acked' = req \ busy
           /\ state' = "RESTART"
           /\ out' = NoMsg /\ prim' = NoPrim
           /\ UNCHANGED <<T316, T317, call, crashed>>

\* q931_global_handle_restart in state NULL.  Without a channel
\* identification every channel is named.  Each restartable named channel
\* with a call gets q931_restart_request and T317 is started; each one
\* without a call is confirmed at once by q931_global_restart_confirm,
\* which sends RESTART ACKNOWLEDGE when the last one is confirmed.
HandleRestart ==
    /\ ~crashed
    /\ state = "NULL"
    /\ \E cls \in PeerClasses, ci \in CIs :
        LET named == IF ci.present THEN ci.chans ELSE Chans
            req   == {c \in named : Restartable(c)}
            busy  == {c \in req : call[c] # "none"}
        IN IF req # {} /\ busy = {} /\ cls = AllIntf
           THEN Crash /\ UNCHANGED call   \* assert(0) in restart_confirm
           ELSE
            /\ ri' = cls
            /\ ResetRestartFlags
            /\ prim' = NoPrim
            /\ UNCHANGED <<T316, crashed>>
            /\ IF req = {}
               THEN /\ reqd' = {} /\ acked' = {}
                    /\ out' = Status("IDENTIFIED_CHANNEL_DOES_NOT_EXIST")
                    /\ UNCHANGED <<state, T317, call>>
               ELSE /\ call' = [c \in Chans |->
                                  IF c \in busy THEN "restarting" ELSE call[c]]
                    /\ reqd' = busy
                    /\ acked' = req \ busy
                    /\ IF busy = {}
                       THEN /\ state' = "NULL"
                            /\ T317' = FALSE
                            /\ out' = WithCI("RESTART_ACKNOWLEDGE", req, cls)
                       ELSE /\ state' = "RESTART"
                            /\ T317' = TRUE
                            /\ out' = NoMsg

\* q931_global_handle_restart in RESTART_REQUEST or RESTART.
RejectRestart ==
    /\ ~crashed
    /\ state # "NULL"
    /\ out' = Status("INVALID_CALL_REFERENCE_VALUE")
    /\ prim' = NoPrim
    /\ UNCHANGED <<gcVars, call, crashed>>

\* q931_global_handle_restart_acknowledge in RESTART_REQUEST.
HandleRestartAcknowledge ==
    /\ ~crashed
    /\ state = "RESTART_REQUEST"
    /\ \E ci \in CIs :
        /\ T316' = FALSE
        /\ IF restart_responded \/ T317_expired
           THEN /\ reqd' = reqd \cap acked
                /\ state' = "NULL"
                /\ prim' = RestartConfirmed
                /\ UNCHANGED <<acked, restart_acknowledged>>
           ELSE /\ acked' = acked \cup ci.chans
                /\ restart_acknowledged' = TRUE
                /\ prim' = NoPrim
                /\ UNCHANGED <<reqd, state>>
        /\ out' = NoMsg
        /\ UNCHANGED <<T317, T317_expired, restart_responded,
                       restart_retransmit_count, ri, call, crashed>>

\* q931_global_handle_restart_acknowledge in NULL or RESTART.
RejectRestartAcknowledge ==
    /\ ~crashed
    /\ state # "RESTART_REQUEST"
    /\ out' = Status("INVALID_CALL_REFERENCE_VALUE")
    /\ prim' = NoPrim
    /\ UNCHANGED <<gcVars, call, crashed>>

\* q931_global_state_to_ie_state
StateIE == [s \in GlobalStates |->
              CASE s = "NULL" -> "REST0"
                [] s = "RESTART_REQUEST" -> "REST1"
                [] s = "RESTART" -> "REST2"]

\* q931_global_handle_status outside NULL: a call state other than ours is
\* reported to the application.  (In NULL it does nothing.)
HandleStatus ==
    /\ ~crashed
    /\ state # "NULL"
    /\ \E v \in {"REST0", "REST1", "REST2"} :
         prim' = IF v = StateIE[state] THEN NoPrim
                 ELSE [type |-> "STATUS_MANAGEMENT_INDICATION", ok |-> FALSE,
                       chans |-> {}]
    /\ out' = NoMsg
    /\ UNCHANGED <<gcVars, call, crashed>>

\* q931_dispatch_global_message, default: any other message type.
HandleOtherMessage ==
    /\ ~crashed
    /\ out' = Status("INVALID_CALL_REFERENCE_VALUE")
    /\ prim' = NoPrim
    /\ UNCHANGED <<gcVars, call, crashed>>

-----------------------------------------------------------------------------
(* Timers.                                                                  *)

\* Mutant: T316 gives up one expiry late (count > 2).
TimerT316Late ==
    /\ ~crashed
    /\ T316
    /\ state = "RESTART_REQUEST"
    /\ restart_retransmit_count' = restart_retransmit_count + 1
    /\ IF restart_retransmit_count + 1 > 2
       THEN state' = "NULL" /\ T316' = FALSE /\ prim' = RestartFailed
       ELSE UNCHANGED <<state, T316>> /\ prim' = NoPrim
    /\ out' = NoMsg
    /\ UNCHANGED <<reqd, acked, T317, T317_expired, restart_responded,
                   restart_acknowledged, ri, call, crashed>>

\* q931_global_timer_T316: retransmit RESTART once, then give up.
TimerT316 ==
    /\ ~crashed
    /\ T316
    /\ CASE state = "RESTART_REQUEST" ->
              /\ restart_retransmit_count' = restart_retransmit_count + 1
              /\ IF restart_retransmit_count + 1 >= 2
                 THEN /\ state' = "NULL"
                      /\ T316' = FALSE
                      /\ prim' = RestartFailed
                      /\ out' = NoMsg
                 ELSE /\ out' = WithCI("RESTART", reqd, ri)
                      /\ T316' = TRUE
                      /\ prim' = NoPrim
                      /\ UNCHANGED state
         [] OTHER ->
              /\ T316' = FALSE
              /\ out' = NoMsg /\ prim' = NoPrim
              /\ UNCHANGED <<state, restart_retransmit_count>>
    /\ UNCHANGED <<reqd, acked, T317, T317_expired, restart_responded,
                   restart_acknowledged, ri, call, crashed>>

\* q931_global_timer_T317.  In RESTART it finishes the peer's restart:
\* it sends a RESTART (not a RESTART ACKNOWLEDGE) naming the channels
\* confirmed so far, if any, and reports the timeout.
TimerT317 ==
    /\ ~crashed
    /\ T317
    /\ T317' = FALSE
    /\ CASE state = "RESTART_REQUEST" ->
              IF restart_acknowledged
              THEN /\ reqd' = reqd \cap acked
                   /\ state' = "NULL"
                   /\ prim' = RestartConfirmed
                   /\ out' = NoMsg
                   /\ UNCHANGED T317_expired
              ELSE /\ T317_expired' = TRUE
                   /\ out' = NoMsg /\ prim' = NoPrim
                   /\ UNCHANGED <<reqd, state>>
         [] state = "RESTART" ->
              /\ out' = IF acked # {}
                        THEN [type |-> "RESTART", chans |-> acked,
                              cause |-> "none"]
                        ELSE NoMsg
              /\ state' = "NULL"
              /\ prim' = [type |-> "TIMEOUT_MANAGEMENT_INDICATION",
                          ok |-> FALSE, chans |-> {}]
              /\ UNCHANGED <<reqd, T317_expired>>
         [] OTHER ->
              /\ out' = NoMsg /\ prim' = NoPrim
              /\ UNCHANGED <<reqd, state, T317_expired>>
    /\ UNCHANGED <<acked, T316, restart_responded, restart_acknowledged,
                   restart_retransmit_count, ri, call, crashed>>

-----------------------------------------------------------------------------
(* The calls on the channels (call.c, modelled from the spec).             *)

\* Mutant: in RESTART the emptiness test reads restart_reqd_chans before
\* the confirmed channel is deleted from it.
GlobalRestartConfirmStaleCheck(c) ==
    IF state = "RESTART" /\ reqd # {}
    THEN /\ reqd' = reqd \ {c} /\ acked' = acked \cup {c}
         /\ out' = NoMsg /\ prim' = NoPrim
         /\ UNCHANGED <<state, T316, T317, T317_expired, restart_responded,
                        restart_acknowledged, restart_retransmit_count,
                        ri, crashed>>
    ELSE /\ out' = NoMsg /\ prim' = NoPrim
         /\ UNCHANGED <<gcVars, crashed>>

\* q931_global_restart_confirm(gc, dlc, c), called by a call that has
\* finished the restart it was asked for.
GlobalRestartConfirm(c) ==
    LET r == reqd \ {c}
        a == acked \cup {c}
    IN CASE state = "RESTART_REQUEST" ->
              /\ reqd' = r /\ acked' = a
              /\ IF r = {}
                 THEN /\ T317' = FALSE
                      /\ IF restart_acknowledged
                         THEN /\ state' = "NULL"
                              /\ prim' = RestartConfirmed
                              /\ UNCHANGED restart_responded
                         ELSE /\ restart_responded' = TRUE
                              /\ prim' = NoPrim
                              /\ UNCHANGED state
                 ELSE /\ prim' = NoPrim
                      /\ UNCHANGED <<T317, state, restart_responded>>
              /\ out' = NoMsg
              /\ UNCHANGED <<T316, T317_expired, restart_acknowledged,
                             restart_retransmit_count, ri, crashed>>
         [] state = "RESTART" /\ r = {} /\ ri = AllIntf ->
              Crash
         [] state = "RESTART" ->
              /\ reqd' = r /\ acked' = a
              /\ IF r = {}
                 THEN /\ T317' = FALSE
                      /\ state' = "NULL"
                      /\ out' = WithCI("RESTART_ACKNOWLEDGE", a, ri)
                 ELSE /\ out' = NoMsg
                      /\ UNCHANGED <<T317, state>>
              /\ prim' = NoPrim
              /\ UNCHANGED <<T316, T317_expired, restart_responded,
                             restart_acknowledged, restart_retransmit_count,
                             ri, crashed>>
         [] OTHER ->    \* NULL: unexpected primitive, ignored
              /\ out' = NoMsg /\ prim' = NoPrim
              /\ UNCHANGED <<gcVars, crashed>>

\* A call is set up on a free channel (inbound SETUP or setup request).
CallSeize(c) ==
    /\ ~crashed
    /\ call[c] = "none"
    /\ Restartable(c)
    /\ call' = [call EXCEPT ![c] = "active"]
    /\ out' = NoMsg /\ prim' = NoPrim
    /\ UNCHANGED <<gcVars, crashed>>

\* A call clears normally and frees its channel.
CallRelease(c) ==
    /\ ~crashed
    /\ call[c] = "active"
    /\ call' = [call EXCEPT ![c] = "none"]
    /\ out' = NoMsg /\ prim' = NoPrim
    /\ UNCHANGED <<gcVars, crashed>>

\* A call told to restart has gone through DISCONNECT/RELEASE, frees its
\* channel and confirms to the global call.
CallRestartDone(c) ==
    /\ ~crashed
    /\ call[c] = "restarting"
    /\ call' = [call EXCEPT ![c] = "none"]
    /\ GlobalRestartConfirm(c)

-----------------------------------------------------------------------------

Next ==
    \/ ManagementRestartRequest
    \/ ManagementRestartIgnored
    \/ HandleRestart
    \/ RejectRestart
    \/ HandleRestartAcknowledge
    \/ RejectRestartAcknowledge
    \/ HandleStatus
    \/ HandleOtherMessage
    \/ TimerT316
    \/ TimerT317
    \/ \E c \in Chans : CallSeize(c) \/ CallRelease(c) \/ CallRestartDone(c)

\* The worker sweeps expired timers on every loop, and a call told to
\* restart is bounded by its own T308 supervision; the peer and the
\* application are not obliged to do anything.
Fairness ==
    /\ WF_vars(TimerT316)
    /\ WF_vars(TimerT317)
    /\ \A c \in Chans : WF_vars(CallRestartDone(c))

Spec == Init /\ [][Next]_vars /\ Fairness

-----------------------------------------------------------------------------
(* Properties.                                                              *)

TypeOK ==
    /\ state \in GlobalStates
    /\ reqd \subseteq Chans /\ acked \subseteq Chans
    /\ {T316, T317, T317_expired, restart_responded,
        restart_acknowledged, crashed} \subseteq BOOLEAN
    /\ restart_retransmit_count \in 0..2
    /\ ri \in RIClasses \cup {NoRI}
    /\ call \in [Chans -> CallStates]
    /\ out \in Msgs \cup {NoMsg}
    /\ prim \in Prims \cup {NoPrim}

\* While a peer-initiated restart is in progress (handle_restart with calls
\* on the channels), every channel it still waits for is held by a call
\* that was told to restart, and T317 supervises the wait.
RestartAwaitsCalls ==
    state = "RESTART" =>
        /\ T317
        /\ reqd # {}
        /\ \A c \in reqd : call[c] = "restarting"

\* A RESTART ACKNOWLEDGE (restart_confirm in RESTART) never names a channel
\* in maintenance or leased, nor one whose call is still being released.
AckNamesReleasedChannels ==
    out.type = "RESTART_ACKNOWLEDGE" =>
        \A c \in out.chans : c \notin Unrestartable /\ call[c] # "restarting"

\* Every restart the peer starts ends (restart_confirm or T317).
PeerRestartEnds == state = "RESTART" ~> state = "NULL"

\* Every restart the application requests ends, confirmed or failed.
LocalRestartEnds == state = "RESTART_REQUEST" ~> state = "NULL"

\* A restart the peer started is finished with a RESTART ACKNOWLEDGE.
PeerRestartAcknowledged ==
    [][state = "RESTART" /\ state' = "NULL" =>
         out'.type = "RESTART_ACKNOWLEDGE"]_vars

\* No peer message or application request drives the global call into an
\* assert or a NULL dereference.
NoCrash == ~crashed

\* The restart service this procedure implements: the global state read as
\* a phase, the channels of a peer restart as restart_reqd_chans (still
\* held) together with restart_acked_chans (already free), and a channel's
\* call as free, busy or clearing.
RestartService == INSTANCE GlobalRestartService WITH
    phase   <- CASE state = "NULL" -> "idle"
                 [] state = "RESTART" -> "peer"
                 [] state = "RESTART_REQUEST" -> "local",
    named   <- IF state = "RESTART" THEN reqd \cup acked ELSE {},
    pending <- IF state = "RESTART" THEN reqd ELSE {},
    chan    <- [c \in Chans |-> CASE call[c] = "none" -> "free"
                                 [] call[c] = "active" -> "busy"
                                 [] call[c] = "restarting" -> "clearing"],
    reply   <- IF out.type = "RESTART_ACKNOWLEDGE"
               THEN [ack |-> TRUE, chans |-> out.chans]
               ELSE [ack |-> FALSE, chans |-> {}]

\* The procedure implements the restart service: a RESTART ACKNOWLEDGE is
\* sent only when none of the channels the peer named is held any more,
\* and names exactly those channels (q931_global_handle_restart and
\* q931_global_restart_confirm with the calls of call.c); every peer
\* restart ends.
RestartServiceRefined == RestartService!Spec

=============================================================================
