---------------------------- MODULE ChanVisdnCall ----------------------------
(***************************************************************************)
(* One call of chan_visdn (src/chan_visdn/chan_visdn.c), outbound or      *)
(* inbound, as seen by the two threads that touch it:                     *)
(*                                                                         *)
(*  - the Asterisk channel thread (for an inbound call the PBX thread     *)
(*    ast_pbx_start spawns), which places an outbound call                *)
(*    (visdn_request_call), answers an inbound one (visdn_answer) and     *)
(*    hangs up (visdn_hangup), after which Asterisk frees the channel;    *)
(*  - the q931 thread, which runs visdn_q931_thread_do_poll for ever:     *)
(*    timers, poll, drain the indication queue (q931_ccb), drain the      *)
(*    request queue (ccb_q931), then receive from the D channel.  An      *)
(*    inbound call's channel is created by its SETUP indication handler.  *)
(*                                                                         *)
(* Requests cross to the q931 thread through visdn.ccb_q931_queue and a   *)
(* pipe that receives one byte per request.  The library side (call.c,   *)
(* not in src/) is modelled from the spec: the call's Q.931 state is      *)
(* abstracted to the classes visdn_hangup's and visdn_answer's state      *)
(* tests tell apart.                                                       *)
(***************************************************************************)
EXTENDS Naturals, Sequences

CONSTANTS
    MaxQueued,     \* bound on the indications queued and not yet dispatched
    MaxDigits,     \* bound on the digits the application sends
    MaxIndicates,  \* bound on the calls of visdn_indicate
    EchoCancel,    \* visdn_intf->echocancel
    DtmfQueueSize  \* sizeof(visdn_chan->dtmf_queue), its '\0' included

ASSUME MaxQueued \in Nat \ {0} /\ MaxDigits \in Nat /\ MaxIndicates \in Nat
       /\ EchoCancel \in BOOLEAN
       /\ DtmfQueueSize \in Nat \ {0}

\* Classes of q931_call->state.  "null" is U0/N0 before SETUP, "released"
\* is U0/N0 after the call was cleared.  "present" is U6 (TE) or N1 (NT),
\* an inbound call not yet answered with PROCEEDING or MORE INFO;
\* "overlap" is U25/N2 after MORE INFO, "incoming" U9/N3 after
\* PROCEEDING, "alerted" U7/N4 after ALERTING.  "outgoing" is an outbound
\* call before CONNECT.
CallStates == {"null", "present", "overlap", "incoming", "alerted",
               "outgoing", "active", "disc_ind", "releasing", "released"}

\* The states of an inbound call after the first answer to its SETUP.
Offered == {"overlap", "incoming", "alerted"}

Indications == {"SETUP_INDICATION", "ALERTING_INDICATION",
                "CONNECT_INDICATION", "DISCONNECT_INDICATION",
                "RELEASE_INDICATION", "RELEASE_CONFIRM",
                "PROCEEDING_INDICATION", "PROGRESS_INDICATION",
                "CONNECT_CHANNEL", "DISCONNECT_CHANNEL",
                "MORE_INFO_INDICATION", "SETUP_CONFIRM", "REJECT_INDICATION"}
Requests == {"SETUP_REQUEST", "SETUP_COMPLETE_REQUEST", "SETUP_RESPONSE",
             "PROCEEDING_REQUEST", "MORE_INFO_REQUEST", "REJECT_REQUEST",
             "DISCONNECT_REQUEST", "RELEASE_REQUEST", "INFO_REQUEST",
             "ALERTING_REQUEST", "PROGRESS_REQUEST"}

\* The control conditions visdn_indicate acts on: DISCONNECT, BUSY and
\* CONGESTION differ only in the cause they send ("clear").  The others
\* only start or stop a tone, or are refused, and leave the call alone.
Conditions == {"RINGING", "PROCEEDING", "PROGRESS", "clear", "INBAND_INFO"}

\* Program points of the channel thread.  "none": no channel exists (an
\* inbound call before its SETUP is handled, or whose channel could not
\* be allocated); "freed": Asterisk has freed the ast_channel and
\* visdn_hangup has destroyed the visdn_chan; "digit": visdn_send_digit,
\* called without the channel lock, found DTMF deferred and is about to
\* queue the digit.
AppPCs == {"none", "idle", "req_write", "run", "hup_write", "hungup",
           "freed", "digit"}

\* Program points of the q931 thread's poll loop.  "ind_use" is inside an
\* indication handler after callpvt_to_astchan; "setup_tail" is inside
\* the SETUP handler after ast_pbx_start succeeded.
QPCs == {"timers", "poll", "q931_ccb", "ind_use", "setup_tail", "ccb_q931",
         "dlc"}
Fds == {"q931_ccb", "ccb_q931", "dlc"}

VARIABLES
    role,         \* the interface's LAPD role, "TE" or "NT"
    inbound,      \* the call came from the network
    app,          \* program point of the channel thread
    has_call,     \* visdn_chan->q931_call is set
    softhangup,   \* ast_chan->_softhangup has AST_SOFTHANGUP_DEV
    inband_info,  \* visdn_chan->inband_info
    answered,     \* the PBX has called visdn_answer
    cstate,       \* class of q931_call->state
    ccbq,         \* visdn.q931_ccb_queue: indications for the call
    rq,           \* visdn.ccb_q931_queue: requests for the call
    rbytes,       \* bytes in the ccb_q931 pipe
    qpc,          \* program point of the q931 thread
    ready,        \* the fds poll() returned readable in this loop
    handling,     \* the indication the q931 thread is dispatching
    setup_tail,   \* the requests the SETUP handler has still to send
    uaf,          \* an indication handler used a freed ast_channel
    setup_uaf,    \* the SETUP handler used a visdn_chan already destroyed
    dtmf_deferred, \* visdn_chan->dtmf_deferred
    dtmf_queue,   \* strlen(visdn_chan->dtmf_queue): digits held back
    dialled,      \* digits the application has passed to visdn_send_digit
    indicated,    \* calls of visdn_indicate so far
    sp,           \* visdn_chan->sp_fd: "none" (-1), "open", or "closed_kept"
                  \* (closed by an error path but still >= 0)
    ec,           \* visdn_chan->ec_fd >= 0 (open)
    double_close, \* close() was called on an sp_fd already closed
    bchan         \* the library's B channel: "idle", "connected", "done"

conf == <<role, inbound>>
bpath == <<sp, ec, double_close>>
chan == <<has_call, softhangup, inband_info, answered>>
queues == <<ccbq, rq, rbytes>>
qthread == <<qpc, ready, handling, setup_tail>>
flags == <<uaf, setup_uaf>>
dtmf == <<dtmf_deferred, dtmf_queue, dialled>>
vars == <<conf, indicated, bpath, bchan, app, chan, cstate, queues, qthread, flags, dtmf>>

-----------------------------------------------------------------------------
(* Helpers.                                                                 *)

\* q931_call->pvt: set by visdn_request_call or the SETUP handler,
\* cleared by visdn_hangup before it drops the call.
PvtSet == app \in {"req_write", "run", "digit", "hup_write"}

\* visdn_ccb_q931_receive reads the pipe byte while it holds
\* ccb_q931_queue_lock: with a request queued and its byte not yet
\* written it blocks in read() holding the lock, and no one can append.
ConsumerBlocked == qpc = "ccb_q931" /\ rq # <<>> /\ rbytes = 0

\* visdn_queue_primitive appends an indication.  At the bound the peer's
\* next frame waits.
Emit(p) == Len(ccbq) < MaxQueued /\ ccbq' = Append(ccbq, p)

\* Mutant: the wakeup byte of q931_send_primitive is never written.
WakeupByteLost(b) == b

\* write(visdn.ccb_q931_queue_pipe_write, " ", 1)
WakeupByte(b) == b + 1

\* The pipe after n calls of q931_send_primitive, one byte each.
RECURSIVE WakeupBytes(_, _)
WakeupBytes(b, n) == IF n = 0 THEN b ELSE WakeupBytes(WakeupByte(b), n - 1)

\* q931_send_primitive called by the q931 thread itself: each request is
\* appended and its byte written before the thread can consume.
SendFromQ(reqs) ==
    /\ rq' = rq \o reqs
    /\ rbytes' = WakeupBytes(rbytes, Len(reqs))

\* The request visdn_hangup sends for a call in state s.  U6/N1 send
\* nothing ("no ast_chan has been created yet").
HangupRequest(s) ==
    CASE s \in Offered \cup {"outgoing", "active"} -> <<"DISCONNECT_REQUEST">>
      [] s = "disc_ind"                            -> <<"RELEASE_REQUEST">>
      [] OTHER                                     -> <<>>

\* visdn_answer sends SETUP_RESPONSE only in U6, U7, U9, U25, N2, N3, N4:
\* N1 is not among them.
AnswerSends(r, s) == s \in Offered \/ (s = "present" /\ r = "TE")

\* Mutant: only RELEASE CONFIRM sets the soft hangup.
SoftHangupOnConfirmOnly(p) == p = "RELEASE_CONFIRM"

\* visdn_q931_reject_indication, for a call dialled on an interface (no
\* huntgroup, or no huntgroup member left to hunt): set the soft hangup.
\* Hunting the next member with a new SETUP (visdn_request_call on the
\* q931 thread) is not modelled.
RejectSetsSoftHangup(p) == p = "REJECT_INDICATION"

\* The indication handlers that set AST_SOFTHANGUP_DEV on the channel.
SetsSoftHangup(p) ==
    p \in {"RELEASE_INDICATION", "RELEASE_CONFIRM"} \/ RejectSetsSoftHangup(p)

\* The indication handlers that call visdn_handle_eventual_progind.
ChecksProgressIndicator(p) ==
    p \in {"ALERTING_INDICATION", "DISCONNECT_INDICATION",
          "PROCEEDING_INDICATION", "PROGRESS_INDICATION"}

\* The indication handlers that call visdn_undefer_dtmf_in: the network
\* asked for more digits, is proceeding, or has answered.
Undefers(p) ==
    p \in {"MORE_INFO_INDICATION", "PROCEEDING_INDICATION", "SETUP_CONFIRM"}

\* visdn_undefer_dtmf_in sends the held-back digits in one INFO request.
UndeferFlush(p) ==
    IF Undefers(p) /\ dtmf_queue > 0 THEN <<"INFO_REQUEST">> ELSE <<>>

\* visdn_queue_dtmf: the digit is appended unless the queue is full, in
\* which case it is dropped.
DtmfAppend(len) == IF len >= DtmfQueueSize - 1 THEN len ELSE len + 1

\* The ways visdn_q931_setup_indication goes, by what the SETUP carries,
\* the interface's overlap_sending and the dialplan: the requests sent
\* (through visdn_chan->q931_call) before the handler returns or hands
\* the channel to the PBX, where the channel ends up, whether the
\* visdn_chan is used after ast_hangup destroyed it, and what is sent
\* after ast_pbx_start succeeded.
\*   no_chan:  visdn_alloc or visdn_new fails.
\*   bad_bc:   bearer capability neither speech, 3.1 kHz nor digital:
\*             REJECT, ast_hangup, then visdn_destroy a second time.
\*   no_exten: en-bloc number with no extension: REJECT, ast_hangup.
\*   pbx_fail: en-bloc, ast_pbx_start fails: ast_hangup, then REJECT.
\*   overlap_pbx_fail: ast_pbx_start of "s" fails: ast_hangup, then
\*             PROCEEDING and DISCONNECT.
\*   pbx_ok, overlap_pbx_ok: the PBX thread runs the channel.
SetupOutcomes ==
    [no_chan          |-> [req |-> <<>>, app |-> "none", freed |-> FALSE,
                           tail |-> <<>>],
     bad_bc           |-> [req |-> <<"REJECT_REQUEST">>, app |-> "freed",
                           freed |-> TRUE, tail |-> <<>>],
     no_exten         |-> [req |-> <<"REJECT_REQUEST">>, app |-> "freed",
                           freed |-> FALSE, tail |-> <<>>],
     pbx_fail         |-> [req |-> <<"REJECT_REQUEST">>, app |-> "freed",
                           freed |-> TRUE, tail |-> <<>>],
     overlap_pbx_fail |-> [req |-> <<"PROCEEDING_REQUEST",
                                     "DISCONNECT_REQUEST">>,
                           app |-> "freed", freed |-> TRUE, tail |-> <<>>],
     pbx_ok           |-> [req |-> <<>>, app |-> "run", freed |-> FALSE,
                           tail |-> <<"PROCEEDING_REQUEST">>],
     overlap_pbx_ok   |-> [req |-> <<>>, app |-> "run", freed |-> FALSE,
                           tail |-> <<"MORE_INFO_REQUEST">>]]

\* q931_ccb_dispatch of request r on a call in state s (call.c).
CcbDispatch(r, s) ==
    CASE r = "SETUP_REQUEST" /\ s = "null"                  -> "outgoing"
      [] r = "PROCEEDING_REQUEST" /\ s \in {"present", "overlap"} -> "incoming"
      [] r = "MORE_INFO_REQUEST" /\ s = "present"           -> "overlap"
      [] r = "ALERTING_REQUEST" /\ s \in {"present", "overlap", "incoming"}
                                                            -> "alerted"
      [] r = "SETUP_RESPONSE" /\ s \in {"present"} \cup Offered -> "active"
      [] r = "REJECT_REQUEST" /\ s = "present"              -> "released"
      [] r = "DISCONNECT_REQUEST" /\ s \in Offered \cup {"outgoing", "active"}
                                                            -> "releasing"
      [] r = "RELEASE_REQUEST" /\ s = "disc_ind"           -> "releasing"
      [] OTHER                                             -> s

\* visdn_disconnect_chan_from_visdn: nothing without a streamport; else
\* disconnect both paths, close sp_fd and set it to -1, and close ec_fd
\* if open.  A streamport an error path already closed is closed again.
DisconnectFromVisdn ==
    IF sp = "none"
    THEN UNCHANGED bpath
    ELSE /\ sp' = "none"
         /\ ec' = FALSE
         /\ double_close' = (double_close \/ sp = "closed_kept")

\* visdn_connect_channels_with_ec after the streamport is open: opening
\* ec-control fails (ec_fd = -1); or one of its ioctls fails, and
\* err_ioctl closes sp_fd without setting it to -1 (ec_fd stays open); or
\* the paths are connected and enabled.
EcConnectOutcomes ==
    {[sp |-> "open", ec |-> FALSE],
     [sp |-> "closed_kept", ec |-> TRUE],
     [sp |-> "open", ec |-> TRUE]}

\* visdn_connect_channels, without echo canceller: whether its ioctls
\* connect the paths or fail, the streamport stays open and no fd changes.
ConnectChannelsOutcomes(e) == {[sp |-> "open", ec |-> e]}

\* visdn_q931_connect_channel under ast_chan->lock, from sp_fd s and ec_fd
\* e: readlink or the channel id fails, or the call is not voice, and
\* nothing is opened; opening the streamport fails and sp_fd = -1; the
\* streamport is opened and VISDN_SP_GET_CHANID fails, leaving it open;
\* or the paths are connected, with or without the echo canceller.
ConnectOutcomes(s, e, ecan) ==
    {[sp |-> s, ec |-> e], [sp |-> "none", ec |-> e], [sp |-> "open", ec |-> e]}
    \cup (IF ecan THEN EcConnectOutcomes ELSE ConnectChannelsOutcomes(e))

\* The B channel handlers of the indication queue: connect, or
\* (visdn_q931_disconnect_channel) disconnect the streamport.
ChannelHandler(p) ==
    CASE p = "CONNECT_CHANNEL" ->
            \E o \in ConnectOutcomes(sp, ec, EchoCancel) :
                sp' = o.sp /\ ec' = o.ec /\ UNCHANGED double_close
      [] p = "DISCONNECT_CHANNEL" -> DisconnectFromVisdn
      [] OTHER -> UNCHANGED bpath

-----------------------------------------------------------------------------
(* The channel thread.                                                      *)

\* visdn_alloc zeroes the visdn_chan.  An outbound call starts from the
\* channel Asterisk requested (visdn_request); an inbound one from none.
Init ==
    /\ role \in {"TE", "NT"}
    /\ inbound \in BOOLEAN
    /\ app = IF inbound THEN "none" ELSE "idle"
    /\ has_call = FALSE
    /\ softhangup = FALSE
    /\ inband_info = FALSE
    /\ answered = FALSE
    /\ cstate = "null"
    /\ ccbq = <<>>
    /\ rq = <<>>
    /\ rbytes = 0
    /\ qpc = "timers"
    /\ ready = {}
    /\ handling = "none"
    /\ setup_tail = <<>>
    /\ uaf = FALSE
    /\ setup_uaf = FALSE
    /\ dtmf_deferred = FALSE /\ dtmf_queue = 0 /\ dialled = 0
    /\ indicated = 0
    /\ sp = "none" /\ ec = FALSE /\ double_close = FALSE
    /\ bchan = "idle"

\* visdn_request_call: allocate the outbound call, point its pvt at the
\* channel, defer DTMF, and queue SETUP_REQUEST (the list append; the
\* pipe byte is written by the next step).
RequestCall ==
    /\ app = "idle"
    /\ ~ConsumerBlocked
    /\ has_call' = TRUE
    /\ dtmf_deferred' = TRUE
    /\ rq' = Append(rq, "SETUP_REQUEST")
    /\ app' = "req_write"
    /\ UNCHANGED <<conf, indicated, bpath, bchan, dtmf_queue, dialled, softhangup, inband_info,
                   answered, cstate, ccbq, rbytes, qthread, flags>>

\* visdn_send_digit of one digit by a channel with a q931 call.  While
\* DTMF is deferred the digit goes to visdn_queue_dtmf, else it is sent at
\* once in an INFO request.  visdn_send_digit tests dtmf_deferred without
\* the channel lock; Asterisk calls it holding that lock from ast_write,
\* and without it from ast_senddigit, where the digit is queued in a
\* later step.
SendDigit ==
    /\ app = "run" /\ has_call
    /\ dialled < MaxDigits
    /\ dialled' = dialled + 1
    /\ \/ /\ dtmf_deferred
          /\ dtmf_queue' = DtmfAppend(dtmf_queue)
          /\ UNCHANGED <<app, rq, rbytes>>
       \/ /\ dtmf_deferred
          /\ app' = "digit"
          /\ UNCHANGED <<dtmf_queue, rq, rbytes>>
       \/ /\ ~dtmf_deferred
          /\ ~ConsumerBlocked
          /\ rq' = Append(rq, "INFO_REQUEST")
          /\ rbytes' = WakeupByte(rbytes)
          /\ UNCHANGED <<app, dtmf_queue>>
    /\ UNCHANGED <<conf, indicated, bpath, bchan, chan, cstate, ccbq, qthread, flags, dtmf_deferred>>

\* visdn_queue_dtmf, called by visdn_send_digit without the lock, takes
\* the channel lock and appends the digit.
QueueDigit ==
    /\ app = "digit"
    /\ dtmf_queue' = DtmfAppend(dtmf_queue)
    /\ app' = "run"
    /\ UNCHANGED <<conf, indicated, bpath, bchan, chan, cstate, queues, qthread, flags, dtmf_deferred,
                   dialled>>

\* visdn_call returns an error before it reaches visdn_request_call: the
\* channel is neither down nor reserved, the destination is not
\* interface/number, the huntgroup is unknown or has no free member, or
\* the interface is unknown or inactive.  The channel has no q931 call,
\* and the dialplan goes on with it until it hangs up.
CallFails ==
    /\ app = "idle"
    /\ app' = "run"
    /\ UNCHANGED <<conf, indicated, bpath, bchan, dtmf, chan, cstate, queues, qthread, flags>>

\* visdn_request_call when q931_call_alloc_out fails: visdn_call ignores
\* the error, so the channel runs without a q931 call.
RequestCallAllocFails ==
    /\ app = "idle"
    /\ app' = "run"
    /\ UNCHANGED <<conf, indicated, bpath, bchan, dtmf, chan, cstate, queues, qthread, flags>>

\* The rest of visdn_request_call: write the wakeup byte, drop the
\* allocation's reference.
RequestWrite ==
    /\ app = "req_write"
    /\ rbytes' = WakeupByte(rbytes)
    /\ app' = "run"
    /\ UNCHANGED <<conf, indicated, bpath, bchan, dtmf, chan, cstate, ccbq, rq, qthread, flags>>

\* visdn_answer: SETUP_RESPONSE if the call is in one of the states it
\* tests, else nothing.  The append and the byte are one step: the lock
\* is free unless the consumer is blocked.
Answer ==
    /\ app = "run"
    /\ inbound /\ ~answered
    /\ ~ConsumerBlocked
    /\ answered' = TRUE
    /\ IF AnswerSends(role, cstate)
       THEN /\ rq' = Append(rq, "SETUP_RESPONSE")
            /\ rbytes' = WakeupByte(rbytes)
       ELSE UNCHANGED <<rq, rbytes>>
    /\ UNCHANGED <<conf, indicated, bpath, bchan, dtmf, app, has_call, softhangup, inband_info, cstate,
                   ccbq, qthread, flags>>

\* The request visdn_indicate sends for condition c, read from the call
\* state s without visdn.lock: RINGING answers an N1 call with PROCEEDING
\* and alerts from U6, U9, U25, N2 and N3; PROCEEDING is sent from N1,
\* N2, U6 and U25; DISCONNECT, BUSY and CONGESTION send DISCONNECT with
\* their cause in any state.
IndicateRequest(c, r, s) ==
    CASE c = "RINGING" /\ s = "present" /\ r = "NT" -> <<"PROCEEDING_REQUEST">>
      [] c = "RINGING" /\ (s \in {"overlap", "incoming"} \/
                           (s = "present" /\ r = "TE"))
                                                  -> <<"ALERTING_REQUEST">>
      [] c = "PROCEEDING" /\ s \in {"present", "overlap"}
                                                  -> <<"PROCEEDING_REQUEST">>
      [] c = "PROGRESS"                           -> <<"PROGRESS_REQUEST">>
      [] c = "clear"                              -> <<"DISCONNECT_REQUEST">>
      [] OTHER                                    -> <<>>

\* visdn_indicate, called by Asterisk on the channel thread (the dialplan's
\* Ringing, Progress, Busy, Congestion; the bridged peer's indications):
\* queue the request of IndicateRequest, or note that the far end gives
\* in-band information.  Tones are local and left out.
Indicate ==
    /\ app = "run" /\ has_call
    /\ ~ConsumerBlocked
    /\ indicated < MaxIndicates
    /\ indicated' = indicated + 1
    /\ \E c \in Conditions :
        LET req == IndicateRequest(c, role, cstate) IN
        /\ rq' = rq \o req
        /\ rbytes' = WakeupBytes(rbytes, Len(req))
        /\ inband_info' = (inband_info \/ c = "INBAND_INFO")
    /\ UNCHANGED <<conf, bpath, bchan, dtmf, app, has_call, softhangup, answered, cstate,
                   ccbq, qthread, flags>>

\* visdn_hangup up to its request: under visdn.lock, read the call state
\* and queue DISCONNECT_REQUEST or RELEASE_REQUEST.  With nothing to send
\* it goes on to clear pvt and drop the call at once.
HangupBegin ==
    /\ app = "run"
    /\ ~ConsumerBlocked
    /\ LET req == IF has_call THEN HangupRequest(cstate) ELSE <<>> IN
        /\ rq' = rq \o req
        /\ app' = IF req # <<>> THEN "hup_write" ELSE "hungup"
        /\ has_call' = (has_call /\ req # <<>>)
    /\ UNCHANGED <<conf, indicated, bpath, bchan, dtmf, softhangup, inband_info, answered, cstate, ccbq,
                   rbytes, qthread, flags>>

\* The rest of visdn_hangup's visdn.lock section: write the wakeup byte,
\* clear q931_call->pvt and drop visdn_chan->q931_call.
HangupWrite ==
    /\ app = "hup_write"
    /\ rbytes' = WakeupByte(rbytes)
    /\ has_call' = FALSE
    /\ app' = "hungup"
    /\ UNCHANGED <<conf, indicated, bpath, bchan, dtmf, softhangup, inband_info, answered, cstate,
                   ccbq, rq, qthread, flags>>

\* Mutant: visdn_hangup trusts the library's DISCONNECT-CHANNEL and leaves
\* an open streamport alone.
HangupDestroyKeepsPath ==
    /\ app = "hungup"
    /\ app' = "freed"
    /\ UNCHANGED <<conf, indicated, bpath, bchan, dtmf, chan, cstate, queues, qthread, flags>>

\* visdn_hangup's ast_chan->lock section (free the suspended record,
\* close the fds, drop the interface, destroy the visdn_chan), after
\* which Asterisk frees the ast_channel.
HangupDestroy ==
    /\ app = "hungup"
    /\ app' = "freed"
    /\ DisconnectFromVisdn
    /\ UNCHANGED <<conf, indicated, bchan, dtmf, chan, cstate, queues, qthread, flags>>

-----------------------------------------------------------------------------
(* The q931 thread.                                                         *)

\* q931_run_timers with nothing expired, then on to poll().
RunTimers ==
    /\ qpc = "timers"
    /\ qpc' = "poll"
    /\ UNCHANGED <<conf, indicated, bpath, bchan, dtmf, app, chan, cstate, queues, ready, handling,
                   setup_tail, flags>>

\* q931_run_timers when T308 of a releasing call has run out for the
\* second time: the call returns to the null state and the library
\* confirms the release.
TimerT308 ==
    /\ qpc = "timers"
    /\ cstate = "releasing"
    /\ Emit("RELEASE_CONFIRM")
    /\ cstate' = "released"
    /\ qpc' = "poll"
    /\ UNCHANGED <<conf, indicated, bpath, bchan, dtmf, app, chan, rq, rbytes, ready, handling,
                   setup_tail, flags>>

\* poll() returns with the readable fds: a pipe with bytes in it, and the
\* D channel if the peer sent a frame.  With no timer pending and nothing
\* readable poll() blocks.
Poll ==
    /\ qpc = "poll"
    /\ \E dlc \in BOOLEAN :
        ready' = {f \in Fds : \/ f = "q931_ccb" /\ ccbq # <<>>
                              \/ f = "ccb_q931" /\ rbytes > 0
                              \/ f = "dlc" /\ dlc}
    /\ ready' # {} \/ cstate = "releasing"
    /\ qpc' = "q931_ccb"
    /\ UNCHANGED <<conf, indicated, bpath, bchan, dtmf, app, chan, cstate, queues, handling, setup_tail,
                   flags>>

\* visdn_q931_setup_indication up to ast_pbx_start, or to its end when
\* the PBX is not started: allocate the channel, take a reference on the
\* call, classify the bearer capability, set pvt, look the number up,
\* and go one of the ways of SetupOutcomes.  ast_hangup runs
\* visdn_hangup and frees the channel on this thread.
SetupIndication ==
    /\ qpc = "q931_ccb"
    /\ "q931_ccb" \in ready
    /\ ccbq # <<>> /\ Head(ccbq) = "SETUP_INDICATION"
    /\ ccbq' = Tail(ccbq)
    /\ \E o \in DOMAIN SetupOutcomes :
        LET e == SetupOutcomes[o] IN
        /\ SendFromQ(e.req)
        /\ app' = e.app
        /\ has_call' = (e.app = "run")
        /\ setup_uaf' = (setup_uaf \/ e.freed)
        /\ setup_tail' = e.tail
        /\ qpc' = IF e.tail = <<>> THEN "q931_ccb" ELSE "setup_tail"
    /\ UNCHANGED <<conf, indicated, bpath, bchan, dtmf, softhangup, inband_info, answered, cstate, ready,
                   handling, uaf>>

\* The rest of the handler once the PBX thread runs the channel: send
\* PROCEEDING (or MORE INFO) through visdn_chan->q931_call.  The PBX
\* thread may have hung up and destroyed the visdn_chan meanwhile.
SetupTail ==
    /\ qpc = "setup_tail"
    /\ SendFromQ(setup_tail)
    /\ setup_uaf' = (setup_uaf \/ app = "freed")
    /\ setup_tail' = <<>>
    /\ qpc' = "q931_ccb"
    /\ UNCHANGED <<conf, indicated, bpath, bchan, dtmf, app, chan, cstate, ccbq, ready, handling, uaf>>

\* visdn_q931_ccb_receive takes the head indication and enters its
\* handler.  callpvt_to_astchan reads q931_call->pvt; a NULL pvt returns.
\* visdn_q931_connect_indication first sends SETUP_COMPLETE_REQUEST.
IndicationRead ==
    /\ qpc = "q931_ccb"
    /\ "q931_ccb" \in ready
    /\ ccbq # <<>> /\ Head(ccbq) # "SETUP_INDICATION"
    /\ LET p == Head(ccbq) IN
        /\ ccbq' = Tail(ccbq)
        /\ IF p = "CONNECT_INDICATION"
           THEN /\ rq' = Append(rq, "SETUP_COMPLETE_REQUEST")
                /\ rbytes' = WakeupByte(rbytes)
           ELSE UNCHANGED <<rq, rbytes>>
        /\ IF PvtSet
           THEN qpc' = "ind_use" /\ handling' = p
           ELSE UNCHANGED <<qpc, handling>>
    /\ UNCHANGED <<conf, indicated, bpath, bchan, dtmf, app, chan, cstate, ready, setup_tail, flags>>

\* The rest of the handler, which uses the ast_chan it read: lock it and
\* queue a control frame.  The alerting, proceeding, progress and
\* disconnect handlers look for a progress indicator announcing in-band
\* information (visdn_handle_eventual_progind); the disconnect handler
\* then asks for the release unless in-band information is available.
\* The more-info, proceeding and setup-confirm handlers end DTMF deferral
\* and flush the held-back digits (visdn_undefer_dtmf_in, under the
\* channel lock).  The release handlers set the soft hangup.  A channel
\* Asterisk has freed meanwhile is used anyway.
IndicationUse ==
    /\ qpc = "ind_use"
    /\ uaf' = (uaf \/ app = "freed")
    /\ softhangup' = (softhangup \/ SetsSoftHangup(handling))
    /\ \E pi \in BOOLEAN :
        LET inband == inband_info \/ (pi /\ ChecksProgressIndicator(handling))
            release == IF handling = "DISCONNECT_INDICATION" /\ ~inband
                       THEN <<"RELEASE_REQUEST">> ELSE <<>>
        IN /\ inband_info' = inband
           /\ SendFromQ(release \o UndeferFlush(handling))
    /\ dtmf_deferred' = (dtmf_deferred /\ ~Undefers(handling))
    /\ dtmf_queue' = IF Undefers(handling) THEN 0 ELSE dtmf_queue
    /\ ChannelHandler(handling)
    /\ qpc' = "q931_ccb"
    /\ handling' = "none"
    /\ UNCHANGED <<conf, indicated, bchan, dialled, app, has_call, answered, cstate, ccbq, ready,
                   setup_tail, setup_uaf>>

\* The indication queue is drained (or was not readable).
IndicationsDone ==
    /\ qpc = "q931_ccb"
    /\ "q931_ccb" \notin ready \/ ccbq = <<>>
    /\ qpc' = "ccb_q931"
    /\ UNCHANGED <<conf, indicated, bpath, bchan, dtmf, app, chan, cstate, queues, ready, handling,
                   setup_tail, flags>>

\* Mutant: the receive loop takes the request without reading its byte.
RequestDispatchNoRead ==
    /\ qpc = "ccb_q931"
    /\ "ccb_q931" \in ready
    /\ rq # <<>>
    /\ rq' = Tail(rq)
    /\ cstate' = CcbDispatch(Head(rq), cstate)
    /\ UNCHANGED <<conf, indicated, bpath, bchan, dtmf, app, chan, ccbq, rbytes, qthread, flags>>

\* visdn_ccb_q931_receive takes the head request, reads its byte and
\* hands it to q931_ccb_dispatch.
RequestDispatch ==
    /\ qpc = "ccb_q931"
    /\ "ccb_q931" \in ready
    /\ rq # <<>>
    /\ rbytes > 0
    /\ rbytes' = rbytes - 1
    /\ rq' = Tail(rq)
    /\ cstate' = CcbDispatch(Head(rq), cstate)
    /\ UNCHANGED <<conf, indicated, bpath, bchan, dtmf, app, chan, ccbq, qthread, flags>>

\* The request queue is drained (or was not readable).
RequestsDone ==
    /\ qpc = "ccb_q931"
    /\ "ccb_q931" \notin ready \/ rq = <<>>
    /\ qpc' = "dlc"
    /\ UNCHANGED <<conf, indicated, bpath, bchan, dtmf, app, chan, cstate, queues, ready, handling,
                   setup_tail, flags>>

\* q931_receive under visdn.lock, when the D channel is readable: the
\* peer's frame for the call (call.c), or a frame for another call.
DlcReceive ==
    /\ qpc = "dlc"
    /\ qpc' = "timers"
    /\ IF "dlc" \in ready
       THEN \/ inbound /\ cstate = "null"
               /\ Emit("SETUP_INDICATION") /\ cstate' = "present"
            \/ cstate = "outgoing"
               /\ \E p \in {"ALERTING_INDICATION", "PROCEEDING_INDICATION",
                          "PROGRESS_INDICATION", "MORE_INFO_INDICATION"} :
                    Emit(p)
               /\ UNCHANGED cstate
            \/ cstate = "outgoing"
               /\ Emit(IF role = "TE" THEN "SETUP_CONFIRM"
                                     ELSE "CONNECT_INDICATION")
               /\ cstate' = "active"
            \/ cstate = "outgoing"
               /\ Emit("REJECT_INDICATION") /\ cstate' = "released"
            \/ cstate \in Offered \cup {"outgoing", "active"}
               /\ Emit("DISCONNECT_INDICATION") /\ cstate' = "disc_ind"
            \/ cstate \in Offered \cup {"present", "outgoing", "active",
                                        "disc_ind"}
               /\ Emit("RELEASE_INDICATION") /\ cstate' = "released"
            \/ cstate = "releasing"
               /\ Emit("RELEASE_CONFIRM") /\ cstate' = "released"
            \/ UNCHANGED <<cstate, ccbq>>
       ELSE UNCHANGED <<cstate, ccbq>>
    /\ UNCHANGED <<conf, indicated, bpath, bchan, dtmf, app, chan, rq, rbytes, ready, handling,
                   setup_tail, flags>>

\* q931_receive when the frame moves the call's B channel: the library
\* asks the application to connect the bearer path of an active call, and
\* to disconnect it once, when the call is released (spec: CONNECT-CHANNEL
\* and DISCONNECT-CHANNEL are queued apart from the signalling
\* primitives).  Earlier connects, for in-band tones before CONNECT, are
\* left out to keep the instance small; they run the same handlers.
DlcChannel ==
    /\ qpc = "dlc"
    /\ "dlc" \in ready
    /\ qpc' = "timers"
    /\ \/ /\ bchan = "idle" /\ cstate = "active"
          /\ Emit("CONNECT_CHANNEL") /\ bchan' = "connected"
       \/ /\ bchan = "connected" /\ cstate = "released"
          /\ Emit("DISCONNECT_CHANNEL") /\ bchan' = "done"
    /\ UNCHANGED <<conf, indicated, bpath, dtmf, app, chan, cstate, rq, rbytes,
                   ready, handling, setup_tail, flags>>

-----------------------------------------------------------------------------

AppNext == RequestCall \/ CallFails \/ RequestCallAllocFails \/ RequestWrite
           \/ Answer \/ Indicate \/ SendDigit \/ QueueDigit
           \/ HangupBegin \/ HangupWrite \/ HangupDestroy

QNext == RunTimers \/ TimerT308 \/ Poll \/ SetupIndication \/ SetupTail
         \/ IndicationRead \/ IndicationUse \/ IndicationsDone
         \/ RequestDispatch \/ RequestsDone \/ DlcReceive \/ DlcChannel

Next == AppNext \/ QNext

\* The q931 thread loops for ever and its timers run out; the channel
\* thread finishes what it started, and Asterisk hangs up a channel whose
\* soft hangup is set.  The peer, the caller and the dialplan (answering,
\* hanging up on their own) get no fairness.
Spec ==
    /\ Init /\ [][Next]_vars
    /\ WF_vars(QNext)
    /\ SF_vars(TimerT308)
    /\ WF_vars(RequestWrite) /\ WF_vars(HangupWrite) /\ WF_vars(HangupDestroy)
    /\ WF_vars(QueueDigit)
    /\ WF_vars(softhangup /\ HangupBegin)

-----------------------------------------------------------------------------
(* Properties.                                                              *)

\* The types, and a pipe that never holds more bytes than requests.
TypeOK ==
    /\ role \in {"TE", "NT"}
    /\ app \in AppPCs
    /\ {inbound, has_call, softhangup, inband_info, answered, uaf,
        setup_uaf} \subseteq BOOLEAN
    /\ cstate \in CallStates
    /\ ccbq \in Seq(Indications) /\ Len(ccbq) <= MaxQueued
    /\ rq \in Seq(Requests)
    /\ rbytes \in 0..Len(rq)
    /\ qpc \in QPCs
    /\ ready \subseteq Fds
    /\ handling \in Indications \cup {"none"}
    /\ setup_tail \in Seq(Requests)
    /\ dtmf_deferred \in BOOLEAN
    /\ dtmf_queue \in 0..(DtmfQueueSize - 1)
    /\ dialled \in 0..MaxDigits
    /\ indicated \in 0..MaxIndicates
    /\ ec \in BOOLEAN /\ double_close \in BOOLEAN
    /\ sp \in {"none", "open", "closed_kept"}
    /\ bchan \in {"idle", "connected", "done"}

\* When the network clears a call that has a channel, the channel is hung
\* up: the release indication reaches it through the indication queue,
\* its handler sets the soft hangup, and Asterisk calls visdn_hangup.
PeerReleaseHangsUp == cstate = "released" /\ app # "none" ~> app = "freed"

\* Every request a thread queues with q931_send_primitive reaches the
\* library: the pipe byte wakes the q931 thread, which drains the queue.
RequestsDispatched == rq # <<>> ~> rq = <<>>

\* The q931 thread never uses an ast_channel that visdn_hangup and
\* Asterisk have freed (spec 6: the pvt pointer's locking discipline must
\* prevent a use-after-free when the call is released concurrently with
\* an application-side hangup).
NoUseAfterFree == ~uaf

\* visdn_q931_setup_indication never touches a visdn_chan that ast_hangup
\* (visdn_hangup) has destroyed: not on its error paths after ast_hangup,
\* and not after the PBX thread it started has hung up.
SetupUsesLiveChannel == ~setup_uaf

\* A digit held back while DTMF was deferred is never left behind: once
\* visdn_undefer_dtmf_in has flushed the queue and cleared dtmf_deferred,
\* no digit sits in visdn_chan->dtmf_queue, where nothing would send it
\* (or a later undefer would send it after digits dialled after it).
DigitsNotStranded == dtmf_queue > 0 => dtmf_deferred

\* Once Asterisk has freed the channel, its streamport and echo canceller
\* fds are closed and both paths disconnected, whichever of the library's
\* DISCONNECT-CHANNEL and visdn_hangup's own disconnect ("we cannot rely
\* on libq931") comes first, and however the connect handler interleaved
\* with the hangup; a handler that used the freed channel is excluded
\* (NoUseAfterFree is about that).
PathReleasedOnHangup == app = "freed" /\ ~uaf => sp = "none" /\ ~ec

\* No fd is closed twice: a streamport is closed only while sp_fd still
\* names it.
NoDoubleClose == ~double_close

\* An inbound call the PBX answers gets connected, unless it is cleared
\* first: visdn_answer's SETUP_RESPONSE is not lost because the call had
\* not yet left the state the answer was read in.
AnsweredConnects ==
    inbound /\ answered ~>
        \/ cstate \in {"active", "disc_ind", "releasing", "released"}
        \/ app = "freed"

=============================================================================
