------------------------- MODULE GlobalRestartService -------------------------
(***************************************************************************)
(* What the restart procedure of the global call promises the peer, as    *)
(* the spec states it (section 4.4, scenario D of section 8): a peer      *)
(* RESTART names a set of restartable channels; the calls holding any of   *)
(* them are cleared; the RESTART ACKNOWLEDGE is sent once none of the      *)
(* named channels is held any more, and names exactly those channels (or   *)
(* none, when the whole interface was restarted).  The procedure may also  *)
(* be abandoned on a timeout.  Calls seize and release channels freely.    *)
(* A restart requested by the application ("local") is a separate phase   *)
(* in which the peer's restarts are refused.                              *)
(***************************************************************************)
EXTENDS FiniteSets

CONSTANTS
    Chans,          \* the B-channels of the interface
    Unrestartable   \* channels in maintenance or leased

VARIABLES
    phase,     \* "idle", "peer" (a peer restart runs) or "local"
    named,     \* the channels the running peer restart must restart
    pending,   \* the named channels still held by a call being cleared
    chan,      \* chan[c]: "free", "busy" or "clearing"
    reply      \* the acknowledgement just sent to the peer, if any

vars == <<phase, named, pending, chan, reply>>

NoReply == [ack |-> FALSE, chans |-> {}]
Ack(S) == [ack |-> TRUE, chans |-> S]

Restartable == Chans \ Unrestartable

Init ==
    /\ phase = "idle"
    /\ named = {} /\ pending = {}
    /\ chan = [c \in Chans |-> "free"]
    /\ reply = NoReply

\* The peer restarts the channels S.  Those held by calls start clearing;
\* if none is held the restart is acknowledged at once.
PeerRestart ==
    /\ phase = "idle"
    /\ \E S \in (SUBSET Restartable) \ {{}} :
        LET held == {c \in S : chan[c] # "free"} IN
        /\ chan' = [c \in Chans |-> IF c \in held THEN "clearing" ELSE chan[c]]
        /\ IF held = {}
           THEN /\ reply' \in {Ack(S), Ack({})}
                /\ UNCHANGED <<phase, named, pending>>
           ELSE /\ phase' = "peer" /\ named' = S /\ pending' = held
                /\ reply' = NoReply

\* A call being cleared frees its channel.  The last named channel freed
\* ends the peer restart with the acknowledgement.  (This abstraction does
\* not say when a local restart ends: it may end at any step.)
ChannelCleared(c) ==
    /\ chan[c] = "clearing"
    /\ chan' = [chan EXCEPT ![c] = "free"]
    /\ pending' = pending \ {c}
    /\ IF phase = "peer" /\ pending' = {}
       THEN /\ phase' = "idle" /\ named' = {}
            /\ reply' \in {Ack(named), Ack({})}
       ELSE /\ reply' = NoReply
            /\ UNCHANGED named
            /\ \/ UNCHANGED phase
               \/ phase = "local" /\ phase' = "idle"

\* The peer restart is abandoned (its supervision timer ran out); the
\* calls go on clearing.
Abandon ==
    /\ phase = "peer"
    /\ phase' = "idle" /\ named' = {} /\ pending' = {}
    /\ reply' = NoReply
    /\ UNCHANGED chan

\* The application restarts and the procedure ends, either way.
LocalRestart ==
    /\ phase = "idle"
    /\ phase' = "local"
    /\ reply' = NoReply
    /\ UNCHANGED <<named, pending, chan>>

LocalEnd ==
    /\ phase = "local"
    /\ phase' = "idle"
    /\ reply' = NoReply
    /\ UNCHANGED <<named, pending, chan>>

Seize(c) ==
    /\ chan[c] = "free" /\ c \in Restartable
    /\ chan' = [chan EXCEPT ![c] = "busy"]
    /\ reply' = NoReply
    /\ UNCHANGED <<phase, named, pending>>

Release(c) ==
    /\ chan[c] = "busy"
    /\ chan' = [chan EXCEPT ![c] = "free"]
    /\ reply' = NoReply
    /\ UNCHANGED <<phase, named, pending>>

\* Anything else the peer or the application does changes nothing here.
Other ==
    /\ reply' = NoReply
    /\ UNCHANGED <<phase, named, pending, chan>>

Next ==
    \/ PeerRestart \/ Abandon \/ LocalRestart \/ LocalEnd \/ Other
    \/ \E c \in Chans : ChannelCleared(c) \/ Seize(c) \/ Release(c)

\* Calls being cleared finish, and a peer restart ends one way or the
\* other.
Spec ==
    /\ Init /\ [][Next]_vars
    /\ \A c \in Chans : WF_vars(ChannelCleared(c))
    /\ WF_vars(Abandon \/ \E c \in Chans : ChannelCleared(c))

=============================================================================
