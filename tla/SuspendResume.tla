---------------------------- MODULE SuspendResume ----------------------------
(***************************************************************************)
(* The suspended-call registry of chan_visdn (src/chan_visdn/chan_visdn.c):*)
(* intf->suspended_calls, filled by visdn_q931_suspend_indication, emptied *)
(* by visdn_q931_resume_indication and by visdn_hangup of a suspended     *)
(* channel.                                                                *)
(*                                                                         *)
(* Chans are the Asterisk channels of the interface.  A channel is "call" *)
(* while it has a q931 call, "susp" while its call is parked in the       *)
(* registry, and "gone" once hung up.  A call identity is a member of     *)
(* Idents; Empty is the zero-length identity and NoCI a message without a *)
(* call identity IE.  Deadlines are whentohangup, in seconds from now      *)
(* (0: none); time does not advance while these handlers run.             *)
(***************************************************************************)
EXTENDS Integers, Sequences, SequencesExt

CONSTANTS
    Chans,        \* Asterisk channels of the interface
    Idents,       \* call identities, Empty among them
    Empty,        \* the zero-length call identity
    NoCI,         \* no call identity IE in the message
    SuspendCIs,   \* call identity IEs a SUSPEND may carry
    ResumeCIs,    \* call identity IEs a RESUME may carry
    Deadlines,    \* whentohangup values a channel may start with (0: none)
    T307          \* intf->T307, 180 by default

ASSUME /\ Empty \in Idents /\ NoCI \notin Idents
       /\ SuspendCIs \subseteq Idents \cup {NoCI}
       /\ ResumeCIs \subseteq Idents \cup {NoCI}
       /\ 0 \in Deadlines /\ Deadlines \subseteq Nat /\ T307 \in Nat

\* The hard-coded margin of visdn_q931_suspend_indication.
HangupMargin == 45

Causes == {"none", "CALL_IDENITY_IN_USE", "RESOURCES_UNAVAILABLE",
           "NO_CALL_SUSPENDED", "SUSPENDED_CALL_EXISTS_BUT_NOT_THIS"}
Replies == [type : {"none", "SUSPEND_RESPONSE", "SUSPEND_REJECT",
                    "RESUME_RESPONSE", "RESUME_REJECT"},
            cause : Causes, ci : Idents \cup {NoCI}]
NoReply == [type |-> "none", cause |-> "none", ci |-> NoCI]

VARIABLES
    suspended_calls,  \* intf->suspended_calls: <<[ident, chan, old]>>
    cstate,           \* cstate[ch]: "call", "susp" or "gone"
    whentohangup,     \* whentohangup[ch]
    reply,            \* the primitive the last handler sent back
    crashed           \* a NULL call identity was dereferenced

vars == <<suspended_calls, cstate, whentohangup, reply, crashed>>

-----------------------------------------------------------------------------

\* The identity stored for a call identity IE (call_identity_len 0 for none).
Stored(ci) == IF ci = NoCI THEN Empty ELSE ci

\* Mutant: only an IE is compared; a SUSPEND without one matches nothing.
SuspendMatchesIEOnly(ci, s) == ci # NoCI /\ ci = s.ident

\* The match test of visdn_q931_suspend_indication.
SuspendMatches(ci, s) == Stored(ci) = s.ident

\* Index of the entry list_for_each_entry stops at in resume, 0 if none.
\* With no IE, the second disjunct of the test reads ci->data_len: an
\* entry with a non-empty identity reached before a match dereferences
\* the NULL ci.
ResumeMatch(ci, s) == IF ci = NoCI THEN s.ident = Empty ELSE s.ident = ci
ResumeStops(ci, s) == ResumeMatch(ci, s) \/ ci = NoCI
FirstStop(ci) ==
    LET hits == {i \in 1..Len(suspended_calls) :
                   ResumeStops(ci, suspended_calls[i])}
    IN IF hits = {} THEN 0 ELSE Min(hits)

Init ==
    /\ suspended_calls = <<>>
    /\ cstate = [ch \in Chans |-> "call"]
    /\ whentohangup \in [Chans -> Deadlines]
    /\ reply = NoReply
    /\ crashed = FALSE

-----------------------------------------------------------------------------

\* Mutant: the hangup deadline is set only when the channel has one that
\* is farther away (the !whentohangup test is lost).
NewDeadlineNoneKept(w) ==
    IF w # 0 /\ HangupMargin < w THEN T307 ELSE w

\* Mutant: T307 is added to the existing deadline instead of to now.
NewDeadlineFromOld(w) ==
    IF w = 0 \/ HangupMargin < w THEN w + T307 ELSE w

\* The deadline a suspended channel gets: T307 unless it already has one
\* within HangupMargin seconds.
NewDeadline(w) ==
    IF w = 0 \/ HangupMargin < w THEN T307 ELSE w

\* visdn_q931_suspend_indication for the call of channel ch.
SuspendIndication(ch) ==
    /\ ~crashed
    /\ cstate[ch] = "call"
    /\ \E ci \in SuspendCIs :
        IF \E i \in 1..Len(suspended_calls) :
               SuspendMatches(ci, suspended_calls[i])
        THEN /\ reply' = [type |-> "SUSPEND_REJECT",
                          cause |-> "CALL_IDENITY_IN_USE", ci |-> ci]
             /\ UNCHANGED <<suspended_calls, cstate, whentohangup>>
        ELSE /\ suspended_calls' = Append(suspended_calls,
                    [ident |-> Stored(ci), chan |-> ch,
                     old |-> whentohangup[ch]])
             /\ whentohangup' = [whentohangup EXCEPT
                                   ![ch] = NewDeadline(whentohangup[ch])]
             /\ cstate' = [cstate EXCEPT ![ch] = "susp"]
             /\ reply' = [type |-> "SUSPEND_RESPONSE", cause |-> "none",
                          ci |-> ci]
    /\ UNCHANGED crashed

\* visdn_q931_suspend_indication when malloc of the record fails.
SuspendAllocFails(ch) ==
    /\ ~crashed
    /\ cstate[ch] = "call"
    /\ reply' = [type |-> "SUSPEND_REJECT", cause |-> "RESOURCES_UNAVAILABLE",
                 ci |-> NoCI]
    /\ UNCHANGED <<suspended_calls, cstate, whentohangup, crashed>>

\* visdn_q931_resume_indication for a new q931 call (which has no
\* Asterisk channel yet).  On a match the channel gets the call back and
\* the record is freed; whentohangup is left as suspend set it.
ResumeIndication ==
    /\ ~crashed
    /\ \E ci \in ResumeCIs :
        LET i == FirstStop(ci) IN
        CASE i # 0 /\ ~ResumeMatch(ci, suspended_calls[i]) ->
               /\ crashed' = TRUE
               /\ reply' = NoReply
               /\ UNCHANGED <<suspended_calls, cstate, whentohangup>>
          [] i # 0 ->
               /\ cstate' = [cstate EXCEPT
                               ![suspended_calls[i].chan] = "call"]
               /\ suspended_calls' = RemoveAt(suspended_calls, i)
               /\ reply' = [type |-> "RESUME_RESPONSE", cause |-> "none",
                            ci |-> ci]
               /\ UNCHANGED <<whentohangup, crashed>>
          [] OTHER ->
               /\ reply' = [type |-> "RESUME_REJECT", ci |-> ci,
                            cause |-> IF suspended_calls = <<>>
                                      THEN "SUSPENDED_CALL_EXISTS_BUT_NOT_THIS"
                                      ELSE "NO_CALL_SUSPENDED"]
               /\ UNCHANGED <<suspended_calls, cstate, whentohangup, crashed>>

\* Mutant: hangup leaves the suspended record on the list.
HangupKeepsRecord(ch) ==
    /\ ~crashed
    /\ cstate[ch] # "gone"
    /\ cstate' = [cstate EXCEPT ![ch] = "gone"]
    /\ reply' = NoReply
    /\ UNCHANGED <<suspended_calls, whentohangup, crashed>>

\* visdn_hangup of channel ch (the application hangs up or whentohangup
\* is reached).  A suspended channel's record is removed and freed.
Hangup(ch) ==
    /\ ~crashed
    /\ cstate[ch] # "gone"
    /\ suspended_calls' = SelectSeq(suspended_calls, LAMBDA s : s.chan # ch)
    /\ cstate' = [cstate EXCEPT ![ch] = "gone"]
    /\ reply' = NoReply
    /\ UNCHANGED <<whentohangup, crashed>>

Next ==
    \/ \E ch \in Chans : SuspendIndication(ch) \/ SuspendAllocFails(ch)
                            \/ Hangup(ch)
    \/ ResumeIndication

Spec == Init /\ [][Next]_vars

-----------------------------------------------------------------------------
(* Properties.                                                              *)

TypeOK ==
    /\ suspended_calls \in Seq([ident : Idents, chan : Chans,
                                old : Deadlines \cup {T307}])
    /\ cstate \in [Chans -> {"call", "susp", "gone"}]
    /\ whentohangup \in [Chans -> Deadlines \cup {T307}]
    /\ reply \in Replies
    /\ crashed \in BOOLEAN

\* The registry holds exactly one record for each suspended channel and
\* none for any other: suspend, resume and hangup keep the list and the
\* channels' suspended_call pointers in step.
RegistryMatchesChannels ==
    \A ch \in Chans :
        Cardinality({i \in 1..Len(suspended_calls) :
                       suspended_calls[i].chan = ch})
            = IF cstate[ch] = "susp" THEN 1 ELSE 0

\* No two suspended calls share a call identity (the spec: at most one
\* suspended call with the empty identity), so a RESUME names at most one.
IdentitiesUnique ==
    \A i, j \in 1..Len(suspended_calls) :
        i # j => suspended_calls[i].ident # suspended_calls[j].ident

\* The registry as the set of parked calls the spec describes: the order
\* of intf->suspended_calls and the saved deadlines are forgotten.
Parking == INSTANCE CallParking WITH
    parked <- {[ident |-> suspended_calls[i].ident,
                chan |-> suspended_calls[i].chan] :
               i \in 1..Len(suspended_calls)}

\* The suspend, resume and hangup handlers implement the call parking the
\* spec describes: every step parks a call under an identity no parked
\* call has, takes back the call parked under the RESUME's identity, drops
\* the parked call of a channel hung up, or changes neither.
RegistryImplementsParking == Parking!Spec

\* A suspended channel always has a hangup deadline, no later than T307.
SuspendedCallBounded ==
    \A ch \in Chans :
        cstate[ch] = "susp" => whentohangup[ch] \in 1..T307

\* A rejected RESUME says "no call suspended" when the registry is empty
\* and "suspended call exists, but not this one" otherwise.
ResumeRejectCause ==
    reply.type = "RESUME_REJECT" =>
        reply.cause = IF suspended_calls = <<>>
                      THEN "NO_CALL_SUSPENDED"
                      ELSE "SUSPENDED_CALL_EXISTS_BUT_NOT_THIS"

=============================================================================
