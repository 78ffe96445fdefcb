----------------------------- MODULE CallParking -----------------------------
(***************************************************************************)
(* What suspend and resume promise, as the spec states it (section 4.3,    *)
(* scenario E of section 8, the open question of section 9): an interface  *)
(* keeps its suspended calls keyed by call identity; a call is parked      *)
(* under an identity no other parked call has, or the SUSPEND is refused;  *)
(* a RESUME takes back the call parked under its identity; a channel that  *)
(* is hung up takes its parked call with it.  The order of the parked      *)
(* calls is not part of the promise.                                       *)
(***************************************************************************)
CONSTANTS
    Chans,    \* the Asterisk channels of the interface
    Idents    \* call identities, the empty one among them

VARIABLES
    parked,   \* a set of [ident, chan]: the suspended calls
    cstate    \* cstate[ch]: "call", "susp" or "gone"

vars == <<parked, cstate>>

ParkedIdents == {p.ident : p \in parked}

Init ==
    /\ parked = {}
    /\ cstate = [ch \in Chans |-> "call"]

\* The call of ch is parked under identity id, unused so far.
Park(ch, id) ==
    /\ cstate[ch] = "call"
    /\ id \notin ParkedIdents
    /\ parked' = parked \cup {[ident |-> id, chan |-> ch]}
    /\ cstate' = [cstate EXCEPT ![ch] = "susp"]

\* The call parked under id is taken back by its channel.
Unpark(id) ==
    /\ \E p \in parked :
        /\ p.ident = id
        /\ parked' = parked \ {p}
        /\ cstate' = [cstate EXCEPT ![p.chan] = "call"]

\* Channel ch is hung up; a call it had parked is dropped.
Drop(ch) ==
    /\ cstate[ch] # "gone"
    /\ parked' = {p \in parked : p.chan # ch}
    /\ cstate' = [cstate EXCEPT ![ch] = "gone"]

Next ==
    \/ \E ch \in Chans, id \in Idents : Park(ch, id)
    \/ \E id \in Idents : Unpark(id)
    \/ \E ch \in Chans : Drop(ch)

Spec == Init /\ [][Next]_vars

=============================================================================
