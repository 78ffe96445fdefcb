--------------------------------- MODULE Dlc ---------------------------------
(***************************************************************************)
(* One data link connection of libq931 (src/libq931/dlc.c): the hold      *)
(* count that keeps the link up, the reference count that keeps the       *)
(* struct alive, and the autorelease timer that shuts an idle link down.  *)
(*                                                                         *)
(* The DLC is created by q931_dlc_init with one reference, owned by the    *)
(* interface's DLC list (Owner).  Calls (Users) take references with      *)
(* q931_dlc_get and hold the link with q931_dlc_hold while they need it.  *)
(* The callers live in call.c and lib.c, outside src/; their discipline  *)
(* (a call holds only a DLC it references, and drops its hold before its  *)
(* reference) is modelled from the spec.                                  *)
(***************************************************************************)
EXTENDS Naturals, FiniteSets

CONSTANTS
    Owner,             \* the interface's DLC list, holder of the first reference
    Users,             \* calls that use the DLC
    AutoreleaseTime    \* interface->dlc_autorelease_time (0: disabled)

ASSUME Owner \notin Users /\ AutoreleaseTime \in Nat

VARIABLES
    holdcnt,   \* dlc->holdcnt
    refcnt,    \* dlc->refcnt
    timer,     \* dlc->autorelease_timer is pending
    socket,    \* "open" or "shutdown" (shutdown(dlc->socket, 2) was called)
    freed,     \* free(dlc) has been called
    held,      \* the users currently holding the DLC
    refd,      \* the owners of references
    uaf        \* the autorelease timer fired on a freed DLC

vars == <<holdcnt, refcnt, timer, socket, freed, held, refd, uaf>>

-----------------------------------------------------------------------------

\* q931_dlc_init
Init ==
    /\ holdcnt = 0
    /\ refcnt = 1
    /\ timer = FALSE
    /\ socket = "open"
    /\ freed = FALSE
    /\ held = {}
    /\ refd = {Owner}
    /\ uaf = FALSE

\* Mutant: the autorelease timer is stopped only when the count was 0 after
\* the increment (an off-by-one on the transition test).
HoldStopsLate(u) ==
    /\ ~freed
    /\ u \in refd \ held
    /\ holdcnt' = holdcnt + 1
    /\ timer' = IF holdcnt + 1 = 0 THEN FALSE ELSE timer
    /\ held' = held \cup {u}
    /\ UNCHANGED <<refcnt, socket, freed, refd, uaf>>

\* q931_dlc_hold: the first hold stops the autorelease timer.
Hold(u) ==
    /\ ~freed
    /\ u \in refd \ held
    /\ holdcnt' = holdcnt + 1
    /\ timer' = IF holdcnt + 1 = 1 THEN FALSE ELSE timer
    /\ held' = held \cup {u}
    /\ UNCHANGED <<refcnt, socket, freed, refd, uaf>>

\* Mutant: a call releases a DLC it does not hold (a double release);
\* q931_dlc_release has no assertion against it.
ReleaseUnbalanced(u) ==
    /\ ~freed
    /\ holdcnt' = holdcnt - 1
    /\ timer' = IF holdcnt - 1 = 0 /\ AutoreleaseTime # 0 THEN TRUE ELSE timer
    /\ held' = held \ {u}
    /\ UNCHANGED <<refcnt, socket, freed, refd, uaf>>

\* q931_dlc_release: the last release starts the autorelease timer, if
\* autorelease is configured.
Release(u) ==
    /\ ~freed
    /\ u \in held
    /\ holdcnt' = holdcnt - 1
    /\ timer' = IF holdcnt - 1 = 0 /\ AutoreleaseTime # 0 THEN TRUE ELSE timer
    /\ held' = held \ {u}
    /\ UNCHANGED <<refcnt, socket, freed, refd, uaf>>

\* q931_dlc_get
Get(u) ==
    /\ ~freed
    /\ u \notin refd
    /\ refcnt' = refcnt + 1
    /\ refd' = refd \cup {u}
    /\ UNCHANGED <<holdcnt, timer, socket, freed, held, uaf>>

\* q931_dlc_put: the last reference frees the DLC.  The autorelease timer
\* is not stopped.
Put(u) ==
    /\ ~freed
    /\ u \in refd \ held
    /\ refcnt' = refcnt - 1
    /\ freed' = (refcnt - 1 = 0)
    /\ refd' = refd \ {u}
    /\ UNCHANGED <<holdcnt, timer, socket, held, uaf>>

\* q931_dlc_autorelease, run by the timer sweep: shut the link down.  On a
\* freed DLC the callback reads freed memory.
Autorelease ==
    /\ timer
    /\ timer' = FALSE
    /\ socket' = "shutdown"
    /\ uaf' = freed
    /\ UNCHANGED <<holdcnt, refcnt, freed, held, refd>>

Next ==
    \/ \E u \in Users : Hold(u) \/ Release(u) \/ Get(u)
    \/ \E u \in Users \cup {Owner} : Put(u)
    \/ Autorelease

\* The timer sweep runs on every loop of the worker.
Spec == Init /\ [][Next]_vars /\ WF_vars(Autorelease)

-----------------------------------------------------------------------------
(* Properties.                                                              *)

TypeOK ==
    /\ holdcnt \in 0..Cardinality(Users)
    /\ refcnt \in 0..Cardinality(Users \cup {Owner})
    /\ {timer, freed, uaf} \subseteq BOOLEAN
    /\ socket \in {"open", "shutdown"}
    /\ held \subseteq Users /\ refd \subseteq Users \cup {Owner}

\* The autorelease timer is never pending while a call holds the link, so
\* autorelease never shuts down a link in use (dlc.c hold/release).
NoAutoreleaseWhileHeld == timer => held = {}

\* The autorelease callback never runs on a freed DLC.
NoTimerAfterFree == ~uaf

=============================================================================
