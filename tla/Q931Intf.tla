------------------------------ MODULE Q931Intf ------------------------------
(***************************************************************************)
(* An interface's outbound calls and the DLC they signal on, composed     *)
(* from CallRef (the interface's call references, src/libq931/intf.c)    *)
(* and Dlc (src/libq931/dlc.c).  A call takes a call reference when it   *)
(* is allocated, is bound to the DLC with a reference of its own, holds   *)
(* the link while it needs it, and gives both back before it leaves       *)
(* interface->calls.  The call's life is call.c, not in src/, and is      *)
(* modelled from the spec (section 3: a call belongs to one interface,    *)
(* identified by its call reference; a DLC's holds imply references).    *)
(***************************************************************************)
CONSTANTS
    CallRefBits,       \* 8 * interface->call_reference_len - 1
    Calls,             \* outbound calls that may exist at once
    Owner,             \* the interface's DLC list
    AutoreleaseTime    \* interface->dlc_autorelease_time

VARIABLES
    next_call_reference, ref, hung,                          \* CallRef
    holdcnt, refcnt, timer, socket, freed, held, refd, uaf   \* Dlc

crvars == <<next_call_reference, ref, hung>>
dvars == <<holdcnt, refcnt, timer, socket, freed, held, refd, uaf>>
vars == <<crvars, dvars>>

CR == INSTANCE CallRef WITH Slots <- Calls
D == INSTANCE Dlc WITH Users <- Calls

Init == CR!Init /\ D!Init

\* q931_call_alloc_out: a new call, not yet bound to any DLC, takes a
\* call reference.
CallAlloc(c) ==
    /\ c \notin refd
    /\ CR!TakeCallReference(c)
    /\ UNCHANGED dvars

\* The call is bound to the DLC it will signal on (q931_dlc_get).
CallBind(c) ==
    /\ ref[c] # CR!NoRef
    /\ D!Get(c)
    /\ UNCHANGED crvars

\* The call holds and releases the link as its state needs it, and drops
\* its DLC reference once it no longer holds it.
CallHold(c) == D!Hold(c) /\ UNCHANGED crvars
CallUnhold(c) == D!Release(c) /\ UNCHANGED crvars
CallUnbind(c) == D!Put(c) /\ UNCHANGED crvars

\* The released call, unbound from the DLC, leaves interface->calls and
\* frees its call reference.
CallFree(c) ==
    /\ c \notin refd
    /\ CR!CallRelease(c)
    /\ UNCHANGED dvars

\* The interface's DLC list drops its reference; the autorelease timer
\* fires.
ListPut == D!Put(Owner) /\ UNCHANGED crvars
DlcAutorelease == D!Autorelease /\ UNCHANGED crvars

Next ==
    \/ \E c \in Calls :
         \/ CallAlloc(c) \/ CallBind(c) \/ CallHold(c) \/ CallUnhold(c)
         \/ CallUnbind(c) \/ CallFree(c)
    \/ ListPut \/ DlcAutorelease

\* The timer sweep runs on every loop of the worker.
Spec == Init /\ [][Next]_vars /\ WF_vars(DlcAutorelease)

-----------------------------------------------------------------------------
(* Properties: those of the two components, on the composition.            *)

TypeOK == CR!TypeOK /\ D!TypeOK

\* No two outbound calls share a call reference.
RefsUnique == CR!RefsUnique

\* Call references stay inside the field and off the global call's 0.
RefsInRange == CR!RefsInRange

\* Every take that succeeds returns the first free reference after
\* next_call_reference.
TakeIsFirstFree ==
    [][\A c \in Calls :
         CR!TakeCallReference(c) /\ ref'[c] # CR!NoRef =>
             ref'[c] = CR!FirstFree(next_call_reference, CR!InUse)]_vars

\* The autorelease timer is never pending while a call holds the link.
NoAutoreleaseWhileHeld == D!NoAutoreleaseWhileHeld

=============================================================================
