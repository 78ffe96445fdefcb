------------------------------- MODULE CallRef -------------------------------
(***************************************************************************)
(* Call reference allocation for outbound calls: the interface's          *)
(* next_call_reference as initialised by q931_open_interface and advanced *)
(* by q931_intf_take_call_reference (src/libq931/intf.c).                 *)
(*                                                                         *)
(* An outbound call occupies one of the slots in Slots while it exists;   *)
(* allocating it takes a reference, releasing it frees the reference.     *)
(* Creating and destroying the call is call.c, not in src/, and is        *)
(* modelled from the spec.  The reference field is CallRefBits bits wide   *)
(* (8 * call_reference_len - 1: 7 on a BRA, 15 on a PRA); TLC checks a    *)
(* scaled-down width with the same code.                                  *)
(***************************************************************************)
EXTENDS Integers, Bitwise

CONSTANTS
    CallRefBits,   \* 8 * interface->call_reference_len - 1
    Slots          \* outbound calls that may exist at once

ASSUME CallRefBits \in 2..15

\* 1 << ((interface->call_reference_len * 8) - 1)
Modulus == 2^CallRefBits

\* Call reference 0 belongs to the global call.
GlobalCallRef == 0
NoRef == -1        \* an unused slot; also q931_intf_take_call_reference's -1

VARIABLES
    next_call_reference,   \* interface->next_call_reference
    ref,                   \* ref[s]: call_reference of the outbound call in s
    hung                   \* a take is spinning in its try_again loop

vars == <<next_call_reference, ref, hung>>

InUse == {ref[s] : s \in {t \in Slots : ref[t] # NoRef}}

-----------------------------------------------------------------------------

\* q931_open_interface: (rand() & (modulus - 2)) + 1.  Only the low
\* CallRefBits bits of rand() matter.
InitialRefs == {(x & (Modulus - 2)) + 1 : x \in 0..(Modulus - 1)}

\* Mutants: no wrap, and the wrap tested with > instead of >=.
AdvanceNoWrap(n) == n + 1
AdvanceLateWrap(n) == IF n + 1 > Modulus THEN 1 ELSE n + 1

\* interface->next_call_reference++ with the wrap to 1.
Advance(n) == IF n + 1 >= Modulus THEN 1 ELSE n + 1

\* The try_again loop of q931_intf_take_call_reference from next = n over
\* the references in use: the result and the new next_call_reference.
\* The loop returns -1 only when the reference it collided on equals the
\* advanced next_call_reference; after Modulus rounds without returning
\* it has seen every value and will spin for ever (hang).
\* Mutant: the list_for_each_entry collision check is left out.
TakeLoopNoCheck(n, used, fuel) ==
    [result |-> n, next |-> Advance(n), hang |-> FALSE]

RECURSIVE TakeLoop(_, _, _)
TakeLoop(n, used, fuel) ==
    LET nx == Advance(n) IN
    CASE n \notin used -> [result |-> n, next |-> nx, hang |-> FALSE]
      [] n = nx        -> [result |-> NoRef, next |-> nx, hang |-> FALSE]
      [] fuel = 0      -> [result |-> NoRef, next |-> nx, hang |-> TRUE]
      [] OTHER         -> TakeLoop(nx, used, fuel - 1)

\* Mutant: the reference is read after next_call_reference is advanced.
TakeAfterAdvance(n, used) == TakeLoop(Advance(n), used, Modulus)

\* q931_intf_take_call_reference
Take(n, used) == TakeLoop(n, used, Modulus)

-----------------------------------------------------------------------------

Init ==
    /\ next_call_reference \in InitialRefs
    /\ ref = [s \in Slots |-> NoRef]
    /\ hung = FALSE

\* An outbound call is allocated in a free slot and takes a reference.
TakeCallReference(s) ==
    /\ ~hung
    /\ ref[s] = NoRef
    /\ LET t == Take(next_call_reference, InUse) IN
        IF t.hang
        THEN /\ hung' = TRUE
             /\ UNCHANGED <<next_call_reference, ref>>
        ELSE /\ next_call_reference' = t.next
             /\ ref' = [ref EXCEPT ![s] = t.result]
             /\ UNCHANGED hung

\* The outbound call in slot s is released and leaves interface->calls.
CallRelease(s) ==
    /\ ~hung
    /\ ref[s] # NoRef
    /\ ref' = [ref EXCEPT ![s] = NoRef]
    /\ UNCHANGED <<next_call_reference, hung>>

Next == \E s \in Slots : TakeCallReference(s) \/ CallRelease(s)

Spec == Init /\ [][Next]_vars

-----------------------------------------------------------------------------
(* Properties.                                                              *)

TypeOK ==
    /\ next_call_reference \in 0..Modulus
    /\ ref \in [Slots -> {NoRef} \cup 0..Modulus]
    /\ hung \in BOOLEAN

\* No two outbound calls on the interface share a call reference.
RefsUnique ==
    \A s, t \in Slots : s # t /\ ref[s] # NoRef => ref[s] # ref[t]

\* Every reference taken fits the call reference field and is never the
\* global call's reference 0, and next_call_reference stays in that range.
RefsInRange ==
    /\ \A s \in Slots : ref[s] # NoRef => ref[s] \in 1..(Modulus - 1)
    /\ next_call_reference \in 1..(Modulus - 1)

\* Reference definition of the allocation: the first value, counting
\* cyclically upward from next_call_reference over 1..Modulus-1, that no
\* outbound call uses.
CyclicDist(n, r) == (r - n + (Modulus - 1)) % (Modulus - 1)
FirstFree(n, used) ==
    LET free == (1..(Modulus - 1)) \ used IN
    CHOOSE r \in free : \A q \in free : CyclicDist(n, r) <= CyclicDist(n, q)

\* Every take that succeeds returns the reference definition's value.
TakeIsFirstFree ==
    [][\A s \in Slots :
         TakeCallReference(s) /\ ref'[s] # NoRef =>
             ref'[s] = FirstFree(next_call_reference, InUse)]_vars

\* Taking a reference when all are in use returns -1 (the spec: "call
\* reference space exhausted ... never fatal to the engine").
TakeTerminates == ~hung

=============================================================================
