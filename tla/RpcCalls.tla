------------------------------ MODULE RpcCalls ------------------------------
(***************************************************************************)
(* What the callers of the trace processor engine rely on: a call that was *)
(* made is answered at most once, with its own answer, after the calls     *)
(* made before it.  So when an answer is lost no later call is answered.   *)
(***************************************************************************)
EXTENDS Integers

CONSTANTS MaxCalls, Kinds, None

Calls == 1 .. MaxCalls

VARIABLES
    made,    \* call -> its kind, or None while it has not been made
    answer   \* call -> the call whose answer it was given, or None

Init ==
    /\ made = [c \in Calls |-> None]
    /\ answer = [c \in Calls |-> None]

Make(c) ==
    /\ made[c] = None
    /\ \A d \in 1 .. c - 1 : made[d] # None
    /\ \E k \in Kinds : made' = [made EXCEPT ![c] = k]
    /\ UNCHANGED answer

Answer(c) ==
    /\ made[c] # None /\ answer[c] = None
    /\ \A d \in 1 .. c - 1 : answer[d] # None
    /\ answer' = [answer EXCEPT ![c] = c]
    /\ UNCHANGED made

Next == \E c \in Calls : Make(c) \/ Answer(c)

Spec == Init /\ [][Next]_<<made, answer>>
=============================================================================
