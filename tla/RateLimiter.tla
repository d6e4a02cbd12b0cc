----------------------------- MODULE RateLimiter -----------------------------
(***************************************************************************)
(* RateLimiterMiddleware: at most rpm requests of a client in a sliding    *)
(* window, and a Retry-After for the one that is too many.  dispatch takes *)
(* a lock and awaits nothing under it, so each request is one step.        *)
(* Requests to /health, and all of them when the limiter is disabled, pass *)
(* without a trace and are left out.                                       *)
(*                                                                         *)
(* Time passes in ticks, several to a second.  Instead of the time stamps  *)
(* of time.monotonic() a queue holds their ages, now minus the stamp, and  *)
(* tick makes all of them older; beyond the window an age is capped.       *)
(***************************************************************************)
EXTENDS Integers, Sequences, FiniteSets

CONSTANTS
    Clients,   \* request.client.host
    Rpm,       \* RateLimiterMiddleware.rpm
    Window,    \* 60 seconds, in ticks
    Second     \* ticks in a second, the unit of Retry-After

ASSUME LimiterAssumption ==
    /\ Rpm \in Nat \ {0} /\ Second \in Nat \ {0} /\ Window \in Nat
    /\ Window % Second = 0

VARIABLES
    q,         \* _clients: the ages of a client's requests, oldest first
    admitted,  \* history: the ages up to Window of the requests let through
    told       \* history: ticks of its last Retry-After that a client still
               \* has to wait, NotTold since it was let through

vars == <<q, admitted, told>>

NotTold == -1
Ages    == 0..(Window + 1)

LimiterTypeOK ==
    /\ q \in [Clients -> Seq(Ages)]
    /\ admitted \in [Clients -> Seq(0..Window)]
    /\ told \in [Clients -> {NotTold} \cup 0..(Window + Second)]

Init ==
    /\ q = [c \in Clients |-> << >>]
    /\ admitted = [c \in Clients |-> << >>]
    /\ told = [c \in Clients |-> NotTold]

Older(age) == IF age > Window THEN age ELSE age + 1

\* The elements of s at a set of positions, in their order.
Selected(s, positions) ==
    LET nth(n) == CHOOSE i \in positions : Cardinality({j \in positions : j <= i}) = n
    IN  [n \in 1..Cardinality(positions) |-> s[nth(n)]]

\* The ages in s that are in the window a tick later.
Recent(s) == Selected([i \in DOMAIN s |-> s[i] + 1], {i \in DOMAIN s : s[i] + 1 <= Window})

tick ==
    /\ q' = [c \in Clients |-> [i \in DOMAIN q[c] |-> Older(q[c][i])]]
    /\ admitted' = [c \in Clients |-> Recent(admitted[c])]
    /\ told' = [c \in Clients |-> IF told[c] > 0 THEN told[c] - 1 ELSE told[c]]

\* Mutant: a stamp exactly one window old is taken for outside.
InWindow_Open(age) == age < Window

InWindow(age) == age <= Window

\* The loop pops time stamps from the left while they are outside the window.
Popped(s) == {i \in DOMAIN s : \A j \in 1..i : ~ InWindow(s[j])}

\* The queue after the loop.
Pruned(c) == SubSeq(q[c], Cardinality(Popped(q[c])) + 1, Len(q[c]))

Full(c) == Len(Pruned(c)) >= Rpm

\* Mutant: the part of a second that is left is not waited for.
RetryAfter_Truncated(age) == (Window - age) \div Second

\* int(window - (now - q[0])) + 1
RetryAfter(age) == (Window - age) \div Second + 1

dispatch_admits(c) ==
    /\ ~ Full(c)
    /\ q' = [q EXCEPT ![c] = Append(Pruned(c), 0)]
    /\ admitted' = [admitted EXCEPT ![c] = Append(@, 0)]
    /\ told' = [told EXCEPT ![c] = NotTold]

\* 429, with a Retry-After; the request is not counted.
dispatch_rejects(c) ==
    /\ Full(c)
    /\ q' = [q EXCEPT ![c] = Pruned(c)]
    /\ told' = [told EXCEPT ![c] = Second * RetryAfter(Head(Pruned(c)))]
    /\ UNCHANGED admitted

Next == tick \/ \E c \in Clients : dispatch_admits(c) \/ dispatch_rejects(c)

Spec == Init /\ [][Next]_vars

-----------------------------------------------------------------------------
(* Properties.                                                             *)

\* Whatever the requests, rejected ones among them, and the time between them:
\* a request is let through exactly if fewer than rpm were in the window that
\* ends with it, both ends included.  (The pops, the test, the append.)
LimitIsExact ==
    [][\A c \in Clients :
         /\ dispatch_admits(c) => Len(admitted[c]) < Rpm
         /\ dispatch_rejects(c) => Len(admitted[c]) = Rpm]_vars

\* A client that waits as long as Retry-After said is let through, at every
\* fraction of a second at which it was refused.  (The rounding of retry.)
RetryAfterIsEnough ==
    \A c \in Clients : told[c] = 0 => ~ Full(c)
=============================================================================
