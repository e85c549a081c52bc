--------------------------- MODULE ReadTransaction ---------------------------
(***************************************************************************)
(* What a synchronous storage read promises its caller and the device      *)
(* (spec 4.4), at the level of the transaction: a request that fails the   *)
(* preconditions is refused with nothing sent and nothing subscribed; an   *)
(* accepted one subscribes, sends exactly one command naming its own byte  *)
(* range, and returns with its subscription removed and either no result   *)
(* or the amount requested.  Which of the two results it returns is left   *)
(* open here.                                                              *)
(***************************************************************************)
EXTENDS Naturals, Sequences

CONSTANTS
    Positions,   \* offsets a caller may ask for
    Amounts,     \* lengths a caller may ask for
    MaxCalls,    \* bound on the number of calls
    Valid(_, _)  \* the preconditions on (offset, length)

VARIABLES
    tstate,      \* "Idle", "Subscribed" or "Sent"
    treq,        \* number of the current (or last) call
    tpos,        \* its offset
    tamount,     \* its length
    subscribed,  \* calls whose response handler is subscribed
    frames,      \* commands sent: [req, pos, amount]
    tresult      \* result of the last call: <<>> or <<length>>

tvars == <<tstate, treq, tpos, tamount, subscribed, frames, tresult>>

TInit ==
    /\ tstate = "Idle"
    /\ treq = 0
    /\ tpos = 0
    /\ tamount = 0
    /\ subscribed = {}
    /\ frames = {}
    /\ tresult = <<>>

\* A call whose request fails the preconditions returns no result at once.
Refuse(p, a) ==
    /\ tstate = "Idle"
    /\ treq < MaxCalls
    /\ ~Valid(p, a)
    /\ treq' = treq + 1
    /\ tpos' = p
    /\ tamount' = a
    /\ tresult' = <<>>
    /\ UNCHANGED <<tstate, subscribed, frames>>

\* A call with a valid request subscribes its handler.
Accept(p, a) ==
    /\ tstate = "Idle"
    /\ treq < MaxCalls
    /\ Valid(p, a)
    /\ treq' = treq + 1
    /\ tpos' = p
    /\ tamount' = a
    /\ subscribed' = {treq + 1}
    /\ tstate' = "Subscribed"
    /\ UNCHANGED <<frames, tresult>>

\* It sends one command for exactly its byte range.
SendCommand ==
    /\ tstate = "Subscribed"
    /\ frames' = frames \cup {[req |-> treq, pos |-> tpos, amount |-> tamount]}
    /\ tstate' = "Sent"
    /\ UNCHANGED <<treq, tpos, tamount, subscribed, tresult>>

\* It returns, unsubscribed, with no result or the full length.
Return ==
    /\ tstate = "Sent"
    /\ subscribed' = {}
    /\ tresult' \in {<<>>, <<tamount>>}
    /\ tstate' = "Idle"
    /\ UNCHANGED <<treq, tpos, tamount, frames>>

TNext ==
    \/ \E p \in Positions, a \in Amounts : Refuse(p, a) \/ Accept(p, a)
    \/ SendCommand
    \/ Return

TSpec == TInit /\ [][TNext]_tvars

=============================================================================
