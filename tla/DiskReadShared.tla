---------------------------- MODULE DiskReadShared ----------------------------
(***************************************************************************)
(* Several threads calling PlasionDiskReadDriver::readLogicalDiskAligned   *)
(* (src/disk/plasiondiskreaddriver.cpp) on the same device at once.  Each  *)
(* caller has its own locals (m, cv, copied, error, amount, into) and its  *)
(* own callback, but every callback is registered with the one static      *)
(* filter of line 11, which matches the NeoMemorySDRead network and        *)
(* nothing else: the device's chunks carry no request number, so the       *)
(* reader thread hands each of them to every callback registered.          *)
(*                                                                         *)
(* Compared with DiskRead, the offset and sector checks and the device's   *)
(* faults are left out (they are the same for every caller and DiskRead    *)
(* checks them); the only messages on the network are the read service's   *)
(* chunks, so the dynamic_pointer_cast of line 35 always succeeds.  Each   *)
(* chunk carries a ghost `owner`, the call whose frame it answers.         *)
(***************************************************************************)
EXTENDS Naturals, Sequences

CONSTANTS
    Callers,     \* the threads calling readLogicalDiskAligned
    MinBlock,    \* getBlockSizeBounds().first
    MaxBlock,    \* getBlockSizeBounds().second
    ChunkSize,   \* payload bytes of one NeoReadMemorySDMessage
    Amounts,     \* the `amount` arguments callers pass
    MaxCalls     \* bound on the calls of each caller

ASSUME SharedAssumption ==
    /\ Callers # {}
    /\ MinBlock \in Nat \ {0}
    /\ MaxBlock \in Nat
    /\ ChunkSize \in Nat \ {0}
    /\ Amounts \subseteq Nat
    /\ MaxCalls \in Nat \ {0}

\* A callback, and the call it belongs to: <<caller, number of its call>>.
CallId == Callers \X (1 .. MaxCalls)

None == <<>>

VARIABLES
    pc,          \* pc[c]: "idle", "sending", "waiting" or "woke"
    calls,       \* calls[c]: calls c has made; its current call's number
    amount,      \* locals of each caller's current call
    copied,
    error,
    into,        \* into[c]: owners of the chunks memcpy wrote, in order
    hitTimeout,
    result,      \* result[c]: value returned by c's last call
    registry,    \* Communication's callbacks: callback number -> CallId
    nextCb,      \* callback numbers handed out so far
    snapshot,    \* reader: the callbacks still to invoke for rmsg
    rmsg,        \* reader: the chunk being dispatched
    cmds,        \* frames written by rawWrite, not yet read by the device
    wire         \* chunks sent by the device, not yet dispatched

vars == <<pc, calls, amount, copied, error, into, hitTimeout, result,
          registry, nextCb, snapshot, rmsg, cmds, wire>>

\* Mutant of Rejected: the bound check of line 13 dropped.
RejectedAlignOnly(a) == a % MinBlock # 0

\* The checks of lines 13-17 on the amount.
Rejected(a) == a > MaxBlock \/ a % MinBlock # 0

\* The predicate passed to cv.wait_for (line 61).
Done(c) == error[c] \/ copied[c] = amount[c]

\* Mutant of Rejects: the bound `amount < copied + size` dropped.
RejectsUnbounded(c) == FALSE

\* The callback's bound test (line 36).
Rejects(c) == amount[c] < copied[c] + ChunkSize

Current(c) == <<c, calls[c]>>

\* The callback of a call can still reach that call's locals.
Live(id) == id = Current(id[1]) /\ pc[id[1]] # "idle"

(* The registry is a map from callback numbers, handed out in increasing *)
(* order, to callbacks (spec 4.2): addMessageCallback adds the next       *)
(* number, removeMessageCallback(cb) erases it, dispatch runs the         *)
(* callbacks in the order of their numbers.                               *)
NoCallbacks == [k \in {} |-> CHOOSE id \in CallId : TRUE]

Added(r, k, id) == [j \in DOMAIN r \cup {k} |-> IF j = k THEN id ELSE r[j]]

\* removeMessageCallback(cb): the registry without callback id.
Without(r, id) == [k \in {j \in DOMAIN r : r[j] # id} |-> r[k]]

\* The callback a dispatch runs next, and those after it.
First(s) == CHOOSE k \in DOMAIN s : \A j \in DOMAIN s : k <= j

Rest(s) == [k \in DOMAIN s \ {First(s)} |-> s[k]]

-----------------------------------------------------------------------------
Init ==
    /\ pc = [c \in Callers |-> "idle"]
    /\ calls = [c \in Callers |-> 0]
    /\ amount = [c \in Callers |-> 0]
    /\ copied = [c \in Callers |-> 0]
    /\ error = [c \in Callers |-> FALSE]
    /\ into = [c \in Callers |-> <<>>]
    /\ hitTimeout = [c \in Callers |-> FALSE]
    /\ result = [c \in Callers |-> None]
    /\ registry = NoCallbacks
    /\ nextCb = 0
    /\ snapshot = NoCallbacks
    /\ rmsg = [owner |-> CHOOSE id \in CallId : TRUE]
    /\ cmds = <<>>
    /\ wire = <<>>

(* Lines 9-49 for caller c: validate; on failure return nullopt;          *)
(* otherwise create the locals, lock m and register the callback.         *)
Start(c, a) ==
    /\ pc[c] = "idle"
    /\ calls[c] < MaxCalls
    /\ calls' = [calls EXCEPT ![c] = @ + 1]
    /\ amount' = [amount EXCEPT ![c] = a]
    /\ IF Rejected(a)
         THEN /\ result' = [result EXCEPT ![c] = None]
              /\ UNCHANGED <<pc, copied, error, into, registry, nextCb>>
         ELSE /\ pc' = [pc EXCEPT ![c] = "sending"]
              /\ copied' = [copied EXCEPT ![c] = 0]
              /\ error' = [error EXCEPT ![c] = FALSE]
              /\ into' = [into EXCEPT ![c] = <<>>]
              /\ registry' = Added(registry, nextCb + 1, <<c, calls[c] + 1>>)
              /\ nextCb' = nextCb + 1
              /\ UNCHANGED result
    /\ UNCHANGED <<hitTimeout, snapshot, rmsg, cmds, wire>>

(* Lines 51-61: rawWrite of the frame, then wait_for tests its predicate *)
(* and, when false, releases m and blocks.                                *)
Send(c) ==
    /\ pc[c] = "sending"
    /\ cmds' = Append(cmds, [owner |-> Current(c), len |-> amount[c]])
    /\ IF Done(c)
         THEN /\ pc' = [pc EXCEPT ![c] = "woke"]
              /\ hitTimeout' = [hitTimeout EXCEPT ![c] = FALSE]
         ELSE /\ pc' = [pc EXCEPT ![c] = "waiting"]
              /\ UNCHANGED hitTimeout
    /\ UNCHANGED <<calls, amount, copied, error, into, result, registry,
                   nextCb, snapshot, rmsg, wire>>

\* Line 61: notified, wait_for returns once its predicate holds.
Wake(c) ==
    /\ pc[c] = "waiting"
    /\ Done(c)
    /\ pc' = [pc EXCEPT ![c] = "woke"]
    /\ hitTimeout' = [hitTimeout EXCEPT ![c] = FALSE]
    /\ UNCHANGED <<calls, amount, copied, error, into, result, registry,
                   nextCb, snapshot, rmsg, cmds, wire>>

\* Line 61: the timeout expires; wait_for returns the predicate's value.
Timeout(c) ==
    /\ pc[c] = "waiting"
    /\ pc' = [pc EXCEPT ![c] = "woke"]
    /\ hitTimeout' = [hitTimeout EXCEPT ![c] = ~Done(c)]
    /\ UNCHANGED <<calls, amount, copied, error, into, result, registry,
                   nextCb, snapshot, rmsg, cmds, wire>>

\* Mutant of Finish: the callbacks removed by their filter, not by id.
FinishByFilter(c) ==
    /\ pc[c] = "woke"
    /\ registry' = NoCallbacks
    /\ result' = [result EXCEPT ![c] = IF hitTimeout[c] THEN None
                                                        ELSE <<amount[c]>>]
    /\ pc' = [pc EXCEPT ![c] = "idle"]
    /\ UNCHANGED <<calls, amount, copied, error, into, hitTimeout,
                   nextCb, snapshot, rmsg, cmds, wire>>

\* Lines 62-67: remove c's callback and return.
Finish(c) ==
    /\ pc[c] = "woke"
    /\ registry' = Without(registry, Current(c))
    /\ result' = [result EXCEPT ![c] = IF hitTimeout[c] THEN None
                                                        ELSE <<amount[c]>>]
    /\ pc' = [pc EXCEPT ![c] = "idle"]
    /\ UNCHANGED <<calls, amount, copied, error, into, hitTimeout,
                   nextCb, snapshot, rmsg, cmds, wire>>

-----------------------------------------------------------------------------
(* Reader thread: Communication dispatch (spec 4.2), every callback of     *)
(* the snapshot in subscription order.                                     *)

Receive ==
    /\ DOMAIN snapshot = {}
    /\ wire # <<>>
    /\ rmsg' = Head(wire)
    /\ wire' = Tail(wire)
    /\ snapshot' = registry
    /\ UNCHANGED <<pc, calls, amount, copied, error, into, hitTimeout,
                   result, registry, nextCb, cmds>>

(* Lines 32-48 in the callback of caller c, which takes c's m only while  *)
(* c is blocked in wait_for.                                              *)
Handler ==
    LET c == snapshot[First(snapshot)][1]
    IN /\ DOMAIN snapshot # {}
       /\ Live(snapshot[First(snapshot)])
       /\ pc[c] = "waiting"
       /\ IF Rejects(c)
            THEN /\ error' = [error EXCEPT ![c] = TRUE]
                 /\ UNCHANGED <<copied, into>>
            ELSE /\ into' = [into EXCEPT ![c] = Append(@, rmsg.owner)]
                 /\ copied' = [copied EXCEPT ![c] = @ + ChunkSize]
                 /\ UNCHANGED error
       /\ snapshot' = Rest(snapshot)
       /\ UNCHANGED <<pc, calls, amount, hitTimeout, result, registry,
                      nextCb, rmsg, cmds, wire>>

\* A callback of a call that has returned (undefined behaviour, see
\* DiskRead!HandlerAfterReturn); it has no effect here.
HandlerAfterReturn ==
    /\ DOMAIN snapshot # {}
    /\ ~Live(snapshot[First(snapshot)])
    /\ snapshot' = Rest(snapshot)
    /\ UNCHANGED <<pc, calls, amount, copied, error, into, hitTimeout,
                   result, registry, nextCb, rmsg, cmds, wire>>

\* The device answers the oldest frame with one chunk per ChunkSize bytes.
DeviceServe ==
    /\ cmds # <<>>
    /\ wire' = wire \o [i \in 1 .. Head(cmds).len \div ChunkSize |->
                          [owner |-> Head(cmds).owner]]
    /\ cmds' = Tail(cmds)
    /\ UNCHANGED <<pc, calls, amount, copied, error, into, hitTimeout,
                   result, registry, nextCb, snapshot, rmsg>>

-----------------------------------------------------------------------------
Next ==
    \/ \E c \in Callers :
          \/ \E a \in Amounts : Start(c, a)
          \/ Send(c) \/ Wake(c) \/ Timeout(c) \/ Finish(c)
    \/ Receive
    \/ Handler
    \/ HandlerAfterReturn
    \/ DeviceServe

Spec == Init /\ [][Next]_vars

-----------------------------------------------------------------------------
(* Types; in particular no caller's `copied` passes MaxBlock, though every *)
(* callback also receives the chunks meant for the other callers (the      *)
(* bound test of line 36 is what stops them).                              *)
TypeOK ==
    /\ pc \in [Callers -> {"idle", "sending", "waiting", "woke"}]
    /\ calls \in [Callers -> 0 .. MaxCalls]
    /\ amount \in [Callers -> Amounts \cup {0}]
    /\ copied \in [Callers -> 0 .. MaxBlock]
    /\ error \in [Callers -> BOOLEAN]
    /\ into \in [Callers -> Seq(CallId)]
    /\ hitTimeout \in [Callers -> BOOLEAN]
    /\ result \in [Callers -> Seq(Nat)]
    /\ nextCb \in Nat
    /\ DOMAIN registry \subseteq 1 .. nextCb
    /\ registry \in [DOMAIN registry -> CallId]
    /\ DOMAIN snapshot \subseteq 1 .. nextCb
    /\ snapshot \in [DOMAIN snapshot -> CallId]
    /\ rmsg \in [owner : CallId]
    /\ cmds \in Seq([owner : CallId, len : Nat])
    /\ wire \in Seq([owner : CallId])

(* Each caller's callback is registered exactly while its call is in      *)
(* progress, once, whatever the other callers do: one caller's return     *)
(* (line 62) removes its own callback and no other caller's.              *)
SubscriptionsScoped ==
    \A c \in Callers :
        /\ \A k \in DOMAIN registry :
              registry[k][1] = c => registry[k] = Current(c) /\ pc[c] # "idle"
        /\ pc[c] # "idle" => \E k \in DOMAIN registry : registry[k] = Current(c)
        /\ \A j, k \in DOMAIN registry :
              registry[j] = Current(c) /\ registry[k] = Current(c) => j = k

(* A read that returns the amount requested filled the caller's buffer     *)
(* with the answer to its own frame only (spec 4.4 and 6: a transaction   *)
(* is a private receiver of its response stream).                          *)
OwnDataOnly ==
    \A c \in Callers :
        pc[c] = "idle" /\ result[c] # None =>
            \A i \in 1 .. Len(into[c]) : into[c][i] = Current(c)

=============================================================================
