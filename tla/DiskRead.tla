------------------------------ MODULE DiskRead ------------------------------
(***************************************************************************)
(* PlasionDiskReadDriver::readLogicalDiskAligned                           *)
(* (src/disk/plasiondiskreaddriver.cpp): a synchronous, timeout-bounded    *)
(* read built on the asynchronous message-callback path.                   *)
(*                                                                         *)
(* Three threads interact:                                                 *)
(*  - the caller, which validates the request, registers a callback on the *)
(*    NeoMemorySDRead network, writes one command frame, waits on a        *)
(*    condition variable with a timeout, removes the callback and returns; *)
(*  - the device's reader thread, which dispatches every received message  *)
(*    to a snapshot of the registered callbacks (Communication, modelled   *)
(*    from the spec, section 4.2: snapshot taken under the registry lock,  *)
(*    handlers run outside it);                                            *)
(*  - the device, which answers a command frame with response chunks, and  *)
(*    may lose the answer, add a chunk, or send a message that is not a    *)
(*    NeoReadMemorySDMessage (bounded by MaxFaults).                       *)
(*                                                                         *)
(* The callback captures the caller's locals (m, cv, copied, error,        *)
(* amount, into) by reference: they live only while the call is in         *)
(* progress.  Bytes are abstracted to chunk records; `into` is the         *)
(* sequence of chunks memcpy has written, in order.                        *)
(***************************************************************************)
EXTENDS Naturals, Sequences

CONSTANTS
    MinBlock,    \* getBlockSizeBounds().first: alignment granularity
    MaxBlock,    \* getBlockSizeBounds().second: largest read
    SectorSize,  \* PlasionDiskReadDriver::SectorSize
    SectorBits,  \* width of `uint32_t sector` (32 in the code)
    LengthBits,  \* width of the frame's two length bytes (16 in the code)
    ChunkSize,   \* payload bytes of one NeoReadMemorySDMessage
    Positions,   \* the `pos` arguments callers pass
    Amounts,     \* the `amount` arguments callers pass
    MaxCalls,    \* bound on the number of calls
    MaxFaults    \* bound on device faults

ASSUME DiskAssumption ==
    /\ SectorSize \in Nat \ {0}
    /\ MinBlock \in Nat \ {0}
    /\ MaxBlock \in Nat
    /\ ChunkSize \in Nat \ {0}
    /\ MinBlock % SectorSize = 0
    /\ MinBlock % ChunkSize = 0
    /\ SectorBits \in Nat
    /\ LengthBits \in Nat
    /\ MaxBlock < 2^LengthBits
    /\ Positions \subseteq Nat
    /\ Amounts \subseteq Nat
    /\ MaxCalls \in Nat \ {0}
    /\ MaxFaults \in Nat

\* optional<uint64_t>: <<>> is nullopt, <<n>> holds n.
None == <<>>

MaxChunks == MaxBlock \div ChunkSize + 1

\* Messages on the NeoMemorySDRead network.  `req` and `idx` are ghost
\* fields naming the request and the chunk a payload belongs to; the code
\* cannot see them.  kind "other" fails the dynamic_pointer_cast.
Msg == [kind : {"sd", "other"}, req : 1..MaxCalls, idx : 0..MaxChunks]

\* The payloads a NeoReadMemorySDMessage carries.
SDChunk == {m \in Msg : m.kind = "sd"}

\* Command frames; `req`, `pos` and `amount` are ghost fields.
Frame == [req : 1..MaxCalls, pos : Nat, amount : Nat, sector : Nat, len : Nat]

VARIABLES
    cpc,        \* caller: "idle", "sending", "waiting" or "woke"
    calls,      \* number of calls made; the current call's callback id
    pos,        \* argument of the current call
    amount,     \* argument of the current call
    copied,     \* local `copied`
    error,      \* local `error`
    into,       \* chunks written to the destination buffer, in order
    hitTimeout, \* local `hitTimeout`
    result,     \* value returned by the last call
    registry,   \* ids of the callbacks registered on the Communication
    snapshot,   \* reader: callbacks still to invoke for the current message
    rmsg,       \* reader: the message being dispatched
    cmds,       \* frames written by rawWrite, not yet read by the device
    wire,       \* messages sent by the device, not yet dispatched
    sent,       \* ghost: every frame ever written
    faults,     \* device faults so far
    uaf         \* ghost: a callback ran after its call had returned

vars == <<cpc, calls, pos, amount, copied, error, into, hitTimeout, result,
          registry, snapshot, rmsg, cmds, wire, sent, faults, uaf>>

callerVars == <<cpc, calls, pos, amount, copied, error, into, hitTimeout,
                result, registry>>

-----------------------------------------------------------------------------
(* The checks made before any I/O (lines 13-25).                          *)

TooLarge(a) == a > MaxBlock

MisalignedAmount(a) == a % MinBlock # 0

MisalignedPos(p) == p % MinBlock # 0

\* uint32_t sector = uint32_t(pos / SectorSize)
SectorOf(p) == (p \div SectorSize) % 2^SectorBits

\* Mutant of SectorOverflow: the truncation check of line 24 dropped.
SectorOverflowUnchecked(p) == FALSE

SectorOverflow(p) == p \div SectorSize # SectorOf(p)

Rejected(p, a) ==
    TooLarge(a) \/ MisalignedAmount(a) \/ MisalignedPos(p) \/ SectorOverflow(p)

\* The predicate passed to cv.wait_for (line 61).
Done == error \/ copied = amount

\* Mutant of Rejects: the bound `amount < copied + size` dropped.
RejectsUnbounded(m) == m.kind # "sd"

\* Mutant of Rejects: the `!sdmsg` test of the dynamic_pointer_cast dropped.
RejectsAnyType(m) == amount < copied + ChunkSize

\* The callback's rejection test (line 36).
Rejects(m) == m.kind # "sd" \/ amount < copied + ChunkSize

\* The callback of a call can still reach that call's locals.
Live(k) == k = calls /\ cpc # "idle"

NextHandler == CHOOSE k \in snapshot : \A j \in snapshot : k <= j

-----------------------------------------------------------------------------
Init ==
    /\ cpc = "idle"
    /\ calls = 0
    /\ pos = 0
    /\ amount = 0
    /\ copied = 0
    /\ error = FALSE
    /\ into = <<>>
    /\ hitTimeout = FALSE
    /\ result = None
    /\ registry = {}
    /\ snapshot = {}
    /\ rmsg = [kind |-> "other", req |-> 1, idx |-> 0]
    /\ cmds = <<>>
    /\ wire = <<>>
    /\ sent = {}
    /\ faults = 0
    /\ uaf = FALSE

\* Mutant of Start: the callback registered before the checks of lines
\* 13-25, so that their early returns leave it registered.
StartSubscribeFirst(p, a) ==
    /\ cpc = "idle"
    /\ calls < MaxCalls
    /\ calls' = calls + 1
    /\ pos' = p
    /\ amount' = a
    /\ registry' = registry \cup {calls + 1}
    /\ IF Rejected(p, a)
         THEN /\ result' = None
              /\ UNCHANGED <<cpc, copied, error, into>>
         ELSE /\ cpc' = "sending"
              /\ copied' = 0
              /\ error' = FALSE
              /\ into' = <<>>
              /\ UNCHANGED result
    /\ UNCHANGED <<hitTimeout, snapshot, rmsg, cmds, wire, sent, faults, uaf>>

(* Lines 9-49: validate; on failure return nullopt with nothing sent;     *)
(* otherwise create the locals, lock m and register the callback.         *)
Start(p, a) ==
    /\ cpc = "idle"
    /\ calls < MaxCalls
    /\ calls' = calls + 1
    /\ pos' = p
    /\ amount' = a
    /\ IF Rejected(p, a)
         THEN /\ result' = None
              /\ UNCHANGED <<cpc, copied, error, into, registry>>
         ELSE /\ cpc' = "sending"
              /\ copied' = 0
              /\ error' = FALSE
              /\ into' = <<>>
              /\ registry' = registry \cup {calls + 1}
              /\ UNCHANGED result
    /\ UNCHANGED <<hitTimeout, snapshot, rmsg, cmds, wire, sent, faults, uaf>>

(* Lines 51-61: rawWrite of the command frame, then wait_for checks its  *)
(* predicate (still holding m) and, when false, releases m and blocks.   *)
Send ==
    LET f == [req |-> calls, pos |-> pos, amount |-> amount,
              sector |-> SectorOf(pos), len |-> amount % 2^LengthBits]
    IN /\ cpc = "sending"
       /\ cmds' = Append(cmds, f)
       /\ sent' = sent \cup {f}
       /\ IF Done
            THEN cpc' = "woke" /\ hitTimeout' = FALSE
            ELSE cpc' = "waiting" /\ UNCHANGED hitTimeout
       /\ UNCHANGED <<calls, pos, amount, copied, error, into, result,
                      registry, snapshot, rmsg, wire, faults, uaf>>

(* Line 61: notified (or spuriously woken), wait_for reacquires m and    *)
(* returns once its predicate holds.                                     *)
Wake ==
    /\ cpc = "waiting"
    /\ Done
    /\ cpc' = "woke"
    /\ hitTimeout' = FALSE
    /\ UNCHANGED <<calls, pos, amount, copied, error, into, result, registry,
                   snapshot, rmsg, cmds, wire, sent, faults, uaf>>

\* Mutant of Timeout: cv.wait without a deadline, woken only by the
\* predicate.
TimeoutNever ==
    /\ cpc = "waiting"
    /\ Done
    /\ cpc' = "woke"
    /\ hitTimeout' = ~Done
    /\ UNCHANGED <<calls, pos, amount, copied, error, into, result, registry,
                   snapshot, rmsg, cmds, wire, sent, faults, uaf>>

(* Line 61: the timeout expires; wait_for reacquires m and returns the   *)
(* predicate's value.                                                     *)
Timeout ==
    /\ cpc = "waiting"
    /\ cpc' = "woke"
    /\ hitTimeout' = ~Done
    /\ UNCHANGED <<calls, pos, amount, copied, error, into, result, registry,
                   snapshot, rmsg, cmds, wire, sent, faults, uaf>>

\* Mutant of Finish: `if(hitTimeout) return nullopt;` placed before the
\* removeMessageCallback of line 62.
FinishLeakOnTimeout ==
    /\ cpc = "woke"
    /\ registry' = IF hitTimeout THEN registry ELSE registry \ {calls}
    /\ result' = IF hitTimeout THEN None ELSE <<amount>>
    /\ cpc' = "idle"
    /\ UNCHANGED <<calls, pos, amount, copied, error, into, hitTimeout,
                   snapshot, rmsg, cmds, wire, sent, faults, uaf>>

(* Lines 62-67: remove the callback, return, and so unlock m and destroy  *)
(* the locals.                                                            *)
Finish ==
    /\ cpc = "woke"
    /\ registry' = registry \ {calls}
    /\ result' = IF hitTimeout THEN None ELSE <<amount>>
    /\ cpc' = "idle"
    /\ UNCHANGED <<calls, pos, amount, copied, error, into, hitTimeout,
                   snapshot, rmsg, cmds, wire, sent, faults, uaf>>

-----------------------------------------------------------------------------
(* Reader thread: Communication dispatch (spec 4.2).                      *)

\* Take the next received message and a snapshot of the callbacks
\* registered on its network; with none registered it is dropped.
Receive ==
    /\ snapshot = {}
    /\ wire # <<>>
    /\ rmsg' = Head(wire)
    /\ wire' = Tail(wire)
    /\ snapshot' = registry
    /\ UNCHANGED <<callerVars, cmds, sent, faults, uaf>>

(* Lines 32-48: the callback, run with m locked, which it can take only  *)
(* while the caller is blocked in wait_for.                              *)
Handler ==
    /\ snapshot # {}
    /\ Live(NextHandler)
    /\ cpc = "waiting"
    /\ IF Rejects(rmsg)
         THEN /\ error' = TRUE
              /\ UNCHANGED <<copied, into>>
         ELSE /\ into' = Append(into, rmsg)
              /\ copied' = copied + ChunkSize
              /\ UNCHANGED error
    /\ snapshot' = snapshot \ {NextHandler}
    /\ UNCHANGED <<cpc, calls, pos, amount, hitTimeout, result, registry,
                   rmsg, cmds, wire, sent, faults, uaf>>

\* The snapshot still holds the callback of a call that has returned: the
\* copied lambda locks a destroyed mutex and touches destroyed locals.
\* The outcome is undefined; it is recorded and has no other effect here.
HandlerAfterReturn ==
    /\ snapshot # {}
    /\ ~Live(NextHandler)
    /\ uaf' = TRUE
    /\ snapshot' = snapshot \ {NextHandler}
    /\ UNCHANGED <<callerVars, rmsg, cmds, wire, sent, faults>>

-----------------------------------------------------------------------------
(* Device side of the protocol (spec 6): one chunk per ChunkSize bytes,  *)
(* in order; a fault loses the answer, adds a chunk, or sends a message   *)
(* of another type on the same network.                                   *)

Chunks(f, n) == [i \in 1..n |-> [kind |-> "sd", req |-> f.req, idx |-> i]]

Reply(f, fault) ==
    CASE fault = "none"    -> Chunks(f, f.len \div ChunkSize)
      [] fault = "drop"    -> <<>>
      [] fault = "extra"   -> Chunks(f, f.len \div ChunkSize + 1)
      [] fault = "garbage" -> <<[kind |-> "other", req |-> f.req, idx |-> 0]>>

DeviceServe ==
    /\ cmds # <<>>
    /\ \E fault \in {"none", "drop", "extra", "garbage"} :
         /\ fault # "none" => faults < MaxFaults
         /\ faults' = IF fault = "none" THEN faults ELSE faults + 1
         /\ wire' = wire \o Reply(Head(cmds), fault)
    /\ cmds' = Tail(cmds)
    /\ UNCHANGED <<callerVars, snapshot, rmsg, sent, uaf>>

-----------------------------------------------------------------------------
Next ==
    \/ \E p \in Positions, a \in Amounts : Start(p, a)
    \/ Send
    \/ Wake
    \/ Timeout
    \/ Finish
    \/ Receive
    \/ Handler
    \/ HandlerAfterReturn
    \/ DeviceServe

Spec == Init /\ [][Next]_vars

\* The caller thread is scheduled, and wait_for's timeout always expires.
FairSpec == Spec /\ WF_vars(Send) /\ WF_vars(Timeout) /\ WF_vars(Finish)

-----------------------------------------------------------------------------
TypeOK ==
    /\ cpc \in {"idle", "sending", "waiting", "woke"}
    /\ calls \in 0..MaxCalls
    /\ pos \in Nat
    /\ amount \in Nat
    /\ copied \in 0..MaxBlock
    /\ error \in BOOLEAN
    /\ into \in Seq(SDChunk)
    /\ hitTimeout \in BOOLEAN
    /\ result \in Seq(Nat) /\ Len(result) <= 1
    /\ registry \subseteq 1..MaxCalls
    /\ snapshot \subseteq 1..MaxCalls
    /\ rmsg \in Msg
    /\ cmds \in Seq(Frame)
    /\ wire \in Seq(Msg)
    /\ sent \subseteq Frame
    /\ faults \in 0..MaxFaults
    /\ uaf \in BOOLEAN

(* The callback never writes past the `amount` bytes the caller provided  *)
(* in `into` (line 43), whatever stale, extra or foreign messages arrive  *)
(* while the call is in progress.                                         *)
NoOverrun == cpc # "idle" => copied <= amount

\* Frame f asks the device for exactly the byte range of its request.
MatchesRequest(f) ==
    /\ f.sector * SectorSize = f.pos
    /\ f.len = f.amount
    /\ f.pos % MinBlock = 0
    /\ f.amount % MinBlock = 0
    /\ f.amount <= MaxBlock

(* Every command frame the driver writes (lines 51-59) asks the device    *)
(* for exactly the caller's byte range: a sector that is the offset       *)
(* without truncation, a length that is the amount, both block-aligned    *)
(* and within the maximum read (spec 4.4 preconditions).                  *)
FramesMatchRequests == \A f \in sent : MatchesRequest(f)

(* The temporary callback is registered only while its call is in         *)
(* progress: every exit path, the timeout included, removes it (line 62). *)
SubscriptionScoped ==
    /\ registry \subseteq {calls}
    /\ cpc = "idle" => registry = {}

(* Every call returns: wait_for's timeout bounds the wait even when the   *)
(* device never answers (line 61).                                        *)
CallReturns == cpc # "idle" ~> cpc = "idle"

-----------------------------------------------------------------------------
(* The transaction lifecycle of spec 4.4 (module ReadTransaction): the    *)
(* caller's position in readLogicalDiskAligned, and each frame sent read   *)
(* back as the byte range the device will serve.                          *)

Accepted(p, a) == ~Rejected(p, a)

TxnState ==
    CASE cpc = "idle"    -> "Idle"
      [] cpc = "sending" -> "Subscribed"
      [] OTHER           -> "Sent"

\* The byte range a device reads from a frame: sector times SectorSize,
\* and the length field.
Decoded(f) == [req |-> f.req, pos |-> f.sector * SectorSize, amount |-> f.len]

Txn == INSTANCE ReadTransaction
         WITH tstate <- TxnState, treq <- calls, tpos <- pos,
              tamount <- amount, subscribed <- registry,
              frames <- {Decoded(f) : f \in sent}, tresult <- result,
              Valid <- Accepted

(* readLogicalDiskAligned implements the transaction of spec 4.4: a       *)
(* refused request subscribes and sends nothing; an accepted one           *)
(* subscribes, sends one frame that the device reads as exactly the        *)
(* requested range, and returns unsubscribed with nullopt or amount,       *)
(* whatever the reader thread and the device do meanwhile.                 *)
TxnRefinement == Txn!TSpec

-----------------------------------------------------------------------------
(* What spec section 4.4 promises of the returned value and of late      *)
(* answers.  The code departs from each; see README, "Findings".          *)

\* A step in which the call returns.
Returns == cpc = "woke" /\ cpc' = "idle"

(* A transaction marked Errored (line 37: a foreign message, or more data *)
(* than requested) returns nullopt, never a byte count (spec 4.4).        *)
NoSuccessAfterError == [][Returns /\ error => result' = None]_vars

(* A call that returns a byte count has filled `into` with its own        *)
(* request's chunks, in order: answers to an earlier, timed-out call are  *)
(* "dropped by the registry" and never reach a later one (spec 4.4).      *)
SuccessDataFresh ==
    [][Returns /\ result' # None =>
         into = [i \in 1..(amount \div ChunkSize) |->
                   [kind |-> "sd", req |-> calls, idx |-> i]]]_vars

(* No callback runs on the locals of a call that has returned: answers    *)
(* arriving after removeMessageCallback (line 62) never touch the          *)
(* transaction (spec 4.4).                                                 *)
NoHandlerAfterReturn == ~uaf

=============================================================================
