--------------------------- MODULE DiskReadProofs ---------------------------
(***************************************************************************)
(* Proofs, for every value of the constants that satisfies DiskAssumption, *)
(* of the safety invariants of DiskRead that MCDiskRead checks on a small  *)
(* instance: the type invariant, NoOverrun, FramesMatchRequests and        *)
(* SubscriptionScoped.  None of them is inductive alone; IInv below adds   *)
(* what the caller's state says about the current call (it has passed the  *)
(* checks of lines 13-25) and that every frame still queued for the device *)
(* matches its request.                                                    *)
(***************************************************************************)
EXTENDS DiskRead, SequenceTheorems, TLAPS

\* Frames that ask for exactly the range of their request.
GoodFrame == {f \in Frame : MatchesRequest(f)}

\* The state of a call in progress: it passed every check of lines 13-25.
CallerOK ==
    cpc # "idle" =>
        /\ calls \in 1..MaxCalls
        /\ amount <= MaxBlock
        /\ ~Rejected(pos, amount)

IInv ==
    /\ TypeOK
    /\ NoOverrun
    /\ FramesMatchRequests
    /\ SubscriptionScoped
    /\ CallerOK
    /\ cmds \in Seq(GoodFrame)
    /\ sent \subseteq GoodFrame

-----------------------------------------------------------------------------
(* Arithmetic facts about the frame encoding.                             *)

\* Dividing a multiple of s by s.
LEMMA DivMultiple ==
    ASSUME NEW k \in Nat, NEW s \in Nat \ {0}
    PROVE  (k * s) \div s = k
BY SMT

\* An offset aligned to MinBlock is a whole number of sectors.
LEMMA AlignedSector ==
    ASSUME NEW p \in Nat, p % MinBlock = 0
    PROVE  (p \div SectorSize) * SectorSize = p
<1> DEFINE A == p \div MinBlock
           B == MinBlock \div SectorSize
<1>1. A \in Nat /\ B \in Nat
  BY DiskAssumption, SMT
<1>2. p = A * MinBlock
  BY DiskAssumption, SMT
<1>3. MinBlock = B * SectorSize
  BY DiskAssumption, SMT
<1>4. p = (A * B) * SectorSize
  BY <1>1, <1>2, <1>3, DiskAssumption, SMT
<1>5. (A * B) \in Nat
  BY <1>1, SMT
<1>6. ((A * B) * SectorSize) \div SectorSize = A * B
  BY <1>5, DiskAssumption, DivMultiple
<1>. QED
  BY <1>4, <1>6

\* The two length bytes hold any amount up to MaxBlock unchanged.
LEMMA LengthFits ==
    ASSUME NEW a \in 0..MaxBlock
    PROVE  a % 2^LengthBits = a
BY DiskAssumption, SMT

\* A sector number that passed the overflow check is the offset's sector.
LEMMA SectorExact ==
    ASSUME NEW p \in Nat, ~SectorOverflow(p)
    PROVE  SectorOf(p) = p \div SectorSize
BY DEF SectorOverflow

\* The device's answers are messages of the NeoMemorySDRead network.
LEMMA ReplyType ==
    ASSUME NEW f \in GoodFrame,
           NEW fault \in {"none", "drop", "extra", "garbage"}
    PROVE  Reply(f, fault) \in Seq(Msg)
<1>0. f.req \in 1..MaxCalls
  BY DEF GoodFrame, Frame
<1>1. f.len \div ChunkSize + 1 <= MaxChunks
  <2>1. f.len \in 0..MaxBlock
    BY DEF GoodFrame, Frame, MatchesRequest
  <2>. QED
    BY <2>1, DiskAssumption, SMT DEF MaxChunks
<1>2. ASSUME NEW n \in 0..MaxChunks
      PROVE  Chunks(f, n) \in Seq(Msg)
  <2>2. Chunks(f, n) \in [1..n -> Msg]
    BY <1>0, DiskAssumption, SMT DEF Chunks, Msg, MaxChunks
  <2>3. n \in Nat
    BY DiskAssumption, SMT DEF MaxChunks
  <2>. QED
    <3>1. [1..n -> Msg] \subseteq Seq(Msg)
      BY <2>3, SeqDef, Zenon
    <3>. QED
      BY <2>2, <3>1
<1>3. f.len \div ChunkSize \in 0..MaxChunks
  <2>1. f.len \in 0..MaxBlock
    BY DEF GoodFrame, Frame, MatchesRequest
  <2>. QED
    BY <2>1, <1>1, DiskAssumption, SMT DEF MaxChunks
<1>4. <<[kind |-> "other", req |-> f.req, idx |-> 0]>> \in Seq(Msg)
  <2>1. [kind |-> "other", req |-> f.req, idx |-> 0] \in Msg
    BY <1>0, DiskAssumption, SMT DEF Msg, MaxChunks
  <2>. QED
    BY <2>1, EmptySeq, AppendProperties, AppendIsConcat, ConcatEmptySeq
<1>5. f.len \div ChunkSize + 1 \in 0..MaxChunks
  BY <1>1, <1>3, SMT
<1>. QED
  BY <1>2, <1>3, <1>4, <1>5, EmptySeq DEF Reply

-----------------------------------------------------------------------------
(* The inductive invariant.                                               *)

LEMMA InitIInv == Init => IInv
<1> SUFFICES ASSUME Init PROVE IInv
  OBVIOUS
<1>1. /\ into \in Seq(SDChunk) /\ result \in Seq(Nat) /\ Len(result) = 0
      /\ cmds \in Seq(Frame) /\ cmds \in Seq(GoodFrame) /\ wire \in Seq(Msg)
  BY EmptySeq DEF Init, None
<1>2. rmsg \in Msg
  BY DiskAssumption, SMT DEF Init, Msg, MaxChunks
<1>3. /\ copied \in 0..MaxBlock /\ calls \in 0..MaxCalls
      /\ faults \in 0..MaxFaults /\ Len(result) <= 1
  BY <1>1, DiskAssumption, SMT DEF Init
<1>. QED
  BY <1>1, <1>2, <1>3
     DEF Init, IInv, TypeOK, NoOverrun, FramesMatchRequests,
         SubscriptionScoped, CallerOK

LEMMA StartIInv ==
    ASSUME IInv, NEW p \in Positions, NEW a \in Amounts, Start(p, a)
    PROVE  IInv'
<1> USE DiskAssumption
<1>1. CASE Rejected(p, a)
  <2>1. /\ calls' = calls + 1 /\ pos' = p /\ amount' = a /\ result' = <<>>
        /\ UNCHANGED <<cpc, copied, error, into, registry, hitTimeout,
                       snapshot, rmsg, cmds, wire, sent, faults, uaf>>
    BY <1>1 DEF Start, None
  <2>2. calls' \in 0..MaxCalls /\ result' \in Seq(Nat) /\ Len(result') <= 1
    BY <2>1, EmptySeq, SMT DEF Start, IInv, TypeOK
  <2>3. cpc = "idle"
    BY DEF Start
  <2>. QED
    BY <2>1, <2>2, <2>3 DEF IInv, TypeOK, NoOverrun, FramesMatchRequests,
                           SubscriptionScoped, CallerOK
<1>2. CASE ~Rejected(p, a)
  <2>1. a <= MaxBlock /\ a \in Nat /\ p \in Nat
    BY <1>2 DEF Rejected, TooLarge
  <2>2. registry = {} /\ calls \in 0..MaxCalls /\ calls < MaxCalls
    BY DEF Start, IInv, SubscriptionScoped, TypeOK
  <2>3. /\ cpc' = "sending" /\ copied' = 0 /\ error' = FALSE
        /\ into' = <<>> /\ registry' = {calls + 1}
        /\ calls' = calls + 1 /\ pos' = p /\ amount' = a
        /\ UNCHANGED <<hitTimeout, result, snapshot, rmsg, cmds, wire,
                       sent, faults, uaf>>
    BY <1>2, <2>2 DEF Start
  <2>4. calls' \in 1..MaxCalls
    BY <2>2, <2>3, SMT
  <2>5. TypeOK'
    <3>1. into' \in Seq(SDChunk)
      BY <2>3, EmptySeq
    <3>2. /\ copied' \in 0..MaxBlock /\ registry' \subseteq 1..MaxCalls
          /\ calls' \in 0..MaxCalls
      BY <2>3, <2>4, SMT
    <3>. QED
      BY <2>1, <2>3, <2>4, <3>1, <3>2 DEF IInv, TypeOK
  <2>6. CallerOK'
    BY <1>2, <2>1, <2>3, <2>4 DEF CallerOK
  <2>. QED
    BY <2>1, <2>3, <2>5, <2>6
       DEF IInv, NoOverrun, FramesMatchRequests, SubscriptionScoped
<1>. QED
  BY <1>1, <1>2

\* The frame written by Send asks for exactly the current request.
LEMMA SendFrame ==
    ASSUME IInv, cpc = "sending"
    PROVE  [req |-> calls, pos |-> pos, amount |-> amount,
            sector |-> SectorOf(pos), len |-> amount % 2^LengthBits]
           \in GoodFrame
<1> USE DiskAssumption
<1>1. /\ calls \in 1..MaxCalls
      /\ amount \in 0..MaxBlock
      /\ pos \in Nat
      /\ ~Rejected(pos, amount)
  BY DEF IInv, CallerOK, TypeOK
<1>2. amount % 2^LengthBits = amount
  BY <1>1, LengthFits
<1>3. SectorOf(pos) = pos \div SectorSize
  BY <1>1, SectorExact DEF Rejected
<1>4. (pos \div SectorSize) * SectorSize = pos
  BY <1>1, AlignedSector DEF Rejected, MisalignedPos
<1>5. pos \div SectorSize \in Nat
  BY <1>1, SMT
<1>6. [req |-> calls, pos |-> pos, amount |-> amount,
      sector |-> SectorOf(pos), len |-> amount % 2^LengthBits] \in Frame
  BY <1>1, <1>2, <1>3, <1>5 DEF Frame
<1>7. MatchesRequest([req |-> calls, pos |-> pos, amount |-> amount,
      sector |-> SectorOf(pos), len |-> amount % 2^LengthBits])
  BY <1>1, <1>2, <1>3, <1>4
     DEF MatchesRequest, Rejected, MisalignedPos, MisalignedAmount
<1>. QED
  BY <1>6, <1>7 DEF GoodFrame

LEMMA SendIInv ==
    ASSUME IInv, Send
    PROVE  IInv'
<1> DEFINE f == [req |-> calls, pos |-> pos, amount |-> amount,
                 sector |-> SectorOf(pos), len |-> amount % 2^LengthBits]
<1>1. cpc = "sending" /\ cmds' = Append(cmds, f) /\ sent' = sent \cup {f}
  BY DEF Send
<1>2. f \in GoodFrame
  BY <1>1, SendFrame
<1>3. cmds' \in Seq(GoodFrame) /\ cmds' \in Seq(Frame)
  BY <1>1, <1>2, AppendProperties, SeqMonotonic DEF IInv, GoodFrame
<1>. QED
  BY <1>1, <1>2, <1>3
     DEF Send, IInv, TypeOK, NoOverrun, FramesMatchRequests,
         SubscriptionScoped, CallerOK, GoodFrame

LEMMA WakeIInv ==
    ASSUME IInv, Wake \/ Timeout
    PROVE  IInv'
BY DEF Wake, Timeout, IInv, TypeOK, NoOverrun, FramesMatchRequests,
       SubscriptionScoped, CallerOK

LEMMA FinishIInv ==
    ASSUME IInv, Finish
    PROVE  IInv'
<1>1. result' \in Seq(Nat) /\ Len(result') <= 1
  <2>1. amount \in Nat
    BY DEF IInv, TypeOK
  <2>. QED
    BY <2>1, EmptySeq, AppendProperties, AppendIsConcat, ConcatEmptySeq
       DEF Finish, None
<1>. QED
  BY <1>1 DEF Finish, IInv, TypeOK, NoOverrun, FramesMatchRequests,
              SubscriptionScoped, CallerOK

LEMMA ReceiveIInv ==
    ASSUME IInv, Receive
    PROVE  IInv'
<1>1. rmsg' \in Msg /\ wire' \in Seq(Msg)
  BY HeadTailProperties DEF Receive, IInv, TypeOK
<1>. QED
  BY <1>1 DEF Receive, callerVars, IInv, TypeOK, NoOverrun, FramesMatchRequests,
              SubscriptionScoped, CallerOK

LEMMA HandlerIInv ==
    ASSUME IInv, Handler
    PROVE  IInv'
<1> USE DiskAssumption
<1>1. CASE Rejects(rmsg)
  BY <1>1 DEF Handler, IInv, TypeOK, NoOverrun, FramesMatchRequests,
              SubscriptionScoped, CallerOK
<1>2. CASE ~Rejects(rmsg)
  <2>1. rmsg \in SDChunk
    BY <1>2 DEF Rejects, IInv, TypeOK, SDChunk
  <2>2. into' \in Seq(SDChunk)
    <3>1. into' = Append(into, rmsg)
      BY <1>2 DEF Handler
    <3>. QED
      BY <2>1, <3>1, AppendProperties DEF IInv, TypeOK
  <2>3. copied' <= amount /\ copied' \in 0..MaxBlock
    <3>1. cpc # "idle" /\ amount <= MaxBlock /\ amount \in Nat
          /\ copied \in Nat
      BY DEF Handler, IInv, CallerOK, TypeOK
    <3>. QED
      BY <1>2, <3>1, SMT DEF Handler, Rejects
  <2>. QED
    BY <1>2, <2>2, <2>3 DEF Handler, IInv, TypeOK, NoOverrun,
       FramesMatchRequests, SubscriptionScoped, CallerOK
<1>. QED
  BY <1>1, <1>2

LEMMA HandlerAfterReturnIInv ==
    ASSUME IInv, HandlerAfterReturn
    PROVE  IInv'
BY DEF HandlerAfterReturn, callerVars, IInv, TypeOK, NoOverrun, FramesMatchRequests,
       SubscriptionScoped, CallerOK

LEMMA DeviceServeIInv ==
    ASSUME IInv, DeviceServe
    PROVE  IInv'
<1>1. PICK fault \in {"none", "drop", "extra", "garbage"} :
        /\ fault # "none" => faults < MaxFaults
        /\ faults' = IF fault = "none" THEN faults ELSE faults + 1
        /\ wire' = wire \o Reply(Head(cmds), fault)
  BY DEF DeviceServe
<1>2. cmds # <<>> /\ cmds' = Tail(cmds)
  BY DEF DeviceServe
<1>3. Head(cmds) \in GoodFrame /\ cmds' \in Seq(GoodFrame)
  BY <1>2, HeadTailProperties DEF IInv
<1>4. wire' \in Seq(Msg)
  BY <1>1, <1>3, ReplyType, ConcatProperties DEF IInv, TypeOK
<1>5. faults' \in 0..MaxFaults
  BY <1>1, DiskAssumption, SMT DEF IInv, TypeOK
<1>6. cmds' \in Seq(Frame)
  BY <1>3, SeqMonotonic DEF GoodFrame
<1>. QED
  BY <1>3, <1>4, <1>5, <1>6
     DEF DeviceServe, callerVars, IInv, TypeOK, NoOverrun, FramesMatchRequests,
         SubscriptionScoped, CallerOK

LEMMA NextIInv == IInv /\ [Next]_vars => IInv'
<1> SUFFICES ASSUME IInv, [Next]_vars PROVE IInv'
  OBVIOUS
<1>1. CASE \E p \in Positions, a \in Amounts : Start(p, a)
  BY <1>1, StartIInv
<1>2. CASE Send
  BY <1>2, SendIInv
<1>3. CASE Wake \/ Timeout
  BY <1>3, WakeIInv
<1>4. CASE Finish
  BY <1>4, FinishIInv
<1>5. CASE Receive
  BY <1>5, ReceiveIInv
<1>6. CASE Handler
  BY <1>6, HandlerIInv
<1>7. CASE HandlerAfterReturn
  BY <1>7, HandlerAfterReturnIInv
<1>8. CASE DeviceServe
  BY <1>8, DeviceServeIInv
<1>9. CASE UNCHANGED vars
  BY <1>9 DEF vars, IInv, TypeOK, NoOverrun, FramesMatchRequests,
              SubscriptionScoped, CallerOK
<1>. QED
  BY <1>1, <1>2, <1>3, <1>4, <1>5, <1>6, <1>7, <1>8, <1>9 DEF Next

-----------------------------------------------------------------------------
\* The strengthened invariant holds in every reachable state.
THEOREM IInvHolds == Spec => []IInv
BY InitIInv, NextIInv, PTL DEF Spec

(* Type correctness of the model of readLogicalDiskAligned: in particular *)
(* `copied` never exceeds MaxBlock and `into` only ever receives           *)
(* NeoReadMemorySDMessage payloads (the dynamic_pointer_cast of line 35).  *)
THEOREM TypeCorrect == Spec => []TypeOK
BY IInvHolds, PTL DEF IInv

(* The callback never writes past the caller's `amount` bytes (line 43),  *)
(* for every block size, chunk size and number of calls.                  *)
THEOREM NoOverrunHolds == Spec => []NoOverrun
BY IInvHolds, PTL DEF IInv

(* Every frame written (lines 51-59) asks for exactly the caller's range: *)
(* the checks of lines 13-25 rule out every truncation, provided the      *)
(* sector divides the block granularity and MaxBlock fits the two length  *)
(* bytes (DiskAssumption).                                                 *)
THEOREM FramesMatchRequestsHolds == Spec => []FramesMatchRequests
BY IInvHolds, PTL DEF IInv

(* The temporary callback is registered only while its call is in         *)
(* progress (line 62 is reached on every exit path after line 32).        *)
THEOREM SubscriptionScopedHolds == Spec => []SubscriptionScoped
BY IInvHolds, PTL DEF IInv

-----------------------------------------------------------------------------
(* Refinement of the transaction of spec 4.4 (ReadTransaction, through   *)
(* the mapping Txn of DiskRead).  Each caller step is a step of the       *)
(* transaction; the reader thread, the device and the caller's wake-ups   *)
(* leave the transaction's state alone.  IInv supplies what the mapping   *)
(* needs: an idle caller has no callback registered, the registered one   *)
(* is the current call's, and the frame written reads back as the         *)
(* caller's byte range.                                                   *)

LEMMA InitRefines == Init => Txn!TInit
BY DEF Init, Txn!TInit, TxnState, None

LEMMA StartRefines ==
    ASSUME IInv, NEW p \in Positions, NEW a \in Amounts, Start(p, a)
    PROVE  Txn!Refuse(p, a) \/ Txn!Accept(p, a)
<1>1. CASE Rejected(p, a)
  <2>1. Txn!Refuse(p, a)
    BY <1>1 DEF Start, Txn!Refuse, Accepted, TxnState, None
  <2>. QED
    BY <2>1
<1>2. CASE ~Rejected(p, a)
  <2>1. registry = {}
    BY DEF Start, IInv, SubscriptionScoped
  <2>2. Txn!Accept(p, a)
    BY <1>2, <2>1 DEF Start, Txn!Accept, Accepted, TxnState
  <2>. QED
    BY <2>2
<1>. QED
  BY <1>1, <1>2

LEMMA SendRefines ==
    ASSUME IInv, Send
    PROVE  Txn!SendCommand
<1> DEFINE f == [req |-> calls, pos |-> pos, amount |-> amount,
                 sector |-> SectorOf(pos), len |-> amount % 2^LengthBits]
<1>1. cpc = "sending" /\ sent' = sent \cup {f}
      /\ cpc' \in {"woke", "waiting"}
      /\ UNCHANGED <<calls, pos, amount, registry, result>>
  BY DEF Send
<1>2. f \in GoodFrame
  BY <1>1, SendFrame
<1>3. Decoded(f) = [req |-> calls, pos |-> pos, amount |-> amount]
  BY <1>2 DEF GoodFrame, MatchesRequest, Decoded
<1>4. {Decoded(g) : g \in sent'} = {Decoded(g) : g \in sent} \cup {Decoded(f)}
  BY <1>1
<1>. QED
  BY <1>1, <1>3, <1>4 DEF Txn!SendCommand, TxnState

LEMMA FinishRefines ==
    ASSUME IInv, Finish
    PROVE  Txn!Return
<1>1. registry \subseteq {calls}
  BY DEF IInv, SubscriptionScoped
<1>2. registry' = {}
  BY <1>1 DEF Finish
<1>. QED
  BY <1>2 DEF Finish, Txn!Return, TxnState, None

LEMMA StutterRefines ==
    ASSUME Wake \/ Timeout \/ Receive \/ Handler \/ HandlerAfterReturn
             \/ DeviceServe
    PROVE  UNCHANGED Txn!tvars
BY DEF Wake, Timeout, Receive, Handler, HandlerAfterReturn, DeviceServe,
       callerVars, Txn!tvars, TxnState

LEMMA NextRefines == IInv /\ [Next]_vars => [Txn!TNext]_Txn!tvars
<1> SUFFICES ASSUME IInv, [Next]_vars PROVE [Txn!TNext]_Txn!tvars
  OBVIOUS
<1>1. CASE \E p \in Positions, a \in Amounts : Start(p, a)
  BY <1>1, StartRefines DEF Txn!TNext
<1>2. CASE Send
  BY <1>2, SendRefines DEF Txn!TNext
<1>3. CASE Finish
  BY <1>3, FinishRefines DEF Txn!TNext
<1>4. CASE Wake \/ Timeout \/ Receive \/ Handler \/ HandlerAfterReturn
             \/ DeviceServe
  BY <1>4, StutterRefines
<1>5. CASE UNCHANGED vars
  BY <1>5 DEF vars, Txn!tvars, TxnState
<1>. QED
  BY <1>1, <1>2, <1>3, <1>4, <1>5 DEF Next

(* readLogicalDiskAligned implements the transaction of spec 4.4 for      *)
(* every value of the constants: a refused request subscribes and sends   *)
(* nothing, an accepted one subscribes its callback only, sends one frame *)
(* that the device reads as exactly its byte range, and returns with the  *)
(* callback removed on every path, the timeout included (lines 9-67).     *)
THEOREM TxnRefines == Spec => TxnRefinement
BY InitRefines, NextRefines, IInvHolds, PTL DEF Spec, TxnRefinement, Txn!TSpec

=============================================================================
