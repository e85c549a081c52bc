------------------------- MODULE DiskReadSharedProofs -------------------------
(***************************************************************************)
(* Proofs, for any set of callers and every value of the constants that    *)
(* satisfies SharedAssumption, of the invariants MCDiskReadShared checks   *)
(* on two callers: TypeOK (no caller's `copied` passes MaxBlock, though    *)
(* every callback sees the other callers' chunks) and SubscriptionsScoped  *)
(* (each caller's callback is registered exactly while its call is in      *)
(* progress).  Neither is inductive alone: IInv adds CallerOK, what a      *)
(* call in progress knows of itself.                                       *)
(***************************************************************************)
EXTENDS DiskReadShared, WellFoundedInduction, SequenceTheorems, TLAPS

\* A call in progress passed line 13, and its callback has copied no more
\* than its amount (line 36).
CallerOK ==
    \A c \in Callers :
        pc[c] # "idle" =>
            /\ calls[c] \in 1 .. MaxCalls
            /\ amount[c] <= MaxBlock
            /\ copied[c] <= amount[c]

(* The inductive invariant: types, callback registration scoped to each   *)
(* call, and each call in progress within its own bounds.  The callbacks   *)
(* of line 32 all run under the one static filter of line 11, so the       *)
(* bound of line 36 on a caller's `copied` has to be kept by every step of *)
(* every other caller and of the reader thread.                            *)
IInv == TypeOK /\ SubscriptionsScoped /\ CallerOK

-----------------------------------------------------------------------------
(* Dispatch order: a set of callback numbers has a least one.             *)

\* Every non-empty set of naturals has a least element.
LEMMA NatMin ==
    ASSUME NEW T \in SUBSET Nat, T # {}
    PROVE  \E x \in T : \A y \in T : x <= y
<1>1. \E x \in T : \A y \in T : ~(<<y, x>> \in OpToRel(<, Nat))
  BY NatLessThanWellFounded, WFMin
<1>2. PICK x \in T : \A y \in T : ~(<<y, x>> \in OpToRel(<, Nat))
  BY <1>1
<1>3. \A y \in T : ~(y < x)
  <2> TAKE y \in T
  <2>1. <<y, x>> \in Nat \X Nat
    OBVIOUS
  <2>. QED
    BY <1>2, <2>1, Zenon DEF OpToRel
<1>. QED
  BY <1>3, SMT

\* A dispatch in progress has a first callback to run.
LEMMA FirstIn ==
    ASSUME NEW s, DOMAIN s \subseteq Nat, DOMAIN s # {}
    PROVE  First(s) \in DOMAIN s
<1>1. \E x \in DOMAIN s : \A y \in DOMAIN s : x <= y
  BY NatMin
<1>. QED
  BY <1>1 DEF First


-----------------------------------------------------------------------------
(* Facts the action lemmas share.                                         *)

\* Every caller's amount and count of bytes copied are numbers.
LEMMA CallerNat ==
    ASSUME TypeOK
    PROVE  \A d \in Callers : copied[d] \in Nat /\ amount[d] \in Nat
BY SharedAssumption DEF TypeOK

\* A caller that is idle has no callback registered.
LEMMA IdleUnregistered ==
    ASSUME SubscriptionsScoped, NEW c \in Callers, pc[c] = "idle"
    PROVE  \A k \in DOMAIN registry : registry[k][1] # c
BY DEF SubscriptionsScoped

-----------------------------------------------------------------------------
(* The inductive invariant, one lemma per action.                         *)

LEMMA InitIInv == Init => IInv
<1> SUFFICES ASSUME Init PROVE IInv
  OBVIOUS
<1> USE SharedAssumption
<1>1. CallId # {}
  <2>1. PICK c0 \in Callers : TRUE
    OBVIOUS
  <2>2. <<c0, 1>> \in CallId
    BY <2>1 DEF CallId
  <2>. QED
    BY <2>2
<1>2. rmsg \in [owner : CallId]
  BY <1>1 DEF Init
<1>3. DOMAIN registry = {} /\ DOMAIN snapshot = {}
  BY DEF Init, NoCallbacks
<1>4. TypeOK
  BY <1>2, <1>3, EmptySeq DEF Init, TypeOK, NoCallbacks, None
<1>. QED
  BY <1>3, <1>4 DEF Init, IInv, SubscriptionsScoped, CallerOK

LEMMA StartIInv ==
    ASSUME IInv, NEW c \in Callers, NEW a \in Amounts, Start(c, a)
    PROVE  IInv'
<1> USE SharedAssumption
<1>0. /\ pc \in [Callers -> {"idle", "sending", "waiting", "woke"}]
      /\ calls \in [Callers -> 0 .. MaxCalls]
      /\ amount \in [Callers -> Amounts \cup {0}]
      /\ copied \in [Callers -> 0 .. MaxBlock]
      /\ error \in [Callers -> BOOLEAN]
      /\ into \in [Callers -> Seq(CallId)]
  BY DEF IInv, TypeOK
<1>1. /\ pc[c] = "idle" /\ calls[c] \in 0 .. MaxCalls - 1
      /\ calls' = [calls EXCEPT ![c] = @ + 1]
      /\ amount' = [amount EXCEPT ![c] = a]
      /\ UNCHANGED <<hitTimeout, snapshot, rmsg, cmds, wire>>
  BY <1>0 DEF Start
<1>2. /\ calls' \in [Callers -> 0 .. MaxCalls]
      /\ amount' \in [Callers -> Amounts \cup {0}]
      /\ Current(c)' = <<c, calls[c] + 1>>
      /\ <<c, calls[c] + 1>> \in CallId
      /\ \A d \in Callers \ {c} : Current(d)' = Current(d)
  <2>1. calls' \in [Callers -> 0 .. MaxCalls]
    BY <1>0, <1>1
  <2>2. amount' \in [Callers -> Amounts \cup {0}]
    BY <1>0, <1>1
  <2>3. Current(c)' = <<c, calls[c] + 1>>
    BY <1>0, <1>1 DEF Current
  <2>4. <<c, calls[c] + 1>> \in CallId
    BY <1>1 DEF CallId
  <2>5. \A d \in Callers \ {c} : Current(d)' = Current(d)
    BY <1>0, <1>1 DEF Current
  <2>. QED
    BY <2>1, <2>2, <2>3, <2>4, <2>5
<1>3. \A k \in DOMAIN registry : registry[k][1] # c
  BY <1>1, IdleUnregistered DEF IInv
<1>5. CASE Rejected(a)
  <2>1. /\ result' = [result EXCEPT ![c] = None]
        /\ UNCHANGED <<pc, copied, error, into, registry, nextCb>>
    BY <1>5 DEF Start
  <2>2. TypeOK'
    <3>1. result' \in [Callers -> Seq(Nat)]
      BY <2>1, EmptySeq DEF IInv, TypeOK, None
    <3>. QED
      BY <1>1, <1>2, <2>1, <3>1 DEF IInv, TypeOK
  <2>3. SubscriptionsScoped'
    <3> SUFFICES ASSUME NEW d \in Callers
                 PROVE  /\ \A k \in DOMAIN registry :
                              registry[k][1] = d =>
                                  registry[k] = Current(d)' /\ pc[d] # "idle"
                        /\ pc[d] # "idle" =>
                              \E k \in DOMAIN registry : registry[k] = Current(d)'
                        /\ \A j, k \in DOMAIN registry :
                              registry[j] = Current(d)' /\ registry[k] = Current(d)'
                                  => j = k
      BY <2>1 DEF SubscriptionsScoped
    <3>1. CASE d = c
      BY <3>1, <1>1, <1>2, <1>3
    <3>2. CASE d # c
      BY <3>2, <1>2 DEF IInv, SubscriptionsScoped
    <3>. QED
      BY <3>1, <3>2
  <2>4. CallerOK'
    BY <1>1, <2>1 DEF IInv, CallerOK, TypeOK
  <2>. QED
    BY <2>2, <2>3, <2>4 DEF IInv
<1>6. CASE ~Rejected(a)
  <2>1. /\ pc' = [pc EXCEPT ![c] = "sending"]
        /\ copied' = [copied EXCEPT ![c] = 0]
        /\ error' = [error EXCEPT ![c] = FALSE]
        /\ into' = [into EXCEPT ![c] = <<>>]
        /\ registry' = Added(registry, nextCb + 1, <<c, calls[c] + 1>>)
        /\ nextCb' = nextCb + 1
        /\ UNCHANGED result
    BY <1>6 DEF Start
  <2>2. a <= MaxBlock /\ a \in Nat
    BY <1>6 DEF Rejected
  <2>3. nextCb + 1 \notin DOMAIN registry
    BY DEF IInv, TypeOK
  <2>4. /\ registry' \in [DOMAIN registry \cup {nextCb + 1} -> CallId]
        /\ registry'[nextCb + 1] = <<c, calls[c] + 1>>
        /\ \A k \in DOMAIN registry : registry'[k] = registry[k]
    <3>1. registry \in [DOMAIN registry -> CallId]
      BY DEF IInv, TypeOK
    <3>2. /\ Added(registry, nextCb + 1, <<c, calls[c] + 1>>)
               \in [DOMAIN registry \cup {nextCb + 1} -> CallId]
          /\ Added(registry, nextCb + 1, <<c, calls[c] + 1>>)[nextCb + 1]
               = <<c, calls[c] + 1>>
          /\ \A j \in DOMAIN registry \ {nextCb + 1} :
               Added(registry, nextCb + 1, <<c, calls[c] + 1>>)[j] = registry[j]
      BY <1>2, <3>1 DEF Added
    <3>. QED
      BY <2>1, <2>3, <3>2
  <2>5. TypeOK'
    <3>1. /\ DOMAIN registry' = DOMAIN registry \cup {nextCb + 1}
          /\ registry' \in [DOMAIN registry' -> CallId]
      BY <2>4
    <3>7. /\ DOMAIN registry' \subseteq 1 .. nextCb'
          /\ DOMAIN snapshot' \subseteq 1 .. nextCb'
          /\ nextCb' \in Nat
      <4>1. nextCb' = nextCb + 1 /\ snapshot' = snapshot
        BY <1>1, <2>1
      <4>2. DOMAIN registry \subseteq 1 .. nextCb /\ DOMAIN snapshot \subseteq 1 .. nextCb
            /\ nextCb \in Nat
        BY DEF IInv, TypeOK
      <4>. QED
        BY <3>1, <4>1, <4>2
    <3>2. /\ pc' \in [Callers -> {"idle", "sending", "waiting", "woke"}]
          /\ copied' \in [Callers -> 0 .. MaxBlock]
          /\ error' \in [Callers -> BOOLEAN]
      BY <1>0, <2>1
    <3>3. into' \in [Callers -> Seq(CallId)]
      <4>1. <<>> \in Seq(CallId)
        BY EmptySeq
      <4>. QED
        BY <1>0, <2>1, <4>1
    <3>. QED
      BY <1>1, <1>2, <2>1, <3>1, <3>2, <3>3, <3>7 DEF IInv, TypeOK
  <2>6. SubscriptionsScoped'
    <3> SUFFICES ASSUME NEW d \in Callers
                 PROVE  /\ \A k \in DOMAIN registry' :
                              registry'[k][1] = d =>
                                  registry'[k] = Current(d)' /\ pc'[d] # "idle"
                        /\ pc'[d] # "idle" =>
                              \E k \in DOMAIN registry' : registry'[k] = Current(d)'
                        /\ \A j, k \in DOMAIN registry' :
                              registry'[j] = Current(d)' /\ registry'[k] = Current(d)'
                                  => j = k
      BY DEF SubscriptionsScoped
    <3>1. DOMAIN registry' = DOMAIN registry \cup {nextCb + 1}
      BY <2>4
    <3>2. CASE d = c
      <4>1. \A k \in DOMAIN registry' : registry'[k][1] = c => k = nextCb + 1
        BY <1>3, <2>4, <3>1
      <4>2. pc'[c] = "sending"
        BY <2>1 DEF IInv, TypeOK
      <4>. QED
        BY <3>2, <4>1, <4>2, <1>2, <2>4, <3>1
    <3>3. CASE d # c
      <4>1. registry'[nextCb + 1][1] # d
        BY <3>3, <2>4
      <4>2. pc'[d] = pc[d] /\ Current(d)' = Current(d) /\ Current(d)[1] = d
        BY <3>3, <2>1, <1>2 DEF IInv, TypeOK, Current
      <4>. QED
        BY <4>1, <4>2, <2>4, <3>1 DEF IInv, SubscriptionsScoped
    <3>. QED
      BY <3>2, <3>3
  <2>7. CallerOK'
    <3> SUFFICES ASSUME NEW d \in Callers, pc'[d] # "idle"
                 PROVE  /\ calls'[d] \in 1 .. MaxCalls
                        /\ amount'[d] <= MaxBlock
                        /\ copied'[d] <= amount'[d]
      BY DEF CallerOK
    <3>1. CASE d = c
      BY <3>1, <1>0, <1>1, <2>1, <2>2
    <3>2. CASE d # c
      BY <3>2, <1>1, <2>1 DEF IInv, TypeOK, CallerOK
    <3>. QED
      BY <3>1, <3>2
  <2>. QED
    BY <2>5, <2>6, <2>7 DEF IInv
<1>. QED
  BY <1>5, <1>6


\* A step of a caller that neither starts nor ends a call, and leaves the
\* registry and the call's locals alone, keeps both invariants.
LEMMA InCallStep ==
    ASSUME IInv,
           UNCHANGED <<registry, calls, amount, copied>>,
           pc' \in [Callers -> {"idle", "sending", "waiting", "woke"}],
           \A d \in Callers : (pc'[d] = "idle") = (pc[d] = "idle")
    PROVE  SubscriptionsScoped' /\ CallerOK'
<1>1. \A d \in Callers : Current(d)' = Current(d)
  BY DEF Current
<1>2. SubscriptionsScoped'
  BY <1>1 DEF IInv, SubscriptionsScoped
<1>3. CallerOK'
  BY DEF IInv, CallerOK
<1>. QED
  BY <1>2, <1>3

LEMMA SendIInv ==
    ASSUME IInv, NEW c \in Callers, Send(c)
    PROVE  IInv'
<1> USE SharedAssumption
<1>1. pc[c] = "sending" /\ calls[c] \in 1 .. MaxCalls /\ amount[c] \in Nat
  BY DEF Send, IInv, CallerOK, TypeOK
<1>2. [owner |-> Current(c), len |-> amount[c]] \in [owner : CallId, len : Nat]
  BY <1>1 DEF Current, CallId
<1>3. cmds' \in Seq([owner : CallId, len : Nat])
  BY <1>2, AppendProperties DEF Send, IInv, TypeOK
<1>4. /\ pc' \in [Callers -> {"idle", "sending", "waiting", "woke"}]
      /\ \A d \in Callers : (pc'[d] = "idle") = (pc[d] = "idle")
      /\ hitTimeout' \in [Callers -> BOOLEAN]
  BY <1>1 DEF Send, IInv, TypeOK
<1>5. TypeOK'
  BY <1>3, <1>4 DEF Send, IInv, TypeOK
<1>. QED
  BY <1>4, <1>5, InCallStep DEF Send, IInv

LEMMA WakeIInv ==
    ASSUME IInv, NEW c \in Callers, Wake(c)
    PROVE  IInv'
<1>1. /\ pc' \in [Callers -> {"idle", "sending", "waiting", "woke"}]
      /\ \A d \in Callers : (pc'[d] = "idle") = (pc[d] = "idle")
      /\ hitTimeout' \in [Callers -> BOOLEAN]
  BY DEF Wake, IInv, TypeOK
<1>2. TypeOK'
  BY <1>1 DEF Wake, IInv, TypeOK
<1>. QED
  BY <1>1, <1>2, InCallStep DEF Wake, IInv

LEMMA TimeoutIInv ==
    ASSUME IInv, NEW c \in Callers, Timeout(c)
    PROVE  IInv'
<1>1. /\ pc' \in [Callers -> {"idle", "sending", "waiting", "woke"}]
      /\ \A d \in Callers : (pc'[d] = "idle") = (pc[d] = "idle")
      /\ hitTimeout' \in [Callers -> BOOLEAN]
  BY DEF Timeout, IInv, TypeOK
<1>2. TypeOK'
  BY <1>1 DEF Timeout, IInv, TypeOK
<1>. QED
  BY <1>1, <1>2, InCallStep DEF Timeout, IInv

LEMMA FinishIInv ==
    ASSUME IInv, NEW c \in Callers, Finish(c)
    PROVE  IInv'
<1> USE SharedAssumption
<1>1. /\ pc[c] = "woke"
      /\ registry' = Without(registry, Current(c))
      /\ pc' = [pc EXCEPT ![c] = "idle"]
      /\ result' = [result EXCEPT ![c] = IF hitTimeout[c] THEN None
                                                          ELSE <<amount[c]>>]
      /\ UNCHANGED <<calls, amount, copied, error, into, hitTimeout,
                     nextCb, snapshot, rmsg, cmds, wire>>
  BY DEF Finish
<1>2. /\ DOMAIN registry' = {k \in DOMAIN registry : registry[k] # Current(c)}
      /\ \A k \in DOMAIN registry' : registry'[k] = registry[k]
  BY <1>1 DEF Without
<1>3. \A d \in Callers : Current(d)' = Current(d)
  BY <1>1 DEF Current
<1>4. TypeOK'
  <2>1. result' \in [Callers -> Seq(Nat)]
    <3>1. None \in Seq(Nat) /\ <<amount[c]>> \in Seq(Nat)
      BY EmptySeq DEF None, IInv, TypeOK
    <3>. QED
      BY <1>1, <3>1 DEF IInv, TypeOK
  <2>2. /\ registry' \in [DOMAIN registry' -> CallId]
        /\ DOMAIN registry' \subseteq 1 .. nextCb'
    BY <1>1 DEF Without, IInv, TypeOK
  <2>3. pc' \in [Callers -> {"idle", "sending", "waiting", "woke"}]
    BY <1>1 DEF IInv, TypeOK
  <2>. QED
    BY <1>1, <2>1, <2>2, <2>3 DEF IInv, TypeOK
<1>5. SubscriptionsScoped'
  <2> SUFFICES ASSUME NEW d \in Callers
               PROVE  /\ \A k \in DOMAIN registry' :
                            registry'[k][1] = d =>
                                registry'[k] = Current(d) /\ pc'[d] # "idle"
                      /\ pc'[d] # "idle" =>
                            \E k \in DOMAIN registry' : registry'[k] = Current(d)
                      /\ \A j, k \in DOMAIN registry' :
                            registry'[j] = Current(d) /\ registry'[k] = Current(d)
                                => j = k
    BY <1>3 DEF SubscriptionsScoped
  <2>1. CASE d = c
    <3>1. \A k \in DOMAIN registry' : registry'[k][1] # c
      BY <1>2 DEF IInv, SubscriptionsScoped
    <3>2. pc'[c] = "idle"
      BY <1>1 DEF IInv, TypeOK
    <3>3. Current(c)[1] = c
      BY DEF Current
    <3>. QED
      BY <2>1, <3>1, <3>2, <3>3
  <2>2. CASE d # c
    <3>1. Current(d) # Current(c) /\ pc'[d] = pc[d]
      BY <2>2, <1>1 DEF Current, IInv, TypeOK
    <3>. QED
      BY <1>2, <3>1 DEF IInv, SubscriptionsScoped
  <2>. QED
    BY <2>1, <2>2
<1>6. CallerOK'
  BY <1>1 DEF IInv, TypeOK, CallerOK
<1>. QED
  BY <1>4, <1>5, <1>6 DEF IInv


\* Reader and device steps leave the callers' state alone.
LEMMA ReaderStep ==
    ASSUME IInv, UNCHANGED <<pc, registry, calls, amount, copied>>
    PROVE  SubscriptionsScoped' /\ CallerOK'
<1>1. \A d \in Callers : Current(d)' = Current(d)
  BY DEF Current
<1>. QED
  BY <1>1 DEF IInv, SubscriptionsScoped, CallerOK

LEMMA ReceiveIInv ==
    ASSUME IInv, Receive
    PROVE  IInv'
<1>1. /\ rmsg' \in [owner : CallId]
      /\ wire' \in Seq([owner : CallId])
  BY HeadTailProperties DEF Receive, IInv, TypeOK
<1>2. TypeOK'
  BY <1>1 DEF Receive, IInv, TypeOK
<1>. QED
  BY <1>2, ReaderStep DEF Receive, IInv

\* A dispatch step keeps the rest of the snapshot, numbered as before.
LEMMA RestType ==
    ASSUME TypeOK, DOMAIN snapshot # {}
    PROVE  /\ DOMAIN Rest(snapshot) \subseteq 1 .. nextCb
           /\ Rest(snapshot) \in [DOMAIN Rest(snapshot) -> CallId]
BY DEF Rest, TypeOK

LEMMA HandlerIInv ==
    ASSUME IInv, Handler
    PROVE  IInv'
<1> USE SharedAssumption
<1> DEFINE k0 == First(snapshot)
<1>1. k0 \in DOMAIN snapshot
  <2>1. DOMAIN snapshot \subseteq Nat /\ DOMAIN snapshot # {}
    BY DEF Handler, IInv, TypeOK
  <2>. QED
    BY <2>1, FirstIn
<1>2. PICK c \in Callers : c = snapshot[k0][1] /\ snapshot[k0] = Current(c)
  <2>1. snapshot[k0] \in CallId
    BY <1>1 DEF IInv, TypeOK
  <2>2. Live(snapshot[k0])
    BY DEF Handler
  <2>. QED
    BY <2>1, <2>2 DEF CallId, Live
<1>3. /\ pc[c] = "waiting"
      /\ IF Rejects(c)
           THEN /\ error' = [error EXCEPT ![c] = TRUE]
                /\ UNCHANGED <<copied, into>>
           ELSE /\ into' = [into EXCEPT ![c] = Append(@, rmsg.owner)]
                /\ copied' = [copied EXCEPT ![c] = @ + ChunkSize]
                /\ UNCHANGED error
      /\ snapshot' = Rest(snapshot)
      /\ UNCHANGED <<pc, calls, amount, hitTimeout, result, registry,
                     nextCb, rmsg, cmds, wire>>
  BY <1>2 DEF Handler
<1> HIDE DEF k0
<1>4. /\ copied[c] \in Nat /\ amount[c] \in Nat
      /\ amount[c] <= MaxBlock /\ copied[c] <= amount[c]
  <2>1. pc[c] # "idle"
    BY <1>3
  <2>2. amount[c] <= MaxBlock /\ copied[c] <= amount[c]
    BY <1>2, <2>1 DEF IInv, CallerOK
  <2>3. \A d \in Callers : copied[d] \in Nat /\ amount[d] \in Nat
    BY CallerNat DEF IInv
  <2>4. amount[c] \in Nat
    BY <1>2, <2>3
  <2>5. copied[c] \in Nat
    BY <1>2, <2>3
  <2>. QED
    BY <2>2, <2>4, <2>5
<1>5. /\ copied' \in [Callers -> 0 .. MaxBlock]
      /\ copied'[c] <= amount[c]
      /\ \A d \in Callers \ {c} : copied'[d] = copied[d]
      /\ error' \in [Callers -> BOOLEAN]
      /\ into' \in [Callers -> Seq(CallId)]
  <2>1. CASE Rejects(c)
    BY <1>2, <1>3, <1>4, <2>1 DEF IInv, TypeOK
  <2>2. CASE ~Rejects(c)
    <3>1. copied[c] + ChunkSize <= amount[c]
      BY <1>4, <2>2 DEF Rejects
    <3>2. Append(into[c], rmsg.owner) \in Seq(CallId)
      BY <1>2, AppendProperties DEF IInv, TypeOK
    <3>3. /\ copied' = [copied EXCEPT ![c] = @ + ChunkSize]
          /\ into' = [into EXCEPT ![c] = Append(@, rmsg.owner)]
          /\ error' = error
      BY <1>3, <2>2
    <3>4. /\ copied' \in [Callers -> 0 .. MaxBlock]
          /\ copied'[c] <= amount[c]
          /\ \A d \in Callers \ {c} : copied'[d] = copied[d]
      <4>1. copied'[c] = copied[c] + ChunkSize
        BY <1>2, <3>3 DEF IInv, TypeOK
      <4>2. copied'[c] \in 0 .. MaxBlock /\ copied'[c] <= amount[c]
        BY <1>4, <3>1, <4>1
      <4>3. \A d \in Callers \ {c} : copied'[d] = copied[d]
        BY <3>3
      <4>4. copied' \in [Callers -> Nat]
        BY <3>3, <1>2, <4>2 DEF IInv, TypeOK
      <4>. QED
        BY <4>2, <4>3, <4>4, <1>2 DEF IInv, TypeOK
    <3>5. into' \in [Callers -> Seq(CallId)]
      BY <1>2, <3>2, <3>3 DEF IInv, TypeOK
    <3>. QED
      BY <3>3, <3>4, <3>5 DEF IInv, TypeOK
  <2>. QED
    BY <2>1, <2>2
<1>6. TypeOK'
  <2>1. /\ DOMAIN snapshot' \subseteq 1 .. nextCb'
        /\ snapshot' \in [DOMAIN snapshot' -> CallId]
    BY <1>1, <1>3, RestType DEF IInv
  <2>. QED
    BY <1>3, <1>5, <2>1 DEF IInv, TypeOK
<1>7. SubscriptionsScoped'
  <2>1. \A d \in Callers : Current(d)' = Current(d)
    BY <1>3 DEF Current
  <2>. QED
    BY <1>3, <2>1 DEF IInv, SubscriptionsScoped
<1>8. CallerOK'
  BY <1>2, <1>3, <1>5 DEF IInv, CallerOK
<1>. QED
  BY <1>6, <1>7, <1>8 DEF IInv

LEMMA HandlerAfterReturnIInv ==
    ASSUME IInv, HandlerAfterReturn
    PROVE  IInv'
<1>1. /\ DOMAIN snapshot' \subseteq 1 .. nextCb'
      /\ snapshot' \in [DOMAIN snapshot' -> CallId]
  BY RestType DEF HandlerAfterReturn, IInv
<1>2. TypeOK'
  BY <1>1 DEF HandlerAfterReturn, IInv, TypeOK
<1>. QED
  BY <1>2, ReaderStep DEF HandlerAfterReturn, IInv

LEMMA DeviceServeIInv ==
    ASSUME IInv, DeviceServe
    PROVE  IInv'
<1> USE SharedAssumption
<1>1. /\ Head(cmds) \in [owner : CallId, len : Nat]
      /\ Tail(cmds) \in Seq([owner : CallId, len : Nat])
  BY HeadTailProperties DEF DeviceServe, IInv, TypeOK
<1> DEFINE n == Head(cmds).len \div ChunkSize
           chunks == [i \in 1 .. n |-> [owner |-> Head(cmds).owner]]
<1>2. n \in Nat
  BY <1>1
<1>3. chunks \in Seq([owner : CallId])
  <2>1. chunks \in [1 .. n -> [owner : CallId]]
    BY <1>1
  <2>2. chunks \in UNION {[1 .. m -> [owner : CallId]] : m \in Nat}
    BY <1>2, <2>1
  <2>. QED
    BY <2>2, SeqDef
<1>4. wire' \in Seq([owner : CallId])
  BY <1>3, ConcatProperties DEF DeviceServe, IInv, TypeOK
<1>5. TypeOK'
  BY <1>1, <1>4 DEF DeviceServe, IInv, TypeOK
<1>. QED
  BY <1>5, ReaderStep DEF DeviceServe, IInv


-----------------------------------------------------------------------------
LEMMA NextIInv == IInv /\ [Next]_vars => IInv'
<1> SUFFICES ASSUME IInv, [Next]_vars PROVE IInv'
  OBVIOUS
<1>1. ASSUME NEW c \in Callers, NEW a \in Amounts, Start(c, a) PROVE IInv'
  BY <1>1, StartIInv
<1>2. ASSUME NEW c \in Callers, Send(c) PROVE IInv'
  BY <1>2, SendIInv
<1>3. ASSUME NEW c \in Callers, Wake(c) PROVE IInv'
  BY <1>3, WakeIInv
<1>4. ASSUME NEW c \in Callers, Timeout(c) PROVE IInv'
  BY <1>4, TimeoutIInv
<1>5. ASSUME NEW c \in Callers, Finish(c) PROVE IInv'
  BY <1>5, FinishIInv
<1>6. CASE Receive
  BY <1>6, ReceiveIInv
<1>7. CASE Handler
  BY <1>7, HandlerIInv
<1>8. CASE HandlerAfterReturn
  BY <1>8, HandlerAfterReturnIInv
<1>9. CASE DeviceServe
  BY <1>9, DeviceServeIInv
<1>10. CASE UNCHANGED vars
  BY <1>10 DEF vars, IInv, TypeOK, SubscriptionsScoped, CallerOK, Current
<1>. QED
  BY <1>1, <1>2, <1>3, <1>4, <1>5, <1>6, <1>7, <1>8, <1>9, <1>10 DEF Next

\* The inductive invariant holds in every reachable state.
THEOREM SharedIInvHolds == Spec => []IInv
BY InitIInv, NextIInv, PTL DEF Spec

(* Type correctness of concurrent readLogicalDiskAligned calls: in         *)
(* particular no caller's `copied` ever passes MaxBlock, although every    *)
(* callback registered under the static filter of line 11 is handed the    *)
(* chunks of all the callers; the bound test of line 36 is what stops it.  *)
THEOREM SharedTypeCorrect == Spec => []TypeOK
BY SharedIInvHolds, PTL DEF IInv

(* Each caller's callback is registered exactly while its call is in       *)
(* progress, and once: addMessageCallback (lines 32-49) hands out a new  *)
(* number, and removeMessageCallback at return (line 62) erases that       *)
(* caller's callback and no other caller's, whatever the interleaving.    *)
THEOREM SubscriptionsScopedHolds == Spec => []SubscriptionsScoped
BY SharedIInvHolds, PTL DEF IInv

=============================================================================
