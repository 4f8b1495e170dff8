---------------------------- MODULE AtomicProofs ----------------------------
(***************************************************************************)
(* Proofs about Atomic, for every set of rows and every nesting bound, when *)
(* a block only uses its own context (OwnContexts): the two other settings *)
(* are the subject of findings.                                            *)
(*                                                                         *)
(* The argument: the savepoint names of the running blocks increase along  *)
(* the stack of savepoints, whatever failed blocks left between them; so   *)
(* the newest savepoint of a name is the running block's own, and its      *)
(* snapshot is what the block found.                                       *)
(*                                                                         *)
(* Atomic then implements NestedTx: a block that opens is Enter; RELEASE   *)
(* and COMMIT are Succeed; ROLLBACK TO and ROLLBACK are Fail; losing the   *)
(* transaction or the context it was begun with is Doom; everything else   *)
(* stutters.                                                               *)
(***************************************************************************)
EXTENDS Atomic, SequenceTheorems, TLAPS

-----------------------------------------------------------------------------
(* Sequences                                                               *)

\* A sequence cut after its k-th element.
LEMMA Cut ==
    ASSUME NEW S, NEW s \in Seq(S), NEW k \in 0 .. Len(s)
    PROVE  /\ SubSeq(s, 1, k) \in Seq(S)
           /\ Len(SubSeq(s, 1, k)) = k
           /\ \A i \in 1 .. k : SubSeq(s, 1, k)[i] = s[i]
<1>1. \A i \in 1 .. k : s[i] \in S
  BY ElementOfSeq, LenProperties
<1>2. k \in Int /\ Len(s) \in Nat
  BY LenProperties
<1> QED
  BY <1>1, <1>2, SubSeqProperties

-----------------------------------------------------------------------------
(* The stack of running calls: what the three ways of changing it preserve *)

\* A call is running.
LEMMA RunningCall ==
    ASSUME TypeOK, frames # <<>> \/ Len(frames) >= 1
    PROVE  /\ frames # <<>>
           /\ Len(frames) \in Nat /\ Len(frames) >= 1
           /\ Top \in Frame
<1>1. Len(<<>>) = 0
  OBVIOUS
<1>2. frames # <<>>
  BY <1>1
<1>3. Len(frames) \in Nat \ {0}
  BY <1>2, EmptySeq DEF TypeOK
<1>4. Len(frames) \in 1 .. Len(frames)
  BY <1>3
<1>5. Top \in Frame
  BY <1>4, ElementOfSeq DEF TypeOK, Top
<1> QED
  BY <1>2, <1>3, <1>5

\* The call on top returns.
LEMMA PopFrame ==
    ASSUME TypeOK, FramesNested, frames # <<>>, frames' = Pop
    PROVE  /\ frames' \in Seq(Frame)
           /\ Len(frames') = Len(frames) - 1
           /\ \A i \in 1 .. Len(frames) - 1 : frames'[i] = frames[i]
           /\ FramesNested'
<1>1. frames \in Seq(Frame) /\ Len(frames) \in Nat \ {0}
  BY EmptySeq DEF TypeOK
<1>2. /\ frames' \in Seq(Frame)
      /\ Len(frames') = Len(frames) - 1
      /\ \A i \in 1 .. Len(frames) - 1 : frames'[i] = frames[i]
  <2>1. Len(frames) - 1 \in 0 .. Len(frames)
    BY <1>1
  <2> QED
    BY <1>1, <2>1, Cut DEF Pop
<1>3. FramesNested'
  BY <1>1, <1>2 DEF FramesNested
<1> QED
  BY <1>2, <1>3

\* The call on top changes what it does next or what its function returned.
LEMMA ReplaceTop ==
    ASSUME TypeOK, FramesNested, frames # <<>>,
           NEW f \in Frame, frames' = WithTop(f),
           f.depth = Top.depth, f.cancelled = Top.cancelled, f.entry = Top.entry
    PROVE  /\ frames' \in Seq(Frame)
           /\ Len(frames') = Len(frames)
           /\ \A i \in 1 .. Len(frames) : /\ frames'[i].depth = frames[i].depth
                                          /\ frames'[i].entry = frames[i].entry
                                          /\ frames'[i].cancelled = frames[i].cancelled
           /\ FramesNested'
<1>1. Len(frames) \in Nat \ {0}
  BY EmptySeq DEF TypeOK
<1>2. /\ frames' \in Seq(Frame)
      /\ Len(frames') = Len(frames)
      /\ \A i \in 1 .. Len(frames) :
            frames'[i] = IF i = Len(frames) THEN f ELSE frames[i]
  BY <1>1, ExceptSeq DEF TypeOK, WithTop
<1>3. FramesNested'
  BY <1>1, <1>2 DEF FramesNested, Top
<1> QED
  BY <1>1, <1>2, <1>3 DEF Top

\* A call opens a block.
LEMMA PushFrame ==
    ASSUME TypeOK, FramesNested, InBody,
           frames' = Append(frames, NewFrame(Len(frames))),
           frames # <<>> => ~frames[1].cancelled
    PROVE  /\ frames' \in Seq(Frame)
           /\ Len(frames') = Len(frames) + 1
           /\ \A i \in 1 .. Len(frames) : frames'[i] = frames[i]
           /\ frames'[Len(frames) + 1] = NewFrame(Len(frames))
           /\ FramesNested'
<1>1. Len(frames) \in Nat
  BY LenProperties DEF TypeOK
<1>2. NewFrame(Len(frames)) \in Frame
  BY <1>1 DEF TypeOK, NewFrame, Frame
<1>3. /\ frames' \in Seq(Frame)
      /\ Len(frames') = Len(frames) + 1
      /\ \A i \in 1 .. Len(frames) : frames'[i] = frames[i]
      /\ frames'[Len(frames) + 1] = NewFrame(Len(frames))
  BY <1>1, <1>2, AppendProperties DEF TypeOK
<1>4. \A i \in 1 .. Len(frames) : frames[i] \in Frame
  BY ElementOfSeq DEF TypeOK
<1>5. \A i \in 1 .. Len(frames') :
          /\ frames'[i].depth = i - 1
          /\ frames'[i].cancelled = frames'[1].cancelled
  <2>1. CASE frames = <<>>
    BY <2>1, <1>1, <1>3 DEF NewFrame
  <2>2. CASE frames # <<>>
    <3>1. Len(frames) >= 1
      BY <2>2, <1>1, EmptySeq DEF TypeOK
    <3>2. frames[1].cancelled = FALSE
      BY <2>2, <3>1, <1>1, <1>4 DEF Frame
    <3>3. \A i \in 1 .. Len(frames) :
             frames[i].depth = i - 1 /\ frames[i].cancelled = frames[1].cancelled
      BY DEF FramesNested
    <3>4. frames'[Len(frames) + 1].depth = Len(frames)
          /\ frames'[Len(frames) + 1].cancelled = FALSE
      BY <1>3 DEF NewFrame
    <3>5. frames'[1] = frames[1]
      BY <3>1, <1>1, <1>3
    <3>6. ASSUME NEW i \in 1 .. Len(frames')
          PROVE  frames'[i].depth = i - 1 /\ frames'[i].cancelled = frames'[1].cancelled
      <4>1. CASE i = Len(frames) + 1
        <5>1. frames'[i].depth = i - 1
          BY <4>1, <3>4, <1>1
        <5>2. frames'[i].cancelled = frames'[1].cancelled
          BY <4>1, <3>2, <3>4, <3>5, Zenon
        <5> QED
          BY <5>1, <5>2
      <4>2. CASE i # Len(frames) + 1
        <5>1. i \in 1 .. Len(frames) /\ frames'[i] = frames[i]
          BY <4>2, <1>1, <1>3
        <5> QED
          BY <5>1, <3>3, <3>5
      <4> QED
        BY <4>1, <4>2
    <3> QED
      BY <3>6
  <2> QED
    BY <2>1, <2>2
<1>6. \A i \in 1 .. Len(frames') - 1 : frames'[i].pc = "body"
  <2>1. CASE frames = <<>>
    BY <2>1, <1>1, <1>3
  <2>2. CASE frames # <<>>
    BY <2>2, <1>1, <1>3 DEF FramesNested, InBody, Top
  <2> QED
    BY <2>1, <2>2
<1> QED
  BY <1>3, <1>5, <1>6 DEF FramesNested

-----------------------------------------------------------------------------
(* The stack of savepoints                                                 *)

\* The savepoint a name stands for is the last one that bears it.
LEMMA NewestIs ==
    ASSUME TypeOK, NEW k \in 1 .. Len(sps),
           \A m \in k + 1 .. Len(sps) : sps[m].name > sps[k].name
    PROVE  Named(sps[k].name) # {} /\ Newest(sps[k].name) = k
<1> DEFINE n == sps[k].name
<1>1. Len(sps) \in Nat
  BY LenProperties DEF TypeOK
<1>2. \A j \in 1 .. Len(sps) : sps[j] \in Savepoint
  BY ElementOfSeq DEF TypeOK
<1>3. k \in Named(n)
  BY DEF Named
<1>4. \A j \in Named(n) : j <= k
  BY <1>1, <1>2 DEF Named, Savepoint
<1>5. \A c \in Named(n) : (\A j \in Named(n) : j <= c) => c = k
  BY <1>1, <1>3, <1>4 DEF Named
<1> QED
  BY <1>3, <1>4, <1>5 DEF Newest

\* The running block's own savepoint is the one its name stands for, and the
\* blocks around it find theirs below.
LEMMA OwnSavepoint ==
    ASSUME IInv, tx = "open", Len(frames) > 1
    PROVE  /\ Named(Top.depth) # {}
           /\ Newest(Top.depth) \in 1 .. Len(sps)
           /\ sps[Newest(Top.depth)] = [name |-> Top.depth, snap |-> Top.entry]
           /\ \A i \in 2 .. Len(frames) - 1 :
                \E k \in 1 .. Newest(Top.depth) - 1 :
                   /\ sps[k] = [name |-> frames[i].depth, snap |-> frames[i].entry]
                   /\ \A m \in k + 1 .. Len(sps) : sps[m].name > frames[i].depth
<1>1. Len(frames) \in Nat /\ Len(sps) \in Nat
  BY LenProperties DEF IInv, TypeOK
<1>2. PICK k \in 1 .. Len(sps) :
          /\ sps[k] = [name |-> Top.depth, snap |-> Top.entry]
          /\ \A m \in k + 1 .. Len(sps) : sps[m].name > Top.depth
  BY <1>1 DEF IInv, SavepointsMatch, Top
<1>3. Named(Top.depth) # {} /\ Newest(Top.depth) = k
  BY <1>2, NewestIs DEF IInv
<1>4. ASSUME NEW i \in 2 .. Len(frames) - 1
      PROVE  \E j \in 1 .. k - 1 :
                /\ sps[j] = [name |-> frames[i].depth, snap |-> frames[i].entry]
                /\ \A m \in j + 1 .. Len(sps) : sps[m].name > frames[i].depth
  <2>1. frames[i].depth = i - 1 /\ Top.depth = Len(frames) - 1
    BY <1>1 DEF IInv, FramesNested, Top
  <2>2. PICK j \in 1 .. Len(sps) :
            /\ sps[j] = [name |-> frames[i].depth, snap |-> frames[i].entry]
            /\ \A m \in j + 1 .. Len(sps) : sps[m].name > frames[i].depth
    BY <1>1 DEF IInv, SavepointsMatch
  <2>3. j < k
    BY <1>1, <1>2, <2>1, <2>2
  <2> QED
    BY <1>1, <2>2, <2>3
<1> QED
  BY <1>2, <1>3, <1>4

-----------------------------------------------------------------------------
(* The invariant is inductive                                              *)

\* The invariant holds before any call.
LEMMA IInvInit == Init => IInv
<1> SUFFICES ASSUME Init PROVE IInv
  OBVIOUS
<1>1. TypeOK
  BY EmptySeq DEF Init, TypeOK
<1>2. FramesNested /\ SavepointsMatch
  BY EmptySeq DEF Init, FramesNested, SavepointsMatch
<1> QED
  BY <1>1, <1>2 DEF IInv, ConnectionMatches, Init

\* Savepoints stay matched while the stack of savepoints is left alone and the
\* calls that go on keep their depth and what they found.
LEMMA MatchKept ==
    ASSUME IInv, sps' = sps, tx' = "open" => tx = "open",
           Len(frames') \in Nat, Len(frames') <= Len(frames),
           \A i \in 1 .. Len(frames') : /\ frames'[i].depth = frames[i].depth
                                        /\ frames'[i].entry = frames[i].entry
    PROVE  SavepointsMatch'
<1>1. Len(frames) \in Nat
  BY LenProperties DEF IInv, TypeOK
<1> SUFFICES ASSUME tx' = "open", NEW i \in 2 .. Len(frames')
             PROVE  \E k \in 1 .. Len(sps) :
                       /\ sps[k] = [name |-> frames'[i].depth, snap |-> frames'[i].entry]
                       /\ \A m \in k + 1 .. Len(sps) : sps[m].name > frames'[i].depth
  BY DEF SavepointsMatch
<1>2. i \in 2 .. Len(frames) /\ i \in 1 .. Len(frames')
  BY <1>1
<1> QED
  BY <1>2 DEF IInv, SavepointsMatch

\* The steps of Atomic itself and of the user's code, one lemma for those that
\* leave the stack of calls or the connection alone, one for each other.

\* A statement changes rows only: the frames and their savepoints stay.
LEMMA StepStatement ==
    ASSUME IInv, NEW rows \in SUBSET Row, Statement(rows)
    PROVE  IInv'
<1>1. TypeOK'
  BY DEF IInv, TypeOK, Statement
<1>2. FramesNested' /\ ConnectionMatches' /\ SavepointsMatch'
  BY ZenonT(60) DEF IInv, FramesNested, ConnectionMatches, SavepointsMatch, Statement,
         Usable, Sendable
<1> QED
  BY <1>1, <1>2 DEF IInv

\* A rejected statement marks the transaction, on PostgreSQL.
LEMMA StepStatementFails ==
    ASSUME IInv, StatementFails
    PROVE  IInv'
<1>1. TypeOK'
  BY DEF IInv, TypeOK, StatementFails
<1>2. FramesNested' /\ ConnectionMatches' /\ SavepointsMatch'
  BY DEF IInv, FramesNested, ConnectionMatches, SavepointsMatch,
         StatementFails, Usable, Sendable
<1> QED
  BY <1>1, <1>2 DEF IInv

\* A refused BEGIN or SAVEPOINT changes nothing but the answer.
LEMMA StepRefused ==
    ASSUME IInv, AtomicRefused
    PROVE  IInv'
<1>1. TypeOK'
  BY DEF IInv, TypeOK, AtomicRefused, conn
<1>2. FramesNested' /\ ConnectionMatches' /\ SavepointsMatch'
  BY DEF IInv, FramesNested, ConnectionMatches, SavepointsMatch,
         AtomicRefused, conn
<1> QED
  BY <1>1, <1>2 DEF IInv

\* A lost transaction takes all savepoints with it.
LEMMA StepTxLost ==
    ASSUME IInv, TxLost
    PROVE  IInv'
<1>1. TypeOK'
  BY EmptySeq DEF IInv, TypeOK, TxLost, EndTx
<1>2. FramesNested' /\ ConnectionMatches' /\ SavepointsMatch'
  BY DEF IInv, FramesNested, ConnectionMatches, SavepointsMatch, TxLost, EndTx
<1> QED
  BY <1>1, <1>2 DEF IInv

\* The connection is left alone and the call on top changes its state.
LEMMA StepTop ==
    ASSUME IInv, frames # <<>>, NEW f \in Frame, frames' = WithTop(f),
           f.depth = Top.depth, f.cancelled = Top.cancelled, f.entry = Top.entry,
           UNCHANGED <<db, ret, tx, work, sps>>, aborted' \in BOOLEAN,
           tx # "open" => aborted' = aborted
    PROVE  IInv'
<1>1. /\ frames' \in Seq(Frame)
      /\ Len(frames') = Len(frames)
      /\ \A i \in 1 .. Len(frames) : /\ frames'[i].depth = frames[i].depth
                                     /\ frames'[i].entry = frames[i].entry
                                     /\ frames'[i].cancelled = frames[i].cancelled
      /\ FramesNested'
  BY ReplaceTop DEF IInv
<1>2. Len(frames) \in Nat \ {0}
  BY EmptySeq DEF IInv, TypeOK
<1>3. TypeOK'
  BY <1>1 DEF IInv, TypeOK
<1>4. ConnectionMatches'
  <2>1. frames' # <<>> /\ 1 \in 1 .. Len(frames)
    BY <1>1, <1>2, EmptySeq
  <2>2. frames'[1].entry = frames[1].entry
    BY <1>1, <2>1
  <2> QED
    BY <2>1, <2>2 DEF IInv, ConnectionMatches
<1>5. SavepointsMatch'
  BY <1>1, <1>2, MatchKept
<1> QED
  BY <1>1, <1>3, <1>4, <1>5 DEF IInv

\* The end of fn moves the innermost block on.
LEMMA StepFnReturns ==
    ASSUME IInv, NEW fn \in {"nil", "err", "panic"}, FnReturns(fn)
    PROVE  IInv'
<1>1. Top \in Frame
  BY RunningCall DEF IInv, FnReturns
<1> DEFINE f == [Top EXCEPT !.fn = fn,
                     !.pc = IF fn = "nil" THEN "closing" ELSE "unwinding"]
<1>2. f \in Frame /\ f.depth = Top.depth /\ f.cancelled = Top.cancelled
      /\ f.entry = Top.entry
  BY <1>1 DEF Frame
<1> QED
  BY <1>2, StepTop DEF FnReturns, conn, IInv, TypeOK

\* A failed RELEASE hands over to the deferred rollback.
LEMMA StepReleaseFails ==
    ASSUME IInv, ReleaseFails
    PROVE  IInv'
<1>1. frames # <<>> /\ Top \in Frame
  <2>1. Len(frames) >= 1
    BY LenProperties DEF IInv, TypeOK, ReleaseFails
  <2> QED
    BY <2>1, RunningCall DEF IInv
<1> DEFINE f == [Top EXCEPT !.pc = "unwinding"]
<1>2. f \in Frame /\ f.depth = Top.depth /\ f.cancelled = Top.cancelled
      /\ f.entry = Top.entry
  BY <1>1 DEF Frame
<1>3. aborted' \in BOOLEAN /\ (tx # "open" => aborted' = aborted)
  BY DEF ReleaseFails, Usable, Sendable, IInv, TypeOK
<1> QED
  BY <1>1, <1>2, <1>3, StepTop DEF ReleaseFails

\* A failed COMMIT hands over to the deferred Rollback.
LEMMA StepCommitFails ==
    ASSUME IInv, CommitFails
    PROVE  IInv'
<1>1. frames # <<>> /\ Top \in Frame
  <2>1. Len(frames) >= 1
    BY LenProperties DEF IInv, TypeOK, CommitFails
  <2> QED
    BY <2>1, RunningCall DEF IInv
<1> DEFINE f == [Top EXCEPT !.pc = "unwinding"]
<1>2. f \in Frame /\ f.depth = Top.depth /\ f.cancelled = Top.cancelled
      /\ f.entry = Top.entry
  BY <1>1 DEF Frame
<1>3. frames' = WithTop(f) /\ UNCHANGED <<db, ret>>
  BY DEF CommitFails
<1>4. CASE UNCHANGED conn
  BY <1>1, <1>2, <1>3, <1>4, StepTop DEF conn, IInv, TypeOK
<1>5. CASE EndTx("done")
  <2>1. frames' \in Seq(Frame) /\ Len(frames') = Len(frames) /\ FramesNested'
    BY <1>1, <1>2, <1>3, ReplaceTop DEF IInv
  <2>2. TypeOK'
    BY <1>3, <1>5, <2>1, EmptySeq DEF IInv, TypeOK, EndTx
  <2>3. frames' # <<>>
    BY <1>1, <2>1, RunningCall, EmptySeq DEF IInv
  <2> QED
    BY <1>5, <2>1, <2>2, <2>3 DEF IInv, ConnectionMatches, SavepointsMatch, EndTx
<1> QED
  BY <1>4, <1>5 DEF CommitFails

\* The outermost call returns and the transaction is over.
LEMMA StepOuterReturns ==
    ASSUME IInv, Len(frames) = 1, frames' = Pop, db' \in SUBSET Row, EndTx("none"),
           ret' \in [fn : {"nil", "err", "panic", "notrun"}, out : {"nil", "err", "panic"}]
    PROVE  IInv'
<1>1. frames # <<>>
  BY RunningCall DEF IInv
<1>2. frames' \in Seq(Frame) /\ Len(frames') = 0 /\ FramesNested'
  BY <1>1, PopFrame DEF IInv
<1>3. frames' = <<>>
  BY <1>2, EmptySeq
<1>4. TypeOK'
  BY <1>2, EmptySeq DEF IInv, TypeOK, EndTx
<1> QED
  BY <1>2, <1>3, <1>4 DEF IInv, ConnectionMatches, SavepointsMatch, EndTx

\* The outermost block starts over the committed rows.
LEMMA StepBegin ==
    ASSUME IInv, AtomicBegin
    PROVE  IInv'
<1>1. Len(frames) = 0 /\ frames' = Append(frames, NewFrame(Len(frames)))
  BY DEF AtomicBegin
<1>2. /\ frames' \in Seq(Frame)
      /\ Len(frames') = 1
      /\ frames'[1] = NewFrame(0)
      /\ FramesNested'
  BY <1>1, PushFrame DEF IInv, InBody, AtomicBegin
<1>3. TypeOK'
  BY <1>2 DEF IInv, TypeOK, AtomicBegin
<1>4. frames' # <<>>
  BY <1>2, EmptySeq
<1> QED
  BY <1>2, <1>3, <1>4 DEF IInv, ConnectionMatches, SavepointsMatch, AtomicBegin,
                         NewFrame

\* A nested block sets the newest savepoint, under the largest name.
LEMMA StepSavepoint ==
    ASSUME IInv, OwnContexts, NEW i \in 1 .. Len(frames), AtomicSavepoint(i)
    PROVE  IInv'
<1>1. Len(frames) \in Nat /\ Len(frames) >= 1 /\ frames # <<>>
      /\ Len(sps) \in Nat
  BY RunningCall, LenProperties DEF IInv, TypeOK
<1>2. i = Len(frames) /\ frames[i].depth = i - 1 /\ tx = "open"
  BY DEF OwnContexts, AtomicSavepoint, InScope, IInv, FramesNested, Usable, Sendable
<1>3. ~frames[1].cancelled
  BY DEF AtomicSavepoint, Usable, Sendable, IInv, FramesNested
<1> DEFINE n == Len(frames)
           sp == [name |-> n, snap |-> work]
<1>4. SavepointDepth(frames[i]) = n
  BY <1>1, <1>2 DEF SavepointDepth
<1>5. sps' = Append(sps, sp) /\ frames' = Append(frames, NewFrame(n))
  BY <1>4 DEF AtomicSavepoint
<1>6. /\ frames' \in Seq(Frame)
      /\ Len(frames') = n + 1
      /\ \A j \in 1 .. n : frames'[j] = frames[j]
      /\ frames'[n + 1] = NewFrame(n)
      /\ FramesNested'
  BY <1>3, <1>5, PushFrame DEF IInv, AtomicSavepoint
<1>7. sp \in Savepoint
  BY <1>1 DEF Savepoint, IInv, TypeOK
<1>8. /\ sps' \in Seq(Savepoint)
      /\ Len(sps') = Len(sps) + 1
      /\ \A k \in 1 .. Len(sps) : sps'[k] = sps[k]
      /\ sps'[Len(sps) + 1] = sp
  BY <1>5, <1>7, AppendProperties DEF IInv, TypeOK
<1>9. TypeOK'
  BY <1>6, <1>8 DEF IInv, TypeOK, AtomicSavepoint
<1>10. ConnectionMatches'
  <2>1. frames' # <<>> /\ frames'[1] = frames[1]
    BY <1>1, <1>6, EmptySeq
  <2> QED
    BY <1>1, <1>2, <2>1 DEF IInv, ConnectionMatches, AtomicSavepoint
<1>11. ASSUME NEW j \in 2 .. Len(frames')
       PROVE  \E k \in 1 .. Len(sps') :
                 /\ sps'[k] = [name |-> frames'[j].depth, snap |-> frames'[j].entry]
                 /\ \A m \in k + 1 .. Len(sps') : sps'[m].name > frames'[j].depth
  <2>1. CASE j = n + 1
    <3>1. sps'[Len(sps) + 1] = [name |-> frames'[j].depth, snap |-> frames'[j].entry]
      BY <2>1, <1>6, <1>8 DEF NewFrame
    <3>2. Len(sps) + 1 \in 1 .. Len(sps')
          /\ \A m \in Len(sps) + 1 + 1 .. Len(sps') : FALSE
      BY <1>1, <1>8
    <3> QED
      BY <3>1, <3>2
  <2>2. CASE j # n + 1
    <3>1. j \in 2 .. n /\ j \in 1 .. n
      BY <2>2, <1>1, <1>6
    <3>2. frames'[j] = frames[j] /\ frames[j].depth = j - 1
      BY <3>1, <1>6 DEF IInv, FramesNested
    <3>3. PICK k \in 1 .. Len(sps) :
             /\ sps[k] = [name |-> frames[j].depth, snap |-> frames[j].entry]
             /\ \A m \in k + 1 .. Len(sps) : sps[m].name > frames[j].depth
      BY <3>1, <1>2 DEF IInv, SavepointsMatch
    <3>4. k \in 1 .. Len(sps')
          /\ sps'[k] = [name |-> frames'[j].depth, snap |-> frames'[j].entry]
      BY <3>2, <3>3, <1>1, <1>8
    <3>5. ASSUME NEW m \in k + 1 .. Len(sps')
          PROVE  sps'[m].name > frames'[j].depth
      <4>1. CASE m = Len(sps) + 1
        BY <4>1, <3>1, <3>2, <1>1, <1>8
      <4>2. CASE m # Len(sps) + 1
        <5>1. m \in k + 1 .. Len(sps) /\ m \in 1 .. Len(sps)
          <6>1. m \in k + 1 .. Len(sps) + 1
            BY <1>8
          <6>2. k \in Nat
            OBVIOUS
          <6> QED
            BY <6>1, <6>2, <4>2, <1>1
        <5> QED
          BY <5>1, <3>2, <3>3, <1>8
      <4> QED
        BY <4>1, <4>2
    <3> QED
      BY <3>4, <3>5
  <2> QED
    BY <2>1, <2>2
<1> QED
  BY <1>6, <1>9, <1>10, <1>11 DEF IInv, SavepointsMatch

\* The nested call returns: what is below its savepoint stays matched.
LEMMA StepNestedReturns ==
    ASSUME IInv, Len(frames) > 1, frames' = Pop,
           UNCHANGED <<db, tx>>,
           ret' \in [fn : {"nil", "err", "panic", "notrun"}, out : {"nil", "err", "panic"}],
           \/ tx # "open" /\ UNCHANGED conn
           \/ /\ tx = "open"
              /\ work' \in SUBSET Row
              /\ aborted' \in BOOLEAN
              /\ \E k \in {Newest(Top.depth) - 1, Newest(Top.depth), Len(sps)} :
                    sps' = SubSeq(sps, 1, k)
    PROVE  IInv'
<1>1. /\ frames \in Seq(Frame) /\ sps \in Seq(Savepoint)
      /\ Len(frames) \in Nat /\ frames # <<>> /\ Len(sps) \in Nat
  BY RunningCall, LenProperties DEF IInv, TypeOK
<1>2. /\ frames' \in Seq(Frame)
      /\ Len(frames') = Len(frames) - 1
      /\ \A i \in 1 .. Len(frames) - 1 : frames'[i] = frames[i]
      /\ FramesNested'
  BY <1>1, PopFrame DEF IInv
<1>3. frames' # <<>> /\ frames'[1] = frames[1]
  BY <1>1, <1>2, EmptySeq
<1>4. CASE tx # "open" /\ UNCHANGED conn
  <2>1. TypeOK'
    BY <1>2, <1>4 DEF IInv, TypeOK, conn
  <2>2. ConnectionMatches' /\ SavepointsMatch'
    BY <1>3, <1>1, <1>4 DEF IInv, ConnectionMatches, SavepointsMatch, conn
  <2> QED
    BY <1>2, <2>1, <2>2 DEF IInv
<1>5. CASE /\ tx = "open"
           /\ work' \in SUBSET Row
           /\ aborted' \in BOOLEAN
           /\ \E k \in {Newest(Top.depth) - 1, Newest(Top.depth), Len(sps)} :
                 sps' = SubSeq(sps, 1, k)
  <2>1. PICK k \in {Newest(Top.depth) - 1, Newest(Top.depth), Len(sps)} :
               sps' = SubSeq(sps, 1, k)
    BY <1>5
  <2>2. /\ Newest(Top.depth) \in 1 .. Len(sps)
        /\ \A i \in 2 .. Len(frames) - 1 :
             \E j \in 1 .. Newest(Top.depth) - 1 :
                /\ sps[j] = [name |-> frames[i].depth, snap |-> frames[i].entry]
                /\ \A m \in j + 1 .. Len(sps) : sps[m].name > frames[i].depth
    BY <1>5, OwnSavepoint
  <2>3. k \in 0 .. Len(sps) /\ k >= Newest(Top.depth) - 1
    BY <1>1, <2>2
  <2>4. /\ sps' \in Seq(Savepoint)
        /\ Len(sps') = k
        /\ \A j \in 1 .. k : sps'[j] = sps[j]
    BY <1>1, <2>1, <2>3, Cut
  <2>5. TypeOK'
    BY <1>2, <1>5, <2>4 DEF IInv, TypeOK
  <2>6. ConnectionMatches'
    BY <1>1, <1>3, <1>5 DEF IInv, ConnectionMatches
  <2>7. ASSUME NEW i \in 2 .. Len(frames')
        PROVE  \E j \in 1 .. Len(sps') :
                  /\ sps'[j] = [name |-> frames'[i].depth, snap |-> frames'[i].entry]
                  /\ \A m \in j + 1 .. Len(sps') : sps'[m].name > frames'[i].depth
    <3>1. i \in 2 .. Len(frames) - 1 /\ frames'[i] = frames[i]
      BY <1>1, <1>2
    <3>2. PICK j \in 1 .. Newest(Top.depth) - 1 :
              /\ sps[j] = [name |-> frames[i].depth, snap |-> frames[i].entry]
              /\ \A m \in j + 1 .. Len(sps) : sps[m].name > frames[i].depth
      BY <2>2, <3>1
    <3>3. j \in 1 .. k /\ j \in 1 .. Len(sps')
      BY <2>2, <2>3, <2>4, <1>1
    <3>4. sps'[j] = [name |-> frames'[i].depth, snap |-> frames'[i].entry]
      BY <2>4, <3>1, <3>2, <3>3
    <3>5. ASSUME NEW m \in j + 1 .. k
          PROVE  sps'[m].name > frames'[i].depth
      <4>1. m \in 1 .. k /\ m \in j + 1 .. Len(sps)
        BY <2>3, <3>3, <1>1
      <4> QED
        BY <2>4, <3>1, <3>2, <4>1
    <3> QED
      BY <2>4, <3>3, <3>4, <3>5
  <2> QED
    BY <1>2, <2>5, <2>6, <2>7 DEF IInv, SavepointsMatch
<1> QED
  BY <1>4, <1>5

\* RELEASE removes the savepoint of the block that ends, and newer ones.
LEMMA StepRelease ==
    ASSUME IInv, Release
    PROVE  IInv'
<1>1. frames' = Pop /\ ret' = [fn |-> "nil", out |-> "nil"] /\ Len(frames) > 1
      /\ UNCHANGED <<db, tx, work, aborted>> /\ tx = "open"
      /\ sps' = SubSeq(sps, 1, Newest(Top.depth) - 1)
  BY DEF Release, Returns, Usable, Sendable
<1>2. work' \in SUBSET Row /\ aborted' \in BOOLEAN
  BY <1>1 DEF IInv, TypeOK
<1> QED
  BY <1>1, <1>2, StepNestedReturns

\* The savepoint that ROLLBACK TO leaves set hides none of an outer block.
LEMMA StepRollbackTo ==
    ASSUME IInv, RollbackTo
    PROVE  IInv'
<1>1. Top \in Frame /\ Len(frames) > 1
  BY RunningCall, LenProperties DEF IInv, TypeOK, RollbackTo
<1>2. frames' = Pop /\ UNCHANGED <<db, tx>>
      /\ ret' \in [fn : {"nil", "err", "panic", "notrun"}, out : {"nil", "err", "panic"}]
  BY <1>1 DEF RollbackTo, Returns, Failure, Frame
<1>3. CASE tx # "open"
  <2>1. ~Sendable(Top) /\ aborted \in BOOLEAN
    BY <1>3 DEF Sendable, IInv, TypeOK
  <2>2. UNCHANGED <<tx, work, sps>> /\ aborted' \in {aborted, aborted \/ Sendable(Top)}
    BY <2>1 DEF RollbackTo
  <2>3. aborted' = aborted
    BY <2>1, <2>2
  <2> QED
    BY <1>1, <1>2, <1>3, <2>2, <2>3, StepNestedReturns DEF conn
<1>4. CASE tx = "open"
  <2>1. /\ Newest(Top.depth) \in 1 .. Len(sps)
        /\ sps[Newest(Top.depth)] = [name |-> Top.depth, snap |-> Top.entry]
    BY <1>1, <1>4, OwnSavepoint
  <2>2. Top.entry \in SUBSET Row
    BY <1>1 DEF Frame
  <2>3. work' \in SUBSET Row /\ aborted' \in BOOLEAN
    <3>1. sps[Newest(Top.depth)].snap \in SUBSET Row
      BY <2>1, <2>2
    <3>2. work \in SUBSET Row /\ aborted \in BOOLEAN
      BY DEF IInv, TypeOK
    <3> QED
      BY <3>1, <3>2 DEF RollbackTo
  <2>4. \E k \in {Newest(Top.depth), Len(sps)} : sps' = SubSeq(sps, 1, k)
    BY SubSeqFull DEF RollbackTo, IInv, TypeOK
  <2> QED
    BY <1>1, <1>2, <1>4, <2>3, <2>4, StepNestedReturns
<1> QED
  BY <1>3, <1>4

\* Contexts of the running blocks are cancelled together.
LEMMA StepCancel ==
    ASSUME IInv, OwnContexts, NEW i \in 1 .. Len(frames), Cancel(i)
    PROVE  IInv'
<1>1. /\ Len(frames) \in Nat /\ Len(frames) >= 1 /\ frames # <<>>
      /\ \A j \in 1 .. Len(frames) : frames[j] \in Frame
  BY RunningCall, LenProperties, ElementOfSeq DEF IInv, TypeOK
<1>2. i = 1
  BY DEF Cancel, OwnContexts
<1> DEFINE c(j) == [frames[j] EXCEPT !.cancelled = TRUE]
<1>3. frames' = [j \in 1 .. Len(frames) |-> c(j)]
  BY <1>1, <1>2 DEF Cancel
<1>4. \A j \in 1 .. Len(frames) : c(j) \in Frame
  BY <1>1 DEF Frame
<1>5. frames' \in [1 .. Len(frames) -> Frame]
  BY <1>3, <1>4
<1>6. frames' \in Seq(Frame) /\ Len(frames') = Len(frames)
  BY <1>1, <1>5, SeqDef, LenProperties
<1>7. \A j \in 1 .. Len(frames) :
         /\ frames'[j].depth = frames[j].depth /\ frames'[j].entry = frames[j].entry
         /\ frames'[j].pc = frames[j].pc /\ frames'[j].cancelled = TRUE
  BY <1>1, <1>3 DEF Frame
<1>8. TypeOK'
  BY <1>6 DEF Cancel, conn, IInv, TypeOK
<1>9. FramesNested'
  <2>1. \A j \in 1 .. Len(frames') : frames'[j].depth = j - 1
    BY <1>6, <1>7 DEF IInv, FramesNested
  <2>2. \A j \in 1 .. Len(frames') : frames'[j].cancelled = frames'[1].cancelled
    <3>1. 1 \in 1 .. Len(frames)
      BY <1>1
    <3> QED
      BY <3>1, <1>6, <1>7, Zenon
  <2>3. \A j \in 1 .. Len(frames') - 1 : frames'[j].pc = "body"
    BY <1>1, <1>6, <1>7 DEF IInv, FramesNested
  <2> QED
    BY <2>1, <2>2, <2>3 DEF FramesNested
<1>10. ConnectionMatches'
  BY <1>1, <1>6, <1>7, EmptySeq DEF IInv, ConnectionMatches, Cancel, conn
<1>11. SavepointsMatch'
  BY <1>1, <1>6, <1>7, MatchKept DEF Cancel, conn
<1> QED
  BY <1>8, <1>9, <1>10, <1>11 DEF IInv

\* Every step of Next preserves the invariant.
LEMMA IInvStep ==
    ASSUME IInv, OwnContexts, [Next]_vars
    PROVE  IInv'
<1>1. CASE \E rows \in SUBSET Row : Statement(rows)
  BY <1>1, StepStatement
<1>2. CASE StatementFails
  BY <1>2, StepStatementFails
<1>3. CASE \E fn \in {"nil", "err", "panic"} : FnReturns(fn)
  BY <1>3, StepFnReturns
<1>4. CASE AtomicBegin
  BY <1>4, StepBegin
<1>5. CASE \E i \in 1 .. Len(frames) : AtomicSavepoint(i)
  BY <1>5, StepSavepoint
<1>6. CASE AtomicRefused
  BY <1>6, StepRefused
<1>7. CASE Release
  BY <1>7, StepRelease
<1>8. CASE ReleaseFails
  BY <1>8, StepReleaseFails
<1>9. CASE RollbackTo
  BY <1>9, StepRollbackTo
<1>10. CASE Commit \/ CommitAckLost
  <2>1. /\ Len(frames) = 1 /\ frames' = Pop /\ db' \in SUBSET Row /\ EndTx("none")
        /\ ret' \in [fn : {"nil", "err", "panic", "notrun"}, out : {"nil", "err", "panic"}]
    BY <1>10 DEF Commit, CommitAckLost, Returns, IInv, TypeOK
  <2> QED
    BY <2>1, StepOuterReturns
<1>11. CASE CommitFails
  BY <1>11, StepCommitFails
<1>12. CASE Rollback
  <2>1. Top \in Frame
    BY <1>12, RunningCall DEF IInv, Rollback
  <2>2. /\ Len(frames) = 1 /\ frames' = Pop /\ db' \in SUBSET Row /\ EndTx("none")
        /\ ret' \in [fn : {"nil", "err", "panic", "notrun"}, out : {"nil", "err", "panic"}]
    BY <1>12, <2>1 DEF Rollback, Returns, Failure, Frame, IInv, TypeOK
  <2> QED
    BY <2>2, StepOuterReturns
<1>13. CASE TxLost
  BY <1>13, StepTxLost
<1>14. CASE \E i \in 1 .. Len(frames) : Cancel(i)
  BY <1>14, StepCancel
<1>15. CASE UNCHANGED vars
  BY <1>15 DEF IInv, TypeOK, FramesNested, ConnectionMatches, SavepointsMatch,
               vars, conn
<1> QED
  BY <1>1, <1>2, <1>3, <1>4, <1>5, <1>6, <1>7, <1>8, <1>9, <1>10, <1>11, <1>12,
     <1>13, <1>14, <1>15 DEF Next

-----------------------------------------------------------------------------
(* Theorems                                                                *)

\* The inductive invariant holds of every behaviour.
THEOREM Invariance ==
    ASSUME OwnContexts
    PROVE  Spec => []IInv
<1>1. Init => IInv
  BY IInvInit
<1>2. IInv /\ [Next]_vars => IInv'
  BY IInvStep
<1> QED
  BY <1>1, <1>2, PTL DEF Spec

\* The variables of the transaction keep their types, whatever blocks do.
THEOREM TypeCorrect ==
    ASSUME OwnContexts
    PROVE  Spec => []TypeOK
<1>1. IInv => TypeOK
  BY DEF IInv
<1> QED
  BY <1>1, Invariance, PTL

\* At any nesting and after any number of failed blocks, sp_<depth> still
\* resolves to the savepoint of the block that is running at that depth.
THEOREM SavepointsFoundAgain ==
    ASSUME OwnContexts
    PROVE  Spec => []SavepointsMatch
<1>1. IInv => SavepointsMatch
  BY DEF IInv
<1> QED
  BY <1>1, Invariance, PTL

\* The outermost Atomic ends its transaction on each of its ways out.
THEOREM NoLeak ==
    ASSUME OwnContexts
    PROVE  Spec => []NoTransactionLeaks
<1>1. IInv => NoTransactionLeaks
  BY DEF IInv, ConnectionMatches, NoTransactionLeaks
<1> QED
  BY <1>1, Invariance, PTL

\* Every step but the return of a call keeps all the calls.
LEMMA OnlyReturnsPop ==
    ASSUME IInv, Len(frames) > 1, Len(frames') < Len(frames), [Next]_vars
    PROVE  Release \/ RollbackTo
<1>1. Len(frames) \in Nat /\ frames # <<>> /\ frames \in Seq(Frame)
      /\ Top \in Frame
  BY RunningCall DEF IInv, TypeOK
<1>2. ~UNCHANGED frames
  BY <1>1
<1>3. \A f \in Frame : Len(WithTop(f)) = Len(frames)
  BY <1>1, ExceptSeq DEF WithTop
<1>4. ASSUME NEW fn \in {"nil", "err", "panic"} PROVE ~FnReturns(fn)
  <2> DEFINE f == [Top EXCEPT !.fn = fn,
                       !.pc = IF fn = "nil" THEN "closing" ELSE "unwinding"]
  <2>1. f \in Frame
    BY <1>1 DEF Frame
  <2> QED
    BY <1>1, <1>3, <2>1 DEF FnReturns
<1>5. ~ReleaseFails
  <2>1. [Top EXCEPT !.pc = "unwinding"] \in Frame
    BY <1>1 DEF Frame
  <2> QED
    BY <1>1, <1>3, <2>1 DEF ReleaseFails
<1>6. ASSUME NEW i \in 1 .. Len(frames) PROVE ~AtomicSavepoint(i)
  <2>1. \A f : Len(Append(frames, f)) = Len(frames) + 1
    BY <1>1
  <2> QED
    BY <1>1, <2>1 DEF AtomicSavepoint
<1>7. ASSUME NEW i \in 1 .. Len(frames) PROVE ~Cancel(i)
  <2> SUFFICES ASSUME Cancel(i) PROVE FALSE
    OBVIOUS
  <2>1. \A j \in 1 .. Len(frames) : frames[j] \in Frame
    BY <1>1, ElementOfSeq
  <2>2. frames' \in [1 .. Len(frames) -> Frame]
    BY <2>1 DEF Cancel, Frame
  <2> QED
    BY <1>1, <2>2, SeqDef, LenProperties
<1>8. /\ \A rows \in SUBSET Row : ~Statement(rows)
      /\ ~StatementFails /\ ~AtomicRefused /\ ~TxLost
  BY <1>2 DEF Statement, StatementFails, AtomicRefused, TxLost
<1>9. /\ ~AtomicBegin /\ ~Commit /\ ~CommitAckLost /\ ~CommitFails /\ ~Rollback
  <2>1. Len(frames) # 1
    <3>1. \A n \in Nat : n > 1 => n # 1
      OBVIOUS
    <3> QED
      BY <1>1, <3>1, Zenon
  <2> QED
    BY <1>1, <2>1 DEF AtomicBegin, Commit, CommitAckLost, CommitFails, Rollback
<1>10. ~UNCHANGED vars
  BY <1>2 DEF vars
<1> QED
  BY <1>4, <1>5, <1>6, <1>7, <1>8, <1>9, <1>10 DEF Next

\* A nested Atomic that fails undoes its block and nothing else.
THEOREM FailureContained ==
    ASSUME OwnContexts
    PROVE  Spec => FailureRollsBackOnlyTheBlock
<1>1. ASSUME IInv, [Next]_vars PROVE FailureUndone
  <2> SUFFICES ASSUME Len(frames) > 1, Len(frames') < Len(frames),
                      ret'.out # "nil", Sendable(frames[1])
               PROVE  work' = Top.entry /\ tx' = "open" /\ ~aborted'
    BY DEF FailureUndone
  <2>1. RollbackTo
    BY <1>1, OnlyReturnsPop DEF Release, Returns
  <2>2. Sendable(Top)
    <3>1. Top.cancelled = frames[1].cancelled
      BY <1>1, RunningCall DEF IInv, FramesNested, Top
    <3> QED
      BY <3>1 DEF Sendable
  <2>3. /\ Named(Top.depth) # {}
        /\ sps[Newest(Top.depth)] = [name |-> Top.depth, snap |-> Top.entry]
    BY <1>1, OwnSavepoint DEF Sendable
  <2>4. work' = sps[Newest(Top.depth)].snap /\ aborted' = FALSE /\ tx' = tx
    BY <2>1, <2>2, <2>3 DEF RollbackTo
  <2> QED
    BY <2>3, <2>4 DEF Sendable
<1>2. IInv /\ [Next]_vars => [FailureUndone]_vars
  BY <1>1
<1> QED
  BY <1>2, Invariance, PTL DEF Spec, FailureRollsBackOnlyTheBlock

-----------------------------------------------------------------------------
(* What the mapping makes of a state                                       *)

AbsState ==
    /\ AbsSaved \in Seq(SUBSET Row)
    /\ Len(AbsSaved) = Len(frames)
    /\ \A i \in 1 .. Len(frames) :
          AbsSaved[i] = IF Alive THEN frames[i].entry ELSE db
    /\ Len(frames) \in Nat
    /\ AbsSaved = <<>> <=> frames = <<>>
    /\ frames = <<>> <=> Len(frames) = 0
    /\ frames = <<>> => ~Alive /\ work = db

\* The mapped variables have the types of NestedTx.
LEMMA Mapped == IInv => AbsState
<1> SUFFICES ASSUME IInv PROVE AbsState
  OBVIOUS
<1>1. Len(frames) \in Nat /\ \A i \in 1 .. Len(frames) : frames[i] \in Frame
  BY LenProperties, ElementOfSeq DEF IInv, TypeOK
<1>2. AbsSaved \in [1 .. Len(frames) -> SUBSET Row]
  BY <1>1 DEF AbsSaved, Frame, IInv, TypeOK
<1>3. AbsSaved \in Seq(SUBSET Row) /\ Len(AbsSaved) = Len(frames)
  BY <1>1, <1>2, SeqDef, LenProperties
<1>4. frames = <<>> <=> Len(frames) = 0
  BY RunningCall, <1>1, EmptySeq DEF IInv
<1>5. AbsSaved = <<>> <=> Len(AbsSaved) = 0
  BY <1>3, EmptySeq
<1>6. frames = <<>> => ~Alive /\ work = db
  BY DEF Alive, IInv, ConnectionMatches
<1>7. \A i \in 1 .. Len(frames) :
          AbsSaved[i] = IF Alive THEN frames[i].entry ELSE db
  BY DEF AbsSaved
<1> QED
  BY <1>1, <1>3, <1>4, <1>5, <1>6, <1>7 DEF AbsState

\* ... also after a step.
LEMMA MappedNext == IInv' => AbsState'
BY Mapped, PTL

-----------------------------------------------------------------------------
(* Four ways in which the stack of open blocks changes                     *)

\* It stays: the same calls, found alive or found lost as before.
LEMMA SavedKept ==
    ASSUME AbsState, AbsState', Alive' = Alive, db' = db,
           Len(frames') = Len(frames),
           \A i \in 1 .. Len(frames) : frames'[i].entry = frames[i].entry
    PROVE  AbsSaved' = AbsSaved /\ AbsDoomed' = AbsDoomed
<1>1. \A i \in 1 .. Len(frames) : AbsSaved'[i] = AbsSaved[i]
  BY DEF AbsState
<1>2. AbsSaved' = AbsSaved
  BY <1>1, SeqEqual DEF AbsState
<1>3. frames' = <<>> <=> frames = <<>>
  BY DEF AbsState
<1> QED
  BY <1>2, <1>3 DEF AbsDoomed

\* A block opens in a transaction that is alive, or begins it.
LEMMA SavedPushed ==
    ASSUME AbsState, AbsState', Alive', db' = db,
           frames # <<>> => Alive,
           Len(frames') = Len(frames) + 1,
           \A i \in 1 .. Len(frames) : frames'[i].entry = frames[i].entry,
           frames'[Len(frames) + 1].entry = AbsCur, AbsCur \in SUBSET Row
    PROVE  AbsSaved' = Append(AbsSaved, AbsCur) /\ ~AbsDoomed /\ ~AbsDoomed'
<1> DEFINE t == Append(AbsSaved, AbsCur)
<1>1. /\ t \in Seq(SUBSET Row)
      /\ Len(t) = Len(frames) + 1
      /\ \A i \in 1 .. Len(frames) : t[i] = AbsSaved[i]
      /\ t[Len(frames) + 1] = AbsCur
  BY AppendProperties DEF AbsState
<1>2. ASSUME NEW i \in 1 .. Len(frames) + 1 PROVE AbsSaved'[i] = t[i]
  <2>1. AbsSaved'[i] = frames'[i].entry
    BY DEF AbsState
  <2>2. CASE i = Len(frames) + 1
    BY <2>1, <2>2, <1>1
  <2>3. CASE i # Len(frames) + 1
    <3>1. i \in 1 .. Len(frames)
      BY <2>3 DEF AbsState
    <3>2. frames # <<>>
      BY <3>1 DEF AbsState
    <3> QED
      BY <2>1, <3>1, <3>2, <1>1 DEF AbsState
  <2> QED
    BY <2>2, <2>3
<1>3. AbsSaved' = t
  BY <1>1, <1>2, SeqEqual DEF AbsState
<1> QED
  BY <1>3 DEF AbsDoomed

\* A nested call returns; the transaction is as alive as it was.
LEMMA SavedPopped ==
    ASSUME AbsState, AbsState', db' = db, Len(frames) > 1, Alive' = Alive,
           Len(frames') = Len(frames) - 1,
           \A i \in 1 .. Len(frames) - 1 : frames'[i].entry = frames[i].entry
    PROVE  /\ AbsSaved' = SubSeq(AbsSaved, 1, Len(AbsSaved) - 1)
           /\ AbsDoomed' = AbsDoomed
<1> DEFINE t == SubSeq(AbsSaved, 1, Len(AbsSaved) - 1)
<1>1. Len(AbsSaved) = Len(frames) /\ Len(frames) \in Nat
      /\ Len(frames) - 1 \in 0 .. Len(frames)
  BY DEF AbsState
<1>2. /\ t \in Seq(SUBSET Row)
      /\ Len(t) = Len(frames) - 1
      /\ \A i \in 1 .. Len(frames) - 1 : t[i] = AbsSaved[i]
  BY <1>1, Cut DEF AbsState
<1>3. \A i \in 1 .. Len(frames) - 1 : AbsSaved'[i] = t[i]
  BY <1>1, <1>2 DEF AbsState
<1>4. AbsSaved' = t
  BY <1>2, <1>3, SeqEqual DEF AbsState
<1>5. frames # <<>> /\ frames' # <<>>
  BY <1>1 DEF AbsState
<1> QED
  BY <1>4, <1>5 DEF AbsDoomed

\* The outermost call returns.
LEMMA SavedEmptied ==
    ASSUME AbsState, AbsState', Len(frames) = 1, Len(frames') = 0
    PROVE  /\ AbsSaved' = SubSeq(AbsSaved, 1, Len(AbsSaved) - 1)
           /\ ~AbsDoomed'
           /\ Len(AbsSaved) = 1 /\ AbsSaved # <<>> /\ AbsSaved' = <<>>
<1>1. frames' = <<>> /\ AbsSaved' = <<>>
  BY DEF AbsState
<1>2. SubSeq(AbsSaved, 1, Len(AbsSaved) - 1) = <<>>
  BY SubSeqEmpty DEF AbsState
<1> QED
  BY <1>1, <1>2 DEF AbsDoomed, AbsState

\* The transaction, or its context, is lost while blocks are open.
LEMMA SavedDoomed ==
    ASSUME AbsState, AbsState', Alive, ~Alive', frames # <<>>,
           UNCHANGED <<db, ret>>, Len(frames') = Len(frames)
    PROVE  Abstract!Doom
<1>1. AbsSaved' = [i \in 1 .. Len(AbsSaved) |-> db]
  <2> DEFINE t == [i \in 1 .. Len(AbsSaved) |-> db]
  <2>1. AbsSaved' = [i \in 1 .. Len(frames) |-> db]
    BY DEF AbsSaved
  <2> QED
    BY <2>1 DEF AbsState
<1>2. frames' # <<>> /\ AbsSaved # <<>>
  BY DEF AbsState
<1> QED
  BY <1>1, <1>2 DEF Abstract!Doom, AbsDoomed, AbsCur

-----------------------------------------------------------------------------
(* Every step of Atomic is a step of NestedTx or leaves it alone           *)

\* The step keeps the calls, what they found and the transaction's health.
LEMMA Stutters ==
    ASSUME AbsState, AbsState', UNCHANGED <<db, ret, tx, work>>,
           Len(frames') = Len(frames),
           \A i \in 1 .. Len(frames) : frames'[i].entry = frames[i].entry,
           frames # <<>> => frames'[1].cancelled = frames[1].cancelled
    PROVE  UNCHANGED Abstract!vars
<1>1. Alive' = Alive
  <2>1. CASE frames = <<>>
    <3>1. frames' = <<>>
      BY <2>1 DEF AbsState
    <3>2. ~Alive /\ ~Alive'
      BY <2>1, <3>1 DEF AbsState
    <3> QED
      BY <3>2 DEF Alive
  <2>2. CASE frames # <<>>
    BY <2>2 DEF Alive
  <2> QED
    BY <2>1, <2>2
<1>2. AbsSaved' = AbsSaved /\ AbsDoomed' = AbsDoomed
  BY <1>1, SavedKept
<1>3. AbsCur' = AbsCur
  BY <1>1 DEF AbsCur
<1> QED
  BY <1>2, <1>3 DEF Abstract!vars

\* Statement is NestedTx's Statement.
LEMMA StatementMaps ==
    ASSUME IInv, IInv', NEW rows \in SUBSET Row, Statement(rows)
    PROVE  Abstract!Next
<1>1. AbsState /\ AbsState'
  BY Mapped, MappedNext
<1>2. CASE frames = <<>>
  <2>1. /\ db' = rows /\ work' = rows /\ frames' = frames /\ ret' = ret
    BY <1>2 DEF Statement
  <2>2. AbsSaved = <<>> /\ AbsSaved' = <<>> /\ ~Alive /\ ~Alive'
    BY <1>1, <1>2, <2>1 DEF AbsState
  <2>3. Abstract!Statement
    BY <1>2, <2>1, <2>2 DEF Abstract!Statement, AbsDoomed, AbsCur
  <2> QED
    BY <2>3 DEF Abstract!Next
<1>3. CASE frames # <<>>
  <2>1. tx = "open" /\ ~Top.cancelled /\ work' = rows
        /\ UNCHANGED <<db, tx, frames, ret>>
    BY <1>3 DEF Statement, Usable, Sendable
  <2>2. Top.cancelled = frames[1].cancelled
    BY <1>3, RunningCall DEF IInv, FramesNested, Top
  <2>3. Alive /\ Alive' /\ Alive' = Alive
    BY <2>1, <2>2 DEF Alive
  <2>4. AbsSaved' = AbsSaved /\ AbsDoomed' = AbsDoomed
    BY <1>1, <2>1, <2>3, SavedKept
  <2>5. Abstract!Statement
    BY <1>1, <1>3, <2>1, <2>3, <2>4
       DEF Abstract!Statement, AbsDoomed, AbsCur, AbsState
  <2> QED
    BY <2>5 DEF Abstract!Next
<1> QED
  BY <1>2, <1>3

\* Moving the innermost block on is a stutter.
LEMMA TopMaps ==
    ASSUME IInv, IInv', frames # <<>>, NEW f \in Frame, frames' = WithTop(f),
           f.depth = Top.depth, f.cancelled = Top.cancelled, f.entry = Top.entry,
           UNCHANGED <<db, ret, tx, work>>
    PROVE  UNCHANGED Abstract!vars
<1>1. AbsState /\ AbsState'
  BY Mapped, MappedNext
<1>2. /\ Len(frames') = Len(frames)
      /\ \A i \in 1 .. Len(frames) : /\ frames'[i].entry = frames[i].entry
                                     /\ frames'[i].cancelled = frames[i].cancelled
  BY ReplaceTop DEF IInv
<1>3. 1 \in 1 .. Len(frames)
  BY <1>1 DEF AbsState
<1> QED
  BY <1>1, <1>2, <1>3, Stutters

\* AtomicBegin is Enter.
LEMMA BeginMaps ==
    ASSUME IInv, IInv', AtomicBegin
    PROVE  Abstract!Enter
<1>1. AbsState /\ AbsState'
  BY Mapped, MappedNext
<1>2. /\ frames = <<>> /\ frames' = <<NewFrame(0)>> /\ tx' = "open"
      /\ UNCHANGED <<db, work, ret>>
  BY DEF AtomicBegin
<1>3. Len(frames) = 0 /\ Len(frames') = 1 /\ frames'[1] = NewFrame(0)
  BY <1>1, <1>2 DEF AbsState
<1>4. Alive' /\ ~Alive /\ AbsCur = work /\ work = db
  BY <1>1, <1>2, <1>3 DEF Alive, AbsCur, NewFrame, AbsState
<1>5. AbsCur' = AbsCur /\ AbsCur \in SUBSET Row
  BY <1>2, <1>4 DEF AbsCur, IInv, TypeOK
<1>6. AbsSaved' = Append(AbsSaved, AbsCur) /\ ~AbsDoomed /\ ~AbsDoomed'
  BY <1>1, <1>2, <1>3, <1>4, <1>5, SavedPushed DEF NewFrame
<1> QED
  BY <1>2, <1>5, <1>6 DEF Abstract!Enter, AbsDoomed

\* AtomicSavepoint is Enter.
LEMMA SavepointMaps ==
    ASSUME IInv, IInv', OwnContexts, NEW i \in 1 .. Len(frames), AtomicSavepoint(i)
    PROVE  Abstract!Enter
<1>1. AbsState /\ AbsState'
  BY Mapped, MappedNext
<1>2. /\ tx = "open" /\ ~frames[i].cancelled
      /\ UNCHANGED <<db, tx, work, ret>>
      /\ \E d : frames' = Append(frames, NewFrame(d))
  BY DEF AtomicSavepoint, Usable, Sendable
<1>3. frames[i].cancelled = frames[1].cancelled
  BY DEF IInv, FramesNested
<1>4. frames \in Seq(Frame) /\ Len(frames) \in Nat /\ frames # <<>> /\ Len(frames) >= 1
  BY <1>1 DEF IInv, TypeOK, AbsState
<1>5. PICK d : frames' = Append(frames, NewFrame(d))
  BY <1>2
<1>6. /\ Len(frames') = Len(frames) + 1
      /\ \A j \in 1 .. Len(frames) : frames'[j] = frames[j]
      /\ frames'[Len(frames) + 1] = NewFrame(d)
  BY <1>4, <1>5
<1>7. Alive /\ Alive'
  BY <1>2, <1>3, <1>4, <1>6 DEF Alive
<1>8. AbsCur = work /\ AbsCur' = work /\ AbsCur \in SUBSET Row
  BY <1>2, <1>7 DEF AbsCur, IInv, TypeOK
<1>9. frames'[Len(frames) + 1].entry = AbsCur
  BY <1>6, <1>8 DEF NewFrame
<1>10. AbsSaved' = Append(AbsSaved, AbsCur) /\ ~AbsDoomed /\ ~AbsDoomed'
  BY <1>1, <1>2, <1>6, <1>7, <1>8, <1>9, SavedPushed
<1> QED
  BY <1>2, <1>8, <1>10 DEF Abstract!Enter, AbsDoomed

\* What a nested call leaves behind when it returns.
LEMMA NestedPop ==
    ASSUME IInv, IInv', Len(frames) > 1, frames' = Pop, UNCHANGED <<db, tx>>
    PROVE  /\ Alive' = Alive
           /\ AbsSaved # <<>> /\ Len(AbsSaved) > 1
           /\ AbsSaved' = SubSeq(AbsSaved, 1, Len(AbsSaved) - 1)
           /\ AbsDoomed' = AbsDoomed /\ AbsDoomed = ~Alive
           /\ AbsSaved[Len(AbsSaved)] = IF Alive THEN Top.entry ELSE db
<1>1. AbsState /\ AbsState'
  BY Mapped, MappedNext
<1>2. frames # <<>> /\ Len(frames) \in Nat
  BY RunningCall DEF IInv, TypeOK
<1>3. /\ Len(frames') = Len(frames) - 1
      /\ \A i \in 1 .. Len(frames) - 1 : frames'[i] = frames[i]
  BY <1>2, PopFrame DEF IInv
<1>4. frames'[1] = frames[1]
  BY <1>2, <1>3
<1>5. Alive' = Alive
  BY <1>4 DEF Alive
<1>6. AbsSaved' = SubSeq(AbsSaved, 1, Len(AbsSaved) - 1) /\ AbsDoomed' = AbsDoomed
  BY <1>1, <1>3, <1>5, SavedPopped
<1>7. AbsSaved[Len(AbsSaved)] = IF Alive THEN Top.entry ELSE db
  BY <1>1, <1>2 DEF AbsState, Top
<1> QED
  BY <1>1, <1>2, <1>5, <1>6, <1>7 DEF AbsState, AbsDoomed

\* Release is Succeed.
LEMMA ReleaseMaps ==
    ASSUME IInv, IInv', Release
    PROVE  Abstract!Succeed
<1>1. /\ Len(frames) > 1 /\ frames' = Pop /\ ret' = [fn |-> "nil", out |-> "nil"]
      /\ UNCHANGED <<db, tx, work>> /\ tx = "open" /\ ~Top.cancelled
  BY DEF Release, Returns, Usable, Sendable
<1>2. Alive
  <2>1. Top.cancelled = frames[1].cancelled
    BY <1>1, RunningCall DEF IInv, FramesNested, Top
  <2> QED
    BY <1>1, <2>1 DEF Alive
<1>3. /\ Alive' = Alive /\ AbsSaved # <<>> /\ Len(AbsSaved) > 1
      /\ AbsSaved' = SubSeq(AbsSaved, 1, Len(AbsSaved) - 1)
      /\ AbsDoomed' = AbsDoomed /\ ~AbsDoomed
  BY <1>1, <1>2, NestedPop
<1>4. AbsCur' = AbsCur
  BY <1>1, <1>3 DEF AbsCur
<1>5. Len(AbsSaved) # 1
  BY <1>1, Mapped DEF AbsState
<1> QED
  BY <1>1, <1>3, <1>4, <1>5 DEF Abstract!Succeed, Abstract!Front

\* RollbackTo is Fail.
LEMMA RollbackToMaps ==
    ASSUME IInv, IInv', RollbackTo
    PROVE  \E fn \in {"nil", "err", "panic"} : Abstract!Fail(fn)
<1>1. /\ Len(frames) > 1 /\ frames' = Pop /\ UNCHANGED <<db, tx>>
      /\ ret' = [fn |-> Top.fn, out |-> Failure(Top.fn)]
  BY DEF RollbackTo, Returns
<1>2. Top.fn \in {"nil", "err", "panic"}
  BY <1>1, RunningCall DEF IInv, Frame, TypeOK
<1>3. /\ Alive' = Alive /\ AbsSaved # <<>> /\ Len(AbsSaved) > 1
      /\ AbsSaved' = SubSeq(AbsSaved, 1, Len(AbsSaved) - 1)
      /\ AbsDoomed' = AbsDoomed /\ AbsDoomed = ~Alive
      /\ AbsSaved[Len(AbsSaved)] = IF Alive THEN Top.entry ELSE db
  BY <1>1, NestedPop
<1>4. AbsCur' = AbsSaved[Len(AbsSaved)]
  <2>1. CASE ~Alive
    BY <1>1, <1>3, <2>1 DEF AbsCur
  <2>2. CASE Alive
    <3>1. tx = "open" /\ Sendable(Top)
      <4>1. Top.cancelled = frames[1].cancelled
        BY <1>1, RunningCall DEF IInv, FramesNested, Top
      <4> QED
        BY <2>2, <4>1 DEF Alive, Sendable
    <3>2. /\ Named(Top.depth) # {}
          /\ sps[Newest(Top.depth)] = [name |-> Top.depth, snap |-> Top.entry]
      BY <1>1, <3>1, OwnSavepoint
    <3>3. work' = sps[Newest(Top.depth)].snap
      BY <3>1, <3>2 DEF RollbackTo
    <3> QED
      BY <1>3, <2>2, <3>2, <3>3 DEF AbsCur
  <2> QED
    BY <2>1, <2>2
<1>5. AbsDoomed' = (AbsDoomed /\ Len(AbsSaved) > 1)
  BY <1>3
<1>6. Abstract!Fail(Top.fn)
  BY <1>1, <1>3, <1>4, <1>5 DEF Abstract!Fail, Abstract!Front, Abstract!Failure, Failure
<1> QED
  BY <1>2, <1>6

\* What the outermost call leaves behind when it returns.
LEMMA OuterPop ==
    ASSUME IInv, IInv', Len(frames) = 1, frames' = Pop, EndTx("none")
    PROVE  /\ AbsSaved' = SubSeq(AbsSaved, 1, Len(AbsSaved) - 1)
           /\ Len(AbsSaved) = 1 /\ AbsSaved # <<>> /\ AbsSaved' = <<>>
           /\ AbsDoomed' = FALSE
           /\ AbsCur' = db'
           /\ AbsSaved[1] = db /\ AbsDoomed = ~Alive
<1>1. AbsState /\ AbsState'
  BY Mapped, MappedNext
<1>2. frames # <<>>
  BY RunningCall DEF IInv
<1>3. Len(frames') = 0
  BY <1>2, PopFrame DEF IInv
<1>4. AbsCur' = db'
  BY DEF AbsCur, EndTx
<1>5. AbsSaved[1] = db
  BY <1>1, <1>2 DEF AbsState, IInv, ConnectionMatches, Alive
<1> QED
  BY <1>1, <1>2, <1>3, <1>4, <1>5, SavedEmptied DEF AbsDoomed

\* Commit is Succeed and CommitAckLost is CommitUnknown.
LEMMA CommitMaps ==
    ASSUME IInv, IInv', Commit \/ CommitAckLost
    PROVE  Abstract!Succeed \/ Abstract!CommitUnknown
<1>1. /\ Len(frames) = 1 /\ frames' = Pop /\ db' = work /\ EndTx("none")
      /\ tx = "open" /\ ~Top.cancelled
  BY DEF Commit, CommitAckLost, Returns, Usable, Sendable
<1>2. Alive /\ AbsCur = work
  BY <1>1 DEF Alive, Top, AbsCur
<1>3. /\ AbsSaved' = SubSeq(AbsSaved, 1, Len(AbsSaved) - 1)
      /\ Len(AbsSaved) = 1 /\ AbsSaved # <<>> /\ AbsSaved' = <<>>
      /\ AbsDoomed' = FALSE /\ AbsCur' = db' /\ AbsDoomed = FALSE
  BY <1>1, <1>2, OuterPop
<1>4. CASE Commit
  BY <1>1, <1>2, <1>3, <1>4 DEF Commit, Returns, Abstract!Succeed, Abstract!Front
<1>5. CASE CommitAckLost
  BY <1>1, <1>2, <1>3, <1>5 DEF CommitAckLost, Returns, Abstract!CommitUnknown
<1> QED
  BY <1>4, <1>5

\* Rollback is Fail.
LEMMA RollbackMaps ==
    ASSUME IInv, IInv', Rollback
    PROVE  \E fn \in {"nil", "err", "panic"} : Abstract!Fail(fn)
<1>1. /\ Len(frames) = 1 /\ frames' = Pop /\ db' = db /\ EndTx("none")
      /\ ret' = [fn |-> Top.fn, out |-> Failure(Top.fn)]
  BY DEF Rollback, Returns
<1>2. Top.fn \in {"nil", "err", "panic"}
  BY <1>1, RunningCall DEF IInv, Frame
<1>3. /\ AbsSaved' = SubSeq(AbsSaved, 1, Len(AbsSaved) - 1)
      /\ Len(AbsSaved) = 1 /\ AbsSaved # <<>>
      /\ AbsDoomed' = FALSE /\ AbsCur' = db' /\ AbsSaved[1] = db
  BY <1>1, OuterPop
<1>4. AbsDoomed' = (AbsDoomed /\ Len(AbsSaved) > 1)
  <2>1. ~(Len(AbsSaved) > 1)
    BY <1>3
  <2> QED
    BY <1>3, <2>1, Zenon
<1>5. AbsCur' = AbsSaved[Len(AbsSaved)]
  BY <1>1, <1>3
<1>6. Abstract!Fail(Top.fn)
  BY <1>1, <1>3, <1>4, <1>5
     DEF Abstract!Fail, Abstract!Front, Abstract!Failure, Failure
<1> QED
  BY <1>2, <1>6

\* TxLost is Doom, or a stutter where the context was cancelled before.
LEMMA TxLostMaps ==
    ASSUME IInv, IInv', TxLost
    PROVE  Abstract!Doom \/ UNCHANGED Abstract!vars
<1>1. AbsState /\ AbsState'
  BY Mapped, MappedNext
<1>2. tx = "open" /\ tx' = "done" /\ UNCHANGED <<db, frames, ret>>
  BY DEF TxLost, EndTx
<1>3. frames # <<>> /\ ~Alive'
  BY <1>2 DEF IInv, ConnectionMatches, Alive
<1>4. CASE Alive
  BY <1>1, <1>2, <1>3, <1>4, SavedDoomed
<1>5. CASE ~Alive
  <2>1. AbsSaved' = AbsSaved /\ AbsDoomed' = AbsDoomed
    <3>1. Alive' = Alive
      BY <1>3, <1>5 DEF Alive
    <3> QED
      BY <1>1, <1>2, <3>1, SavedKept
  <2> QED
    BY <1>2, <1>3, <1>5, <2>1 DEF Abstract!vars, AbsCur
<1> QED
  BY <1>4, <1>5

\* Cancel is Doom while a transaction is open, else a stutter.
LEMMA CancelMaps ==
    ASSUME IInv, IInv', OwnContexts, NEW i \in 1 .. Len(frames), Cancel(i)
    PROVE  Abstract!Doom \/ UNCHANGED Abstract!vars
<1>1. AbsState /\ AbsState'
  BY Mapped, MappedNext
<1>2. i = 1 /\ UNCHANGED <<db, tx, work, ret>>
  BY DEF Cancel, OwnContexts, conn
<1>3. Len(frames) \in Nat /\ Len(frames) >= 1 /\ frames # <<>>
      /\ \A j \in 1 .. Len(frames) : frames[j] \in Frame
  BY RunningCall, ElementOfSeq DEF IInv, TypeOK
<1>4. frames' = [j \in 1 .. Len(frames) |-> [frames[j] EXCEPT !.cancelled = TRUE]]
  BY <1>2, <1>3 DEF Cancel
<1>5. frames' \in [1 .. Len(frames) -> Frame]
  BY <1>3, <1>4 DEF Frame
<1>6. Len(frames') = Len(frames)
  BY <1>3, <1>5, SeqDef, LenProperties
<1>7. /\ \A j \in 1 .. Len(frames) : frames'[j].entry = frames[j].entry
      /\ frames'[1].cancelled = TRUE
  <2>1. \A j \in 1 .. Len(frames) :
           frames'[j] = [frames[j] EXCEPT !.cancelled = TRUE]
    BY <1>4
  <2>2. 1 \in 1 .. Len(frames)
    BY <1>3
  <2> QED
    BY <1>3, <2>1, <2>2, ZenonT(60) DEF Frame
<1>8. ~Alive'
  BY <1>7 DEF Alive
<1>9. CASE Alive
  BY <1>1, <1>2, <1>3, <1>6, <1>8, <1>9, SavedDoomed
<1>10. CASE ~Alive
  <2>1. AbsSaved' = AbsSaved /\ AbsDoomed' = AbsDoomed
    <3>1. Alive' = Alive
      BY <1>8, <1>10 DEF Alive
    <3> QED
      BY <1>1, <1>2, <1>6, <1>7, <3>1, SavedKept
  <2> QED
    BY <1>2, <1>8, <1>10, <2>1 DEF Abstract!vars, AbsCur
<1> QED
  BY <1>9, <1>10

\* CommitFails is Doom or a stutter.
LEMMA CommitFailsMaps ==
    ASSUME IInv, IInv', CommitFails
    PROVE  Abstract!Doom \/ UNCHANGED Abstract!vars
<1> DEFINE f == [Top EXCEPT !.pc = "unwinding"]
<1>1. AbsState /\ AbsState'
  BY Mapped, MappedNext
<1>2. frames # <<>> /\ Top \in Frame /\ Len(frames) = 1
  <2>1. Len(frames) = 1
    BY DEF CommitFails
  <2>2. Len(frames) >= 1
    BY <2>1
  <2> QED
    BY <2>1, <2>2, RunningCall DEF IInv
<1>3. f \in Frame /\ f.depth = Top.depth /\ f.cancelled = Top.cancelled
      /\ f.entry = Top.entry
  BY <1>2 DEF Frame
<1>4. frames' = WithTop(f) /\ UNCHANGED <<db, ret>>
  BY DEF CommitFails
<1>5. CASE UNCHANGED conn
  BY <1>2, <1>3, <1>4, <1>5, TopMaps DEF conn
<1>6. CASE Sendable(Top) /\ EndTx("done")
  <2>1. Alive /\ ~Alive'
    BY <1>2, <1>6 DEF Sendable, EndTx, Alive, Top
  <2>2. Len(frames') = Len(frames)
    BY <1>2, <1>3, <1>4, ReplaceTop DEF IInv
  <2> QED
    BY <1>1, <1>2, <1>4, <2>1, <2>2, SavedDoomed
<1> QED
  BY <1>5, <1>6 DEF CommitFails

\* FnReturns is a stutter.
LEMMA FnReturnsMaps ==
    ASSUME IInv, IInv', NEW fn \in {"nil", "err", "panic"}, FnReturns(fn)
    PROVE  UNCHANGED Abstract!vars
<1> DEFINE f == [Top EXCEPT !.fn = fn,
                     !.pc = IF fn = "nil" THEN "closing" ELSE "unwinding"]
<1>1. Top \in Frame
  BY RunningCall DEF IInv, FnReturns
<1>2. f \in Frame /\ f.depth = Top.depth /\ f.cancelled = Top.cancelled
      /\ f.entry = Top.entry
  BY <1>1 DEF Frame
<1> QED
  BY <1>2, TopMaps DEF FnReturns, conn

\* ReleaseFails is a stutter.
LEMMA ReleaseFailsMaps ==
    ASSUME IInv, IInv', ReleaseFails
    PROVE  UNCHANGED Abstract!vars
<1> DEFINE f == [Top EXCEPT !.pc = "unwinding"]
<1>1. frames # <<>> /\ Top \in Frame
  <2>1. Len(frames) >= 1
    BY LenProperties DEF IInv, TypeOK, ReleaseFails
  <2> QED
    BY <2>1, RunningCall DEF IInv
<1>2. f \in Frame /\ f.depth = Top.depth /\ f.cancelled = Top.cancelled
      /\ f.entry = Top.entry
  BY <1>1 DEF Frame
<1> QED
  BY <1>1, <1>2, TopMaps DEF ReleaseFails

-----------------------------------------------------------------------------
(* The theorem                                                             *)

\* Initial states map to initial states.
LEMMA InitMaps == Init => Abstract!Init
<1> SUFFICES ASSUME Init PROVE Abstract!Init
  OBVIOUS
<1>1. AbsState
  BY IInvInit, Mapped
<1> QED
  BY <1>1 DEF Init, Abstract!Init, AbsState, AbsDoomed, AbsCur

\* Every step maps to a step of NestedTx or to a stutter.
LEMMA StepMaps ==
    ASSUME IInv, IInv', OwnContexts, [Next]_vars
    PROVE  [Abstract!Next]_(Abstract!vars)
<1>1. CASE \E rows \in SUBSET Row : Statement(rows)
  BY <1>1, StatementMaps
<1>2. CASE StatementFails \/ UNCHANGED vars
  <2>1. UNCHANGED <<db, ret, tx, work, frames>>
    BY <1>2 DEF StatementFails, vars, conn
  <2> QED
    BY <2>1, Stutters, Mapped, MappedNext
<1>3. CASE \E fn \in {"nil", "err", "panic"} : FnReturns(fn)
  BY <1>3, FnReturnsMaps
<1>4. CASE AtomicBegin \/ \E i \in 1 .. Len(frames) : AtomicSavepoint(i)
  BY <1>4, BeginMaps, SavepointMaps DEF Abstract!Next
<1>5. CASE AtomicRefused
  <2>1. UNCHANGED <<db, tx, work, frames>> /\ ret' = [fn |-> "notrun", out |-> "err"]
    BY <1>5 DEF AtomicRefused, conn
  <2>2. Alive' = Alive /\ AbsSaved' = AbsSaved /\ AbsDoomed' = AbsDoomed
    BY <2>1 DEF Alive, AbsSaved, AbsDoomed
  <2>3. Abstract!Refuse
    BY <2>1, <2>2 DEF Abstract!Refuse, AbsCur
  <2> QED
    BY <2>3 DEF Abstract!Next
<1>6. CASE Release
  BY <1>6, ReleaseMaps DEF Abstract!Next
<1>7. CASE ReleaseFails
  BY <1>7, ReleaseFailsMaps
<1>8. CASE RollbackTo \/ Rollback
  BY <1>8, RollbackToMaps, RollbackMaps DEF Abstract!Next
<1>9. CASE Commit \/ CommitAckLost
  BY <1>9, CommitMaps DEF Abstract!Next
<1>10. CASE CommitFails
  BY <1>10, CommitFailsMaps DEF Abstract!Next
<1>11. CASE TxLost \/ \E i \in 1 .. Len(frames) : Cancel(i)
  BY <1>11, TxLostMaps, CancelMaps DEF Abstract!Next
<1> QED
  BY <1>1, <1>2, <1>3, <1>4, <1>5, <1>6, <1>7, <1>8, <1>9, <1>10, <1>11 DEF Next

\* Nested calls of Atomic over one connection behave like the nested blocks of
\* NestedTx: an outermost call publishes all of its block or nothing, a failed
\* call leaves no trace, and an error comes back for published rows only when
\* the answer to COMMIT was lost.
THEOREM Implementation ==
    ASSUME OwnContexts
    PROVE  Spec => ImplementsNestedTx
<1>1. Init => Abstract!Init
  BY InitMaps
<1>2. IInv /\ IInv' /\ [Next]_vars => [Abstract!Next]_(Abstract!vars)
  BY StepMaps
<1> QED
  BY <1>1, <1>2, Invariance, PTL DEF Spec, ImplementsNestedTx, Abstract!Spec

=============================================================================
