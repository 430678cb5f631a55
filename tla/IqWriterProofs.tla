--------------------------- MODULE IqWriterProofs ---------------------------
(***************************************************************************)
(* Proofs about IqWriter, for every set of blocks, every queue limit and   *)
(* any number of calls.  The safety properties are not inductive: they     *)
(* rest on where the writer thread can be while the other state has a      *)
(* given form, which Control and StreamState spell out.                    *)
(***************************************************************************)
EXTENDS IqWriter, SequenceTheorems, WellFoundedInduction, TLAPS

-----------------------------------------------------------------------------
(* The inductive invariant.                                                *)

Control ==
  /\ accepting <=> ~closing
  /\ accepting => MaxQueuedBlocks > 0 /\ queueOverflowCount = 0
  /\ Len(block) = IF writer \in {"write", "writeFailed", "count"} THEN 1 ELSE 0
  /\ writer \in {"flush", "flushFailed", "exited"} => closing /\ queue = <<>>
  /\ writerFailure => writer \in {"flush", "flushFailed", "exited"}
  /\ finisher # "idle" => closing
  /\ finisher = "reset" => writer = "exited"

StreamState ==
  /\ writer \in {"test", "asleep", "write", "count"} => output = "good"
  /\ writer \in {"writeFailed", "flushFailed"} => output = "bad"
  /\ writer = "flush" => output = "good" \/ (output = "bad" /\ writerFailure)
  /\ writer = "exited" /\ ~writerFailure => output # "bad"
                                            /\ durable = Len(file)

Verdict ==
  verdict # "none" => /\ writer = "exited" /\ closing
                      /\ verdict = IF writerFailure THEN "failed" ELSE "ok"

IInv ==
  /\ TypeOK /\ Control /\ StreamState /\ Verdict
  /\ NoLostWakeup /\ EveryOfferAccounted /\ InOrder
  /\ MessageNamesWriterFailure

-----------------------------------------------------------------------------
(* Sequences.                                                              *)

\* What a concatenation starts with is a prefix of it.
LEMMA PrefixOfConcat ==
  ASSUME NEW S, NEW s \in Seq(S), NEW t \in Seq(S)
  PROVE  Len(s) <= Len(s \o t) /\ s = SubSeq(s \o t, 1, Len(s))
<1>1. Len(s) \in Nat /\ Len(t) \in Nat
  BY LenProperties
<1>2. /\ s \o t \in Seq(S) /\ Len(s \o t) = Len(s) + Len(t)
      /\ \A i \in 1 .. Len(s) : (s \o t)[i] = s[i]
  BY <1>1, ConcatProperties
<1>3. \A i \in 1 .. Len(s) : (s \o t)[i] \in S
  BY <1>2, ElementOfSeq
<1>4. /\ SubSeq(s \o t, 1, Len(s)) \in Seq(S)
      /\ Len(SubSeq(s \o t, 1, Len(s))) = Len(s)
      /\ \A i \in 1 .. Len(s) : SubSeq(s \o t, 1, Len(s))[i] = (s \o t)[i]
  <2>. DEFINE u == s \o t
  <2>1. /\ SubSeq(u, 1, Len(s)) \in Seq(S)
        /\ Len(SubSeq(u, 1, Len(s)))
             = IF 1 <= Len(s) THEN Len(s) - 1 + 1 ELSE 0
        /\ \A i \in 1 .. Len(s) - 1 + 1 :
             SubSeq(u, 1, Len(s))[i] = u[1 + i - 1]
    <3>. HIDE DEF u
    <3>. QED BY <1>1, <1>3, SubSeqProperties DEF u
  <2>. QED BY <1>1, <2>1
<1>5. s = SubSeq(s \o t, 1, Len(s))
  BY <1>2, <1>4, SeqEqual
<1>. QED BY <1>1, <1>2, <1>5

\* A sequence that is not empty is its head and its tail.
LEMMA HeadAndTail ==
  ASSUME NEW S, NEW t \in Seq(S), t # <<>>
  PROVE  t = <<Head(t)>> \o Tail(t)
<1>. DEFINE u == <<Head(t)>> \o Tail(t)
<1>1. Head(t) \in S /\ Tail(t) \in Seq(S) /\ <<Head(t)>> \in Seq(S)
  BY HeadTailProperties
<1>2. /\ u \in Seq(S) /\ Len(u) = Len(<<Head(t)>>) + Len(Tail(t))
      /\ \A i \in 1 .. Len(<<Head(t)>>) + Len(Tail(t)) :
           u[i] = IF i <= Len(<<Head(t)>>) THEN <<Head(t)>>[i]
                  ELSE Tail(t)[i - Len(<<Head(t)>>)]
  BY <1>1, ConcatProperties
<1>3. /\ Len(t) \in Nat \ {0} /\ Len(Tail(t)) = Len(t) - 1
      /\ \A i \in 1 .. Len(Tail(t)) : Tail(t)[i] = t[i + 1]
  BY HeadTailProperties, EmptySeq
<1>4. Len(<<Head(t)>>) = 1 /\ <<Head(t)>>[1] = t[1]
  BY <1>3
<1>. HIDE DEF u
<1>5. Len(u) = Len(t) /\ \A i \in 1 .. Len(t) : t[i] = u[i]
  BY <1>2, <1>3, <1>4
<1>6. t = u
  BY <1>2, <1>5, SeqEqual
<1>. QED BY <1>6 DEF u

\* Taking the head of the second of two sequences to the end of the first.
LEMMA MoveHead ==
  ASSUME NEW S, NEW s \in Seq(S), NEW t \in Seq(S), t # <<>>,
         NEW h, h = <<Head(t)>>, NEW r, r = Tail(t)
  PROVE  s \o t = (s \o h) \o r
<1>1. h \in Seq(S) /\ r \in Seq(S)
  BY HeadTailProperties
<1>2. t = h \o r
  BY HeadAndTail
<1>. QED BY <1>1, <1>2, ConcatAssociative

\* A prefix of a sequence is one of the longer sequence.
LEMMA PrefixOfAppend ==
  ASSUME NEW S, NEW s \in Seq(S), NEW t \in Seq(S), NEW e \in S,
         Len(s) <= Len(t), s = SubSeq(t, 1, Len(s))
  PROVE  Len(s) <= Len(Append(t, e)) /\ s = SubSeq(Append(t, e), 1, Len(s))
<1>1. /\ Len(s) \in Nat /\ Len(t) \in Nat /\ <<e>> \in Seq(S)
      /\ Append(t, e) = t \o <<e>> /\ Len(Append(t, e)) = Len(t) + 1
  BY LenProperties, AppendIsConcat, AppendProperties
<1>2. CASE Len(s) = 0
  BY <1>1, <1>2, SubSeqEmpty
<1>3. CASE Len(s) # 0
  <2>1. SubSeq(t \o <<e>>, 1, Len(s)) = SubSeq(t, 1, Len(s))
    BY <1>1, <1>3, SubSeqOfConcat1
  <2>. QED BY <1>1, <2>1
<1>. QED BY <1>2, <1>3

\* Concatenating a sequence of one element appends that element.
LEMMA ConcatOne ==
  ASSUME NEW S, NEW s \in Seq(S), NEW t \in Seq(S), Len(t) = 1
  PROVE  /\ s \o t = Append(s, t[1]) /\ s \o t \in Seq(S)
         /\ Len(s \o t) = Len(s) + 1 /\ (s \o t)[Len(s) + 1] = t[1]
<1>. DEFINE u == s \o t
<1>1. Len(s) \in Nat /\ t[1] \in S
  <2>1. 1 \in 1 .. Len(t)
    OBVIOUS
  <2>. QED BY <2>1, LenProperties, ElementOfSeq
<1>2. /\ u \in Seq(S) /\ Len(u) = Len(s) + Len(t)
      /\ \A i \in 1 .. Len(s) + Len(t) :
           u[i] = IF i <= Len(s) THEN s[i] ELSE t[i - Len(s)]
  BY ConcatProperties
<1>. HIDE DEF u
<1>3. u = Append(s, t[1])
  BY <1>1, <1>2, AppendProperties, SeqEqual
<1>4. Len(u) = Len(s) + 1 /\ u[Len(s) + 1] = t[1]
  BY <1>1, <1>2
<1>. QED BY <1>2, <1>3, <1>4 DEF u

-----------------------------------------------------------------------------
(* The samples in a sequence of blocks.  SamplesIn is a recursive function *)
(* of the length of a prefix; that such a function exists, and that those  *)
(* of a sequence and of its continuation agree, is shown by taking the     *)
(* least length at which it would not be so.                               *)

\* The function that SamplesIn adds up with.
Adds(sum, blocks, n) == IF n = 0 THEN 0 ELSE sum[n - 1] + Samples[blocks[n]]

\* Every sequence of blocks has such a function.
LEMMA SumExists ==
  ASSUME NEW blocks \in Seq(Blocks)
  PROVE  \E sum : sum = [n \in 0 .. Len(blocks) |-> Adds(sum, blocks, n)]
<1>. DEFINE Solved(m) == \E sum : sum = [n \in 0 .. m |-> Adds(sum, blocks, n)]
            Unsolved == {m \in Nat : ~Solved(m)}
            R == OpToRel(<, Nat)
<1>1. Solved(0)
  <2>. DEFINE sum == [n \in 0 .. 0 |-> 0]
  <2>1. sum = [n \in 0 .. 0 |-> Adds(sum, blocks, n)]
    BY DEF Adds
  <2>. QED BY <2>1
<1>2. ASSUME NEW m \in Nat, Solved(m)
      PROVE  Solved(m + 1)
  <2>1. PICK sum : sum = [n \in 0 .. m |-> Adds(sum, blocks, n)]
    BY <1>2
  <2>. DEFINE more == [n \in 0 .. m + 1 |-> Adds(sum, blocks, n)]
  <2>2. \A n \in 0 .. m : more[n] = sum[n]
    <3>1. \A n \in 0 .. m : n \in 0 .. m + 1
      OBVIOUS
    <3>2. \A n \in 0 .. m : sum[n] = Adds(sum, blocks, n)
      BY <2>1, Zenon
    <3>. QED BY <3>1, <3>2
  <2>3. ASSUME NEW n \in 0 .. m + 1
        PROVE  Adds(sum, blocks, n) = Adds(more, blocks, n)
    <3>1. n # 0 => n - 1 \in 0 .. m
      OBVIOUS
    <3>. HIDE DEF more
    <3>. QED BY <2>2, <3>1 DEF Adds
  <2>4. more = [n \in 0 .. m + 1 |-> Adds(more, blocks, n)]
    BY <2>3, Zenon
  <2>. QED BY <2>4
<1>. HIDE DEF Solved
<1>3. Unsolved = {}
  <2>. SUFFICES ASSUME Unsolved # {} PROVE FALSE
    OBVIOUS
  <2>1. \A m, n \in Nat : m < n => <<m, n>> \in R
    BY DEF OpToRel
  <2>2. IsWellFoundedOn(R, Nat) /\ Unsolved \subseteq Nat
    BY NatLessThanWellFounded
  <2>. HIDE DEF R
  <2>3. PICK n \in Unsolved : \A m \in Unsolved : <<m, n>> \notin R
    BY <2>2, WFMin
  <2>4. n \in Nat \ {0}
    BY <1>1
  <2>5. Solved(n - 1)
    <3>1. n - 1 \in Nat /\ n - 1 < n
      BY <2>4
    <3>2. n - 1 \notin Unsolved
      BY <2>1, <2>3, <2>4, <3>1
    <3>. QED BY <3>1, <3>2
  <2>. QED BY <1>2, <2>4, <2>5
<1>4. Len(blocks) \in Nat
  BY LenProperties
<1>. QED BY <1>3, <1>4 DEF Solved

\* What SamplesIn returns is such a function's value for the whole sequence.
LEMMA SumOf ==
  ASSUME NEW blocks \in Seq(Blocks)
  PROVE  \E sum : /\ SamplesIn(blocks) = sum[Len(blocks)]
                  /\ sum[0] = 0
                  /\ \A n \in 1 .. Len(blocks) :
                       sum[n] = sum[n - 1] + Samples[blocks[n]]
<1>1. Len(blocks) \in Nat
  BY LenProperties
<1>2. PICK sum : /\ sum = [n \in 0 .. Len(blocks) |-> Adds(sum, blocks, n)]
                 /\ SamplesIn(blocks) = sum[Len(blocks)]
  BY SumExists DEF SamplesIn, Adds
<1>3. \A n \in 0 .. Len(blocks) : sum[n] = Adds(sum, blocks, n)
  BY <1>2, Zenon
<1>4. sum[0] = 0
  BY <1>1, <1>3 DEF Adds
<1>5. \A n \in 1 .. Len(blocks) : sum[n] = sum[n - 1] + Samples[blocks[n]]
  BY <1>1, <1>3 DEF Adds
<1>. QED BY <1>2, <1>4, <1>5

\* Two functions that add up the same blocks agree.
LEMMA SumsAgree ==
  ASSUME NEW blocks \in Seq(Blocks), NEW f, NEW g, f[0] = 0, g[0] = 0,
         \A n \in 1 .. Len(blocks) : f[n] = f[n - 1] + Samples[blocks[n]],
         \A n \in 1 .. Len(blocks) : g[n] = g[n - 1] + Samples[blocks[n]]
  PROVE  f[Len(blocks)] = g[Len(blocks)] /\ f[Len(blocks)] \in Nat
<1>. DEFINE m == Len(blocks)
            Agree(n) == f[n] = g[n] /\ f[n] \in Nat
            Differ == {n \in Nat : n <= m /\ ~Agree(n)}
            R == OpToRel(<, Nat)
<1>0. m \in Nat
  BY LenProperties
<1>1. Differ = {}
  <2>. SUFFICES ASSUME Differ # {} PROVE FALSE
    OBVIOUS
  <2>1. \A k, n \in Nat : k < n => <<k, n>> \in R
    BY DEF OpToRel
  <2>2. IsWellFoundedOn(R, Nat) /\ Differ \subseteq Nat
    BY NatLessThanWellFounded
  <2>. HIDE DEF R
  <2>3. PICK n \in Differ : \A k \in Differ : <<k, n>> \notin R
    BY <2>2, WFMin
  <2>4. n \in Nat /\ n <= m /\ ~Agree(n)
    BY <2>3
  <2>5. n # 0
    BY <2>4
  <2>6. n - 1 \in Nat /\ n - 1 < n /\ n - 1 <= m /\ n \in 1 .. m
    BY <1>0, <2>4, <2>5
  <2>7. Agree(n - 1)
    BY <2>1, <2>3, <2>4, <2>6
  <2>8. Samples[blocks[n]] \in Nat
    <3>1. n \in 1 .. Len(blocks)
      BY <2>6, LenProperties
    <3>2. blocks[n] \in Blocks
      BY <3>1, ElementOfSeq
    <3>. QED BY <3>2, WriterAssumption
  <2>9. /\ f[n] = f[n - 1] + Samples[blocks[n]]
        /\ g[n] = g[n - 1] + Samples[blocks[n]]
    BY <2>6
  <2>. QED BY <2>4, <2>7, <2>8, <2>9
<1>2. m <= m
  BY <1>0
<1>. HIDE DEF Agree, m
<1>3. Agree(m)
  BY <1>0, <1>1, <1>2
<1>. QED BY <1>3 DEF Agree, m

\* The number of samples is a number, and one more block adds its own.
LEMMA SamplesOfAppend ==
  ASSUME NEW s \in Seq(Blocks), NEW b \in Blocks
  PROVE  /\ SamplesIn(s) \in Nat
         /\ SamplesIn(Append(s, b)) = SamplesIn(s) + Samples[b]
<1>. DEFINE t == Append(s, b)
<1>1. /\ t \in Seq(Blocks) /\ Len(s) \in Nat /\ Len(t) = Len(s) + 1
      /\ t[Len(s) + 1] = b /\ \A n \in 1 .. Len(s) : t[n] = s[n]
  BY AppendProperties, LenProperties
<1>. HIDE DEF t
<1>2. PICK f : /\ SamplesIn(s) = f[Len(s)] /\ f[0] = 0
               /\ \A n \in 1 .. Len(s) : f[n] = f[n - 1] + Samples[s[n]]
  BY SumOf
<1>3. PICK g : /\ SamplesIn(t) = g[Len(t)] /\ g[0] = 0
               /\ \A n \in 1 .. Len(t) : g[n] = g[n - 1] + Samples[t[n]]
  <2>1. t \in Seq(Blocks)
    BY <1>1
  <2>. QED BY ONLY <2>1, SumOf
<1>4. ASSUME NEW n \in 1 .. Len(s)
      PROVE  g[n] = g[n - 1] + Samples[s[n]]
  <2>1. n \in 1 .. Len(t) /\ t[n] = s[n]
    BY <1>1
  <2>. QED BY <1>3, <2>1
<1>5. f[Len(s)] = g[Len(s)] /\ f[Len(s)] \in Nat
  BY <1>2, <1>3, <1>4, SumsAgree
<1>6. g[Len(s) + 1] = g[Len(s)] + Samples[b]
  BY <1>1, <1>3
<1>. QED BY <1>1, <1>2, <1>3, <1>5, <1>6 DEF t

\* No block holds no samples.
LEMMA SamplesOfNone == SamplesIn(<<>>) = 0
<1>1. <<>> \in Seq(Blocks) /\ Len(<<>>) = 0
  BY EmptySeq
<1>. QED BY <1>1, SumOf

\* A sequence of one block holds its samples, wherever it is appended.
LEMMA SamplesOfOne ==
  ASSUME NEW s \in Seq(Blocks), NEW t \in Seq(Blocks), Len(t) = 1
  PROVE  /\ SamplesIn(t) = Samples[Head(t)] /\ Samples[Head(t)] \in Nat
         /\ SamplesIn(s \o t) = SamplesIn(s) + Samples[Head(t)]
<1>1. t[1] \in Blocks /\ Head(t) = t[1]
  <2>1. 1 \in 1 .. Len(t)
    OBVIOUS
  <2>2. t # <<>>
    BY EmptySeq
  <2>. QED BY <2>1, <2>2, ElementOfSeq, HeadTailProperties
<1>2. Samples[t[1]] \in Nat
  BY <1>1, WriterAssumption
<1>3. s \o t = Append(s, t[1])
  BY ConcatOne
<1>4. t = Append(<<>>, t[1])
  <2>1. <<>> \in Seq(Blocks) /\ <<>> \o t = t
    BY EmptySeq, ConcatEmptySeq
  <2>2. <<>> \o t = Append(<<>>, t[1])
    BY <2>1, ConcatOne
  <2>. QED BY <2>1, <2>2
<1>5. SamplesIn(t) = 0 + Samples[t[1]]
  <2>1. <<>> \in Seq(Blocks)
    BY EmptySeq
  <2>2. SamplesIn(Append(<<>>, t[1])) = SamplesIn(<<>>) + Samples[t[1]]
    BY <1>1, <2>1, SamplesOfAppend
  <2>. QED BY <1>4, <2>2, SamplesOfNone
<1>6. SamplesIn(s \o t) = SamplesIn(s) + Samples[t[1]]
  BY <1>1, <1>3, SamplesOfAppend
<1>. QED BY <1>1, <1>2, <1>5, <1>6

-----------------------------------------------------------------------------
(* Each part of the invariant is preserved by every step.                  *)

USE WriterAssumption
    DEF guarded, counts, thread, stream, caller, history, vars, Notify,
        QueueIsFull

\* The Boolean variables are only ever assigned Boolean values.
LEMMA FlagsStep == ASSUME FlagsOK, [Next]_vars PROVE FlagsOK'
<1>. USE DEF FlagsOK
<1>1. CASE Enqueue
  BY <1>1, Zenon DEF Enqueue, EnqueueRejected, EnqueueQueueFull,
     EnqueueAccepted, EnqueueThrows
<1>2. CASE WriterLoop \/ SpuriousWakeup
  BY <1>2, Zenon DEF WriterLoop, Sleep, TakeBlock, Drained, WriteSucceeds,
     WriteFails, CountWritten, FlushSucceeds, FlushFails, RecordWriteFailure,
     RecordFlushFailure, RecordWriterFailure, SpuriousWakeup
<1>3. CASE FinishClose \/ Finish
  BY <1>3, Zenon DEF FinishClose, Finish, FinishNotify, FinishJoin,
     FinishReset
<1>4. CASE UNCHANGED vars
  BY <1>4, Zenon
<1>. QED
  BY <1>1, <1>2, <1>3, <1>4 DEF Next, Done

\* Every step preserves the types; the queue grows only below its limit.
LEMMA TypeStep == ASSUME IInv, [Next]_vars PROVE TypeOK'
<1>. USE DEF IInv, TypeOK
<1>a. FlagsOK'
  BY FlagsStep
<1>b. accepting => queueOverflowCount = 0
  BY DEF Control
<1>. USE <1>a, <1>b
<1>1. CASE EnqueueRejected
  BY <1>1 DEF EnqueueRejected
<1>2. ASSUME NEW allocates \in BOOLEAN, EnqueueQueueFull(allocates)
      PROVE  TypeOK'
  <2>1. CASE allocates
    BY <1>2, <2>1 DEF EnqueueQueueFull
  <2>2. CASE ~allocates
    BY <1>2, <2>2 DEF EnqueueQueueFull
  <2>. QED BY <2>1, <2>2
<1>3. ASSUME NEW b \in Blocks, EnqueueAccepted(b)
      PROVE  TypeOK'
  BY <1>3, AppendProperties DEF EnqueueAccepted
<1>4. ASSUME NEW b \in Blocks, EnqueueThrows(b)
      PROVE  TypeOK'
  BY <1>4 DEF EnqueueThrows
<1>5. CASE Sleep \/ SpuriousWakeup \/ Drained
  BY <1>5 DEF Sleep, SpuriousWakeup, Drained
<1>6. CASE TakeBlock
  BY <1>6, HeadTailProperties DEF TakeBlock
<1>7. CASE WriteSucceeds
  BY <1>7, ConcatProperties DEF WriteSucceeds
<1>8. CASE WriteFails
  BY <1>8 DEF WriteFails
<1>9. CASE CountWritten
  <2>1. Head(block) \in Blocks
    <3>1. block \in Seq(Blocks) /\ Len(block) = 1
      BY <1>9 DEF CountWritten, Control
    <3>. QED BY ONLY <3>1, EmptySeq, HeadTailProperties
  <2>. QED BY <1>9, <2>1 DEF CountWritten
<1>10. CASE RecordWriteFailure
  <2>1. CASE writerFailure
    BY <1>10, <2>1 DEF RecordWriteFailure, RecordWriterFailure
  <2>2. CASE ~writerFailure
    BY <1>10, <2>2 DEF RecordWriteFailure, RecordWriterFailure
  <2>. QED BY <2>1, <2>2
<1>11. CASE RecordFlushFailure
  <2>1. CASE writerFailure
    BY <1>11, <2>1 DEF RecordFlushFailure, RecordWriterFailure
  <2>2. CASE ~writerFailure
    BY <1>11, <2>2 DEF RecordFlushFailure, RecordWriterFailure
  <2>. QED BY <2>1, <2>2
<1>12. CASE FlushSucceeds
  BY <1>12 DEF FlushSucceeds
<1>13. CASE FlushFails
  BY <1>13 DEF FlushFails
<1>14. CASE FinishClose
  BY <1>14 DEF FinishClose
<1>15. CASE FinishNotify
  BY <1>15 DEF FinishNotify
<1>16. CASE FinishJoin
  BY <1>16 DEF FinishJoin
<1>17. CASE FinishReset
  BY <1>17 DEF FinishReset
<1>18. CASE UNCHANGED vars
  BY <1>18
<1>. QED
  BY <1>1, <1>2, <1>3, <1>4, <1>5, <1>6, <1>7, <1>8, <1>9, <1>10, <1>11,
     <1>12, <1>13, <1>14, <1>15, <1>16, <1>17, <1>18
     DEF Next, Enqueue, WriterLoop, Finish, Done

\* Every step keeps the threads where the guarded state lets them be.
LEMMA ControlStep == ASSUME IInv, [Next]_vars PROVE Control'
<1>. USE DEF IInv, TypeOK, FlagsOK, Control
<1>1. CASE EnqueueRejected
  BY <1>1 DEF EnqueueRejected
<1>2. ASSUME NEW allocates \in BOOLEAN, EnqueueQueueFull(allocates)
      PROVE  Control'
  BY <1>2 DEF EnqueueQueueFull
<1>3. ASSUME NEW b \in Blocks, EnqueueAccepted(b)
      PROVE  Control'
  BY <1>3 DEF EnqueueAccepted
<1>4. ASSUME NEW b \in Blocks, EnqueueThrows(b)
      PROVE  Control'
  BY <1>4 DEF EnqueueThrows
<1>5. CASE Sleep
  BY <1>5 DEF Sleep
<1>6. CASE SpuriousWakeup
  BY <1>6 DEF SpuriousWakeup
<1>7. CASE TakeBlock
  BY <1>7 DEF TakeBlock
<1>8. CASE Drained
  BY <1>8 DEF Drained
<1>9. CASE WriteSucceeds
  BY <1>9 DEF WriteSucceeds
<1>10. CASE WriteFails
  BY <1>10 DEF WriteFails
<1>11. CASE CountWritten
  BY <1>11 DEF CountWritten
<1>12. CASE RecordWriteFailure
  BY <1>12 DEF RecordWriteFailure, RecordWriterFailure
<1>13. CASE FlushSucceeds
  BY <1>13 DEF FlushSucceeds
<1>14. CASE FlushFails
  BY <1>14 DEF FlushFails
<1>15. CASE RecordFlushFailure
  BY <1>15 DEF RecordFlushFailure, RecordWriterFailure
<1>16. CASE FinishClose
  BY <1>16 DEF FinishClose
<1>17. CASE FinishNotify
  BY <1>17 DEF FinishNotify
<1>18. CASE FinishJoin
  BY <1>18 DEF FinishJoin
<1>19. CASE FinishReset
  BY <1>19 DEF FinishReset
<1>20. CASE UNCHANGED vars
  BY <1>20
<1>. QED
  BY <1>1, <1>2, <1>3, <1>4, <1>5, <1>6, <1>7, <1>8, <1>9, <1>10, <1>11,
     <1>12, <1>13, <1>14, <1>15, <1>16, <1>17, <1>18, <1>19, <1>20
     DEF Next, Enqueue, WriterLoop, Finish, Done

\* Only the writer thread makes the stream bad, and it then records a failure.
LEMMA StreamStep == ASSUME IInv, [Next]_vars PROVE StreamState'
<1>. USE DEF IInv, TypeOK, FlagsOK, Control, StreamState
<1>1. CASE EnqueueRejected
  BY <1>1 DEF EnqueueRejected
<1>2. ASSUME NEW allocates \in BOOLEAN, EnqueueQueueFull(allocates)
      PROVE  StreamState'
  BY <1>2 DEF EnqueueQueueFull
<1>3. ASSUME NEW b \in Blocks, EnqueueAccepted(b)
      PROVE  StreamState'
  BY <1>3 DEF EnqueueAccepted
<1>4. ASSUME NEW b \in Blocks, EnqueueThrows(b)
      PROVE  StreamState'
  BY <1>4 DEF EnqueueThrows
<1>5. CASE Sleep
  BY <1>5 DEF Sleep
<1>6. CASE SpuriousWakeup
  BY <1>6 DEF SpuriousWakeup
<1>7. CASE TakeBlock
  BY <1>7 DEF TakeBlock
<1>8. CASE Drained
  BY <1>8 DEF Drained
<1>9. CASE WriteSucceeds
  BY <1>9 DEF WriteSucceeds
<1>10. CASE WriteFails
  BY <1>10 DEF WriteFails
<1>11. CASE CountWritten
  BY <1>11 DEF CountWritten
<1>12. CASE RecordWriteFailure
  BY <1>12 DEF RecordWriteFailure, RecordWriterFailure
<1>13. CASE FlushSucceeds
  BY <1>13 DEF FlushSucceeds
<1>14. CASE FlushFails
  BY <1>14 DEF FlushFails
<1>15. CASE RecordFlushFailure
  BY <1>15 DEF RecordFlushFailure, RecordWriterFailure
<1>16. CASE FinishClose
  BY <1>16 DEF FinishClose
<1>17. CASE FinishNotify
  BY <1>17 DEF FinishNotify
<1>18. CASE FinishJoin
  BY <1>18 DEF FinishJoin
<1>19. CASE FinishReset
  BY <1>19 DEF FinishReset
<1>20. CASE UNCHANGED vars
  BY <1>20
<1>. QED
  BY <1>1, <1>2, <1>3, <1>4, <1>5, <1>6, <1>7, <1>8, <1>9, <1>10, <1>11,
     <1>12, <1>13, <1>14, <1>15, <1>16, <1>17, <1>18, <1>19, <1>20
     DEF Next, Enqueue, WriterLoop, Finish, Done

\* The verdict stands, the flush message belongs to a failure, and a writer
\* thread that goes to sleep, or is asleep, has nothing to do.
LEMMA VerdictStep ==
  ASSUME IInv, [Next]_vars
  PROVE  (Verdict /\ NoLostWakeup)'
<1>. USE DEF IInv, TypeOK, FlagsOK, Control, Verdict,
             NoLostWakeup
<1>1. CASE EnqueueRejected
  BY <1>1 DEF EnqueueRejected
<1>2. ASSUME NEW allocates \in BOOLEAN, EnqueueQueueFull(allocates)
      PROVE  (Verdict /\ NoLostWakeup)'
  BY <1>2 DEF EnqueueQueueFull
<1>3. ASSUME NEW b \in Blocks, EnqueueAccepted(b)
      PROVE  (Verdict /\ NoLostWakeup)'
  BY <1>3 DEF EnqueueAccepted
<1>4. ASSUME NEW b \in Blocks, EnqueueThrows(b)
      PROVE  (Verdict /\ NoLostWakeup)'
  BY <1>4 DEF EnqueueThrows
<1>5. CASE Sleep
  BY <1>5 DEF Sleep
<1>6. CASE SpuriousWakeup
  BY <1>6 DEF SpuriousWakeup
<1>7. CASE TakeBlock
  BY <1>7 DEF TakeBlock
<1>8. CASE Drained
  BY <1>8 DEF Drained
<1>9. CASE WriteSucceeds
  BY <1>9 DEF WriteSucceeds
<1>10. CASE WriteFails
  BY <1>10 DEF WriteFails
<1>11. CASE CountWritten
  BY <1>11 DEF CountWritten
<1>12. CASE RecordWriteFailure
  BY <1>12 DEF RecordWriteFailure, RecordWriterFailure
<1>13. CASE FlushSucceeds
  BY <1>13 DEF FlushSucceeds
<1>14. CASE FlushFails
  BY <1>14 DEF FlushFails
<1>15. CASE RecordFlushFailure
  BY <1>15 DEF RecordFlushFailure, RecordWriterFailure
<1>16. CASE FinishClose
  BY <1>16 DEF FinishClose
<1>17. CASE FinishNotify
  BY <1>17 DEF FinishNotify
<1>18. CASE FinishJoin
  BY <1>18 DEF FinishJoin
<1>19. CASE FinishReset
  BY <1>19 DEF FinishReset
<1>20. CASE UNCHANGED vars
  BY <1>20
<1>. QED
  BY <1>1, <1>2, <1>3, <1>4, <1>5, <1>6, <1>7, <1>8, <1>9, <1>10, <1>11,
     <1>12, <1>13, <1>14, <1>15, <1>16, <1>17, <1>18, <1>19, <1>20
     DEF Next, Enqueue, WriterLoop, Finish, Done

\* A step that adds an offer, or takes a block from one place, adds it to
\* exactly one other place.
LEMMA AccountingStep == ASSUME IInv, [Next]_vars PROVE EveryOfferAccounted'
<1>. USE DEF EveryOfferAccounted
<1>1. /\ Len(file) \in Nat /\ Len(InHand) \in Nat /\ Len(queue) \in Nat
      /\ droppedBlockCount \in Nat /\ offered \in Nat
      /\ EveryOfferAccounted
  BY DEF IInv, TypeOK, InHand
<1>2. CASE EnqueueRejected
  <2>1. UNCHANGED <<file, queue, InHand>>
    BY <1>2 DEF EnqueueRejected, InHand
  <2>. QED BY <1>1, <1>2, <2>1 DEF EnqueueRejected
<1>3. ASSUME NEW allocates \in BOOLEAN, EnqueueQueueFull(allocates)
      PROVE  EveryOfferAccounted'
  <2>1. UNCHANGED <<file, queue, InHand>>
    BY <1>3 DEF EnqueueQueueFull, InHand
  <2>. QED BY <1>1, <1>3, <2>1 DEF EnqueueQueueFull
<1>4. ASSUME NEW b \in Blocks, EnqueueAccepted(b)
      PROVE  EveryOfferAccounted'
  <2>1. UNCHANGED <<file, InHand, droppedBlockCount>>
    BY <1>4 DEF EnqueueAccepted, InHand
  <2>2. Len(queue') = Len(queue) + 1
    BY <1>4, AppendProperties DEF IInv, TypeOK, EnqueueAccepted
  <2>. QED BY <1>1, <1>4, <2>1, <2>2 DEF EnqueueAccepted
<1>5. CASE TakeBlock
  BY <1>1, <1>5, HeadTailProperties
     DEF IInv, TypeOK, Control, TakeBlock, InHand
<1>6. CASE WriteSucceeds
  BY <1>1, <1>6, ConcatProperties
     DEF IInv, TypeOK, Control, WriteSucceeds, InHand
<1>7. CASE RecordWriteFailure
  <2>1. ~writerFailure /\ writer = "writeFailed" /\ Len(block) = 1
    BY <1>7 DEF IInv, Control, RecordWriteFailure
  <2>2. /\ UNCHANGED <<file, offered>>
        /\ writer' = "flush" /\ queue' = <<>>
        /\ droppedBlockCount' = droppedBlockCount + Len(queue) + 1
    BY <1>7, <2>1 DEF RecordWriteFailure, RecordWriterFailure
  <2>3. offered = Len(file) + 1 + Len(queue) + droppedBlockCount
    BY <1>1, <2>1 DEF InHand
  <2>4. offered' = Len(file') + 0 + 0 + droppedBlockCount'
    BY <1>1, <2>2, <2>3
  <2>5. Len(InHand)' = 0 /\ Len(queue') = 0
    BY <2>2 DEF InHand
  <2>. QED BY <2>4, <2>5
<1>8. CASE RecordFlushFailure
  BY <1>1, <1>8
     DEF IInv, TypeOK, Control, RecordFlushFailure, RecordWriterFailure, InHand
<1>9. ASSUME UNCHANGED <<file, queue, InHand, droppedBlockCount, offered>>
      PROVE  EveryOfferAccounted'
  BY <1>1, <1>9
<1>10. CASE \E b \in Blocks : EnqueueThrows(b)
  BY <1>9, <1>10 DEF EnqueueThrows, InHand
<1>11. CASE Sleep \/ SpuriousWakeup \/ Drained \/ WriteFails
  BY <1>9, <1>11 DEF Sleep, SpuriousWakeup, Drained, WriteFails, InHand
<1>12. CASE CountWritten \/ FlushSucceeds \/ FlushFails
  BY <1>9, <1>12 DEF CountWritten, FlushSucceeds, FlushFails, InHand
<1>13. CASE FinishClose \/ Finish \/ UNCHANGED vars
  BY <1>9, <1>13
     DEF FinishClose, Finish, FinishNotify, FinishJoin, FinishReset, InHand
<1>. QED
  BY <1>2, <1>3, <1>4, <1>5, <1>6, <1>7, <1>8, <1>10, <1>11, <1>12, <1>13
     DEF Next, Enqueue, WriterLoop, Done

\* The length of a concatenation.
LEMMA LenOfConcat ==
  ASSUME NEW S, NEW s \in Seq(S), NEW t \in Seq(S)
  PROVE  Len(s \o t) = Len(s) + Len(t)
BY ConcatProperties

\* The message of a failed write is stored only when a block is missing from
\* the file, that of a failed flush only when none is.
LEMMA MessageStep == ASSUME IInv, [Next]_vars PROVE MessageNamesWriterFailure'
<1>. USE DEF IInv, TypeOK, Control, MessageNamesWriterFailure, InOrder,
             InHand
<1>1. CASE EnqueueRejected
  BY <1>1 DEF EnqueueRejected
<1>2. ASSUME NEW allocates \in BOOLEAN, EnqueueQueueFull(allocates)
      PROVE  MessageNamesWriterFailure'
  BY <1>2 DEF EnqueueQueueFull
<1>3. ASSUME NEW b \in Blocks, EnqueueAccepted(b)
      PROVE  MessageNamesWriterFailure'
  BY <1>3 DEF EnqueueAccepted
<1>4. ASSUME NEW b \in Blocks, EnqueueThrows(b)
      PROVE  MessageNamesWriterFailure'
  BY <1>4 DEF EnqueueThrows
<1>5. CASE Sleep
  BY <1>5 DEF Sleep
<1>6. CASE SpuriousWakeup
  BY <1>6 DEF SpuriousWakeup
<1>7. CASE TakeBlock
  BY <1>7 DEF TakeBlock
<1>8. CASE Drained
  BY <1>8 DEF Drained
<1>9. CASE WriteSucceeds
  BY <1>9 DEF WriteSucceeds
<1>10. CASE WriteFails
  BY <1>10 DEF WriteFails
<1>11. CASE CountWritten
  BY <1>11 DEF CountWritten
<1>12. CASE RecordWriteFailure
  <2>1. /\ ~writerFailure /\ writer = "writeFailed" /\ Len(block) = 1
        /\ failureMessage' = "writing" /\ writerFailure'
        /\ UNCHANGED <<file, accepted>>
    BY <1>12 DEF RecordWriteFailure, RecordWriterFailure
  <2>2. accepted = file \o block \o queue
    BY <2>1
  <2>3. /\ file \o block \in Seq(Blocks)
        /\ Len(file \o block) = Len(file) + 1
    BY <2>1, ConcatOne
  <2>4. Len(accepted) = Len(file) + 1 + Len(queue)
    <3>1. \A u, v \in Seq(Blocks) : Len(u \o v) = Len(u) + Len(v)
      BY LenOfConcat, Zenon
    <3>2. queue \in Seq(Blocks)
      OBVIOUS
    <3>3. Len((file \o block) \o queue) = Len(file \o block) + Len(queue)
      BY <2>3, <3>1, <3>2, Zenon
    <3>. QED BY <2>2, <2>3, <3>3
  <2>5. Len(file) \in Nat /\ Len(queue) \in Nat
    BY LenProperties
  <2>6. Len(file)' < Len(accepted)'
    BY <2>1, <2>4, <2>5
  <2>. QED BY <2>1, <2>6
<1>13. CASE FlushSucceeds
  BY <1>13 DEF FlushSucceeds
<1>14. CASE FlushFails
  BY <1>14 DEF FlushFails
<1>15. CASE RecordFlushFailure
  BY <1>15 DEF RecordFlushFailure, RecordWriterFailure
<1>16. CASE FinishClose
  BY <1>16 DEF FinishClose
<1>17. CASE FinishNotify
  BY <1>17 DEF FinishNotify
<1>18. CASE FinishJoin
  BY <1>18 DEF FinishJoin
<1>19. CASE FinishReset
  BY <1>19 DEF FinishReset
<1>20. CASE UNCHANGED vars
  BY <1>20
<1>. QED
  BY <1>1, <1>2, <1>3, <1>4, <1>5, <1>6, <1>7, <1>8, <1>9, <1>10, <1>11,
     <1>12, <1>13, <1>14, <1>15, <1>16, <1>17, <1>18, <1>19, <1>20
     DEF Next, Enqueue, WriterLoop, Finish, Done

\* Blocks move from the queue through the writer's hands to the end of the
\* file; a step that drops them has failed.
LEMMA OrderStep == ASSUME IInv, [Next]_vars PROVE InOrder'
<1>1. /\ queue \in Seq(Blocks) /\ block \in Seq(Blocks)
      /\ file \in Seq(Blocks) /\ InHand \in Seq(Blocks)
      /\ accepted \in Seq(Blocks) /\ InOrder
  BY DEF IInv, TypeOK, InHand
<1>2. ASSUME NEW b \in Blocks, EnqueueAccepted(b)
      PROVE  InOrder'
  <2>1. /\ accepted = (file \o InHand) \o queue
        /\ accepted' = Append(accepted, b) /\ queue' = Append(queue, b)
        /\ UNCHANGED <<file, writerFailure>>
    BY <1>1, <1>2 DEF InOrder, EnqueueAccepted
  <2>2. UNCHANGED InHand
    BY <1>2 DEF EnqueueAccepted, InHand
  <2>3. <<b>> \in Seq(Blocks) /\ file \o InHand \in Seq(Blocks)
    BY <1>1, ConcatProperties
  <2>4. accepted' = accepted \o <<b>> /\ queue' = queue \o <<b>>
    BY <1>1, <2>1, AppendIsConcat
  <2>5. accepted' = (file' \o InHand') \o queue'
    BY <1>1, <2>1, <2>2, <2>3, <2>4, ConcatAssociative, SMTT(60)
  <2>6. Len(file) <= Len(accepted') /\ file = SubSeq(accepted', 1, Len(file))
    BY <1>1, <2>1, PrefixOfAppend DEF InOrder
  <2>. QED BY <2>1, <2>5, <2>6 DEF InOrder
<1>3. CASE TakeBlock
  <2>1. /\ accepted = (file \o <<>>) \o queue
        /\ queue # <<>> /\ queue' = Tail(queue) /\ InHand' = <<Head(queue)>>
        /\ UNCHANGED <<file, accepted, writerFailure>>
    BY <1>1, <1>3 DEF IInv, Control, InOrder, InHand, TakeBlock
  <2>2. accepted' = (file' \o InHand') \o queue'
    <3>1. accepted = file \o queue
      BY <1>1, <2>1, ConcatEmptySeq
    <3>2. file \o queue = (file \o <<Head(queue)>>) \o Tail(queue)
      BY ONLY <1>1, <2>1, MoveHead
    <3>. QED BY <2>1, <3>1, <3>2
  <2>. QED BY <1>1, <2>1, <2>2 DEF InOrder
<1>4. CASE WriteSucceeds
  <2>1. /\ accepted = (file \o block) \o queue
        /\ file' = file \o block /\ InHand' = <<>>
        /\ UNCHANGED <<accepted, queue>>
    BY <1>1, <1>4 DEF IInv, Control, InOrder, InHand, WriteSucceeds
  <2>2. file \o block \in Seq(Blocks)
    BY <1>1, ConcatProperties
  <2>3. accepted' = (file' \o InHand') \o queue'
    BY <2>1, <2>2, ConcatEmptySeq
  <2>4. /\ Len(file') <= Len(accepted')
        /\ file' = SubSeq(accepted', 1, Len(file'))
    BY <1>1, <2>1, <2>2, PrefixOfConcat
  <2>. QED BY <2>3, <2>4 DEF InOrder
<1>5. ASSUME UNCHANGED <<accepted, file>>,
             writerFailure' \/ UNCHANGED <<queue, InHand, writerFailure>>
      PROVE  InOrder'
  BY <1>1, <1>5 DEF InOrder
<1>6. CASE RecordWriteFailure \/ RecordFlushFailure
  BY <1>5, <1>6
     DEF RecordWriteFailure, RecordFlushFailure, RecordWriterFailure
<1>7. CASE EnqueueRejected \/ \E allocates \in BOOLEAN :
             EnqueueQueueFull(allocates)
  BY <1>5, <1>7 DEF EnqueueRejected, EnqueueQueueFull, InHand
<1>8. CASE \E b \in Blocks : EnqueueThrows(b)
  BY <1>5, <1>8 DEF EnqueueThrows, InHand
<1>9. CASE Sleep \/ SpuriousWakeup \/ Drained \/ WriteFails
  BY <1>5, <1>9 DEF Sleep, SpuriousWakeup, Drained, WriteFails, InHand
<1>10. CASE CountWritten \/ FlushSucceeds \/ FlushFails
  BY <1>5, <1>10 DEF CountWritten, FlushSucceeds, FlushFails, InHand
<1>11. CASE FinishClose \/ Finish \/ UNCHANGED vars
  BY <1>5, <1>11
     DEF FinishClose, Finish, FinishNotify, FinishJoin, FinishReset, InHand
<1>. QED
  BY <1>2, <1>3, <1>4, <1>6, <1>7, <1>8, <1>9, <1>10, <1>11
     DEF Next, Enqueue, WriterLoop, Done

-----------------------------------------------------------------------------
(* The theorems.                                                           *)

\* The constructor establishes the invariant, usable or not.
LEMMA InitIInv == Init => IInv
<1>. SUFFICES ASSUME Init PROVE IInv
  OBVIOUS
<1>1. /\ queue = <<>> /\ block = <<>> /\ file = <<>> /\ accepted = <<>>
      /\ verdict = "none" /\ durable = 0 /\ offered = 0
      /\ droppedBlockCount = 0 /\ queueOverflowCount = 0
      /\ samplesAccepted = 0 /\ samplesWritten = 0 /\ thrown = 0
      /\ finisher = "idle" /\ finishes = 0
  BY DEF Init
<1>2. PICK usable \in BOOLEAN :
        /\ output \in {"good", "null"}
        /\ usable = (output = "good" /\ MaxQueuedBlocks > 0)
        /\ accepting = usable /\ closing = ~usable
        /\ writerFailure = ~usable /\ stopRequested = ~usable
        /\ failureMessage = IF usable THEN "none" ELSE "unusable"
        /\ writer = IF usable THEN "test" ELSE "exited"
  BY Zenon DEF Init
<1>3. FlagsOK
  BY <1>2, Zenon DEF FlagsOK
<1>4. TypeOK
  BY <1>1, <1>2, <1>3 DEF TypeOK
<1>5. Control /\ StreamState /\ Verdict /\ NoLostWakeup
  BY <1>1, <1>2, <1>3
     DEF FlagsOK, Control, StreamState, Verdict, NoLostWakeup
<1>6. InHand = <<>>
  BY <1>2 DEF InHand
<1>7. EveryOfferAccounted /\ MessageNamesWriterFailure
  <2>1. EveryOfferAccounted
    BY <1>1, <1>6 DEF EveryOfferAccounted
  <2>2. MessageNamesWriterFailure
    BY <1>1, <1>2 DEF MessageNamesWriterFailure
  <2>. QED BY <2>1, <2>2
<1>8. InOrder
  <2>1. (<<>> \o <<>>) \o <<>> = <<>> /\ SubSeq(<<>>, 1, 0) = <<>>
    BY EmptySeq, ConcatEmptySeq, SubSeqEmpty
  <2>. QED BY <1>1, <1>6, <2>1 DEF InOrder
<1>. QED BY <1>4, <1>5, <1>7, <1>8 DEF IInv

\* Every step preserves the invariant.
LEMMA NextIInv == IInv /\ [Next]_vars => IInv'
BY TypeStep, ControlStep, StreamStep, VerdictStep, AccountingStep,
   MessageStep, OrderStep DEF IInv

\* Once everything is drained and nothing failed, the file is complete.
LEMMA DrainedIsComplete ==
  ASSUME IInv, writer \in {"flush", "flushFailed", "exited"}, ~writerFailure
  PROVE  file = accepted
<1>1. queue = <<>> /\ InHand = <<>> /\ file \in Seq(Blocks)
  BY DEF IInv, TypeOK, Control, InHand
<1>2. accepted = (file \o <<>>) \o <<>>
  BY <1>1 DEF IInv, InOrder
<1>. QED BY <1>1, <1>2, ConcatEmptySeq

\* Until the writer fails, every accepted block is in one of three places.
LEMMA AcceptedLength ==
  ASSUME IInv, ~writerFailure
  PROVE  Len(accepted) = Len(file) + Len(InHand) + Len(queue)
<1>1. /\ file \in Seq(Blocks) /\ InHand \in Seq(Blocks)
      /\ queue \in Seq(Blocks) /\ accepted = (file \o InHand) \o queue
  BY DEF IInv, TypeOK, InHand, InOrder
<1>2. /\ file \o InHand \in Seq(Blocks)
      /\ Len(file \o InHand) = Len(file) + Len(InHand)
  BY <1>1, ConcatProperties
<1>. QED BY <1>1, <1>2, ConcatProperties

\* The invariant holds in every state of every behaviour: the state of the
\* writer thread, of the stream and of the queue always fit together.
THEOREM Invariance == Spec => []IInv
<1>1. Init => IInv
  BY InitIInv
<1>2. IInv /\ [Next]_vars => IInv'
  BY NextIInv
<1>. QED BY <1>1, <1>2, PTL DEF Spec

\* Every variable of the writer keeps its type, and the queue its limit.
THEOREM TypeCorrect == Spec => []TypeOK
BY Invariance, PTL DEF IInv

\* The file holds the accepted blocks in the order of acceptance.
THEOREM FifoOrder == Spec => []InOrder
BY Invariance, PTL DEF IInv

\* Every offered block is recorded, on its way, or counted as dropped.
THEOREM Accounting == Spec => []EveryOfferAccounted
BY Invariance, PTL DEF IInv

\* The writer thread never sleeps while there is something for it to do.
THEOREM NoSleepOnWork == Spec => []NoLostWakeup
BY Invariance, PTL DEF IInv

\* The message printed after a writer failure is that of the first one.
THEOREM WriterFailureNamed == Spec => []MessageNamesWriterFailure
BY Invariance, PTL DEF IInv

\* finish() returns true only for a complete recording.
THEOREM CleanVerdict == Spec => []OkMeansRecorded
<1>1. IInv => OkMeansRecorded
  <2>. SUFFICES ASSUME IInv, verdict = "ok"
                PROVE  file = accepted /\ durable = Len(file)
    BY DEF OkMeansRecorded
  <2>1. writer = "exited" /\ ~writerFailure
    BY DEF IInv, Verdict
  <2>. QED BY <2>1, DrainedIsComplete DEF IInv, StreamState
<1>. QED BY <1>1, Invariance, PTL

\* The writer thread never meets a stream that finish() has destroyed.
THEOREM StreamLifetime == Spec => []OutputOutlivesWriter
<1>1. IInv => OutputOutlivesWriter
  BY DEF IInv, TypeOK, StreamState, OutputOutlivesWriter
<1>. QED BY <1>1, Invariance, PTL

\* A step after finish() has returned changes neither the recording nor what
\* is reported of it, except that refused blocks are counted.
LEMMA FinalStep ==
  ASSUME IInv, Next, verdict # "none"
  PROVE  /\ UNCHANGED <<queue, accepted, file, writerFailure, samplesAccepted,
                        samplesWritten, queueOverflowCount, verdict>>
         /\ droppedBlockCount' - droppedBlockCount = offered' - offered
<1>1. /\ writer = "exited" /\ ~accepting
      /\ verdict = IF writerFailure THEN "failed" ELSE "ok"
      /\ droppedBlockCount \in Nat /\ offered \in Nat
  BY DEF IInv, TypeOK, FlagsOK, Control, Verdict
<1>2. ~WriterLoop /\ ~SpuriousWakeup
  BY <1>1
     DEF WriterLoop, SpuriousWakeup, Sleep, TakeBlock, Drained, WriteSucceeds,
         WriteFails, CountWritten, RecordWriteFailure, FlushSucceeds,
         FlushFails, RecordFlushFailure
<1>3. CASE Enqueue
  <2>1. EnqueueRejected
    BY <1>1, <1>3
       DEF Enqueue, EnqueueQueueFull, EnqueueAccepted, EnqueueThrows
  <2>. QED BY <1>1, <2>1 DEF EnqueueRejected
<1>4. CASE FinishClose \/ Finish
  BY <1>1, <1>4 DEF FinishClose, Finish, FinishNotify, FinishJoin, FinishReset
<1>5. CASE Done
  BY <1>1, <1>5 DEF Done
<1>. QED BY <1>2, <1>3, <1>4, <1>5 DEF Next

\* After finish() has returned the recording is final.
THEOREM FinishIsFinal == Spec => FinalAfterFinish
<1>1. IInv /\ [Next]_vars =>
        [verdict # "none" =>
           /\ UNCHANGED <<queue, accepted, file, writerFailure,
                          samplesAccepted, samplesWritten,
                          queueOverflowCount, verdict>>
           /\ droppedBlockCount' - droppedBlockCount
                = offered' - offered]_vars
  BY FinalStep
<1>. QED BY <1>1, Invariance, PTL DEF Spec, FinalAfterFinish

-----------------------------------------------------------------------------
(* The sample counts, beside the invariant.                                *)

\* A step that writes a block puts its samples in the file and between the
\* write and the count; the next step of the writer thread counts them.
LEMMA SamplesStep ==
  ASSUME IInv, SamplesAgree, [Next]_vars
  PROVE  SamplesAgree'
<1>. DEFINE Pending == IF writer = "count" THEN SamplesIn(block) ELSE 0
            Kept == /\ UNCHANGED <<samplesWritten, block, file>>
                    /\ (writer = "count") <=> (writer' = "count")
<1>1. /\ file \in Seq(Blocks) /\ accepted \in Seq(Blocks)
      /\ block \in Seq(Blocks) /\ thrown \in Nat
      /\ samplesWritten \in Nat /\ samplesAccepted \in Nat
  BY DEF IInv, TypeOK
<1>2. /\ samplesWritten + Pending = SamplesIn(file)
      /\ thrown = 0 => samplesAccepted = SamplesIn(accepted)
  BY DEF SamplesAgree
<1>3. ASSUME UNCHANGED <<samplesAccepted, accepted, thrown, file>>,
             samplesWritten' + Pending' = samplesWritten + Pending
      PROVE  SamplesAgree'
  BY <1>2, <1>3 DEF SamplesAgree
<1>4. ASSUME UNCHANGED <<samplesAccepted, accepted, thrown, file,
                         samplesWritten, block>>,
             (writer = "count") <=> (writer' = "count")
      PROVE  SamplesAgree'
  BY <1>2, <1>4 DEF SamplesAgree
<1>5. CASE EnqueueRejected
  BY <1>4, <1>5 DEF EnqueueRejected
<1>6. ASSUME NEW allocates \in BOOLEAN, EnqueueQueueFull(allocates)
      PROVE  SamplesAgree'
  BY <1>4, <1>6 DEF EnqueueQueueFull
<1>7. ASSUME NEW b \in Blocks, EnqueueAccepted(b)
      PROVE  SamplesAgree'
  <2>1. /\ samplesAccepted' = samplesAccepted + Samples[b]
        /\ accepted' = Append(accepted, b)
        /\ UNCHANGED <<thrown, file, samplesWritten, block>>
        /\ (writer = "count") <=> (writer' = "count")
    BY <1>7 DEF EnqueueAccepted
  <2>2. SamplesIn(accepted') = SamplesIn(accepted) + Samples[b]
    BY <1>1, <2>1, SamplesOfAppend
  <2>. QED BY <1>2, <2>1, <2>2 DEF SamplesAgree
<1>8. ASSUME NEW b \in Blocks, EnqueueThrows(b)
      PROVE  SamplesAgree'
  <2>1. /\ thrown' = thrown + 1
        /\ UNCHANGED <<file, samplesWritten, block, writer>>
    BY <1>8 DEF EnqueueThrows
  <2>2. thrown' # 0
    BY <1>1, <2>1
  <2>. QED BY <1>2, <2>1, <2>2 DEF SamplesAgree
<1>9. CASE WriteSucceeds
  <2>1. /\ writer = "write" /\ writer' = "count" /\ file' = file \o block
        /\ UNCHANGED <<samplesWritten, block, samplesAccepted, accepted,
                       thrown>>
    BY <1>9 DEF WriteSucceeds
  <2>2. Len(block) = 1
    BY <2>1 DEF IInv, Control
  <2>3. /\ SamplesIn(block) = Samples[Head(block)]
        /\ SamplesIn(file') = SamplesIn(file) + Samples[Head(block)]
    BY <1>1, <2>1, <2>2, SamplesOfOne
  <2>. QED BY <1>1, <1>2, <2>1, <2>3 DEF SamplesAgree
<1>10. CASE CountWritten
  <2>1. /\ writer = "count" /\ writer' = "test"
        /\ samplesWritten' = samplesWritten + Samples[Head(block)]
        /\ UNCHANGED <<file, samplesAccepted, accepted, thrown>>
    BY <1>10 DEF CountWritten
  <2>2. Len(block) = 1
    BY <2>1 DEF IInv, Control
  <2>3. /\ SamplesIn(block) = Samples[Head(block)]
        /\ Samples[Head(block)] \in Nat
    BY <1>1, <2>2, SamplesOfOne
  <2>. QED BY <1>1, <1>2, <2>1, <2>3 DEF SamplesAgree
<1>11. CASE Sleep \/ SpuriousWakeup \/ TakeBlock \/ Drained
  BY <1>2, <1>11 DEF Sleep, SpuriousWakeup, TakeBlock, Drained, SamplesAgree
<1>12. CASE WriteFails \/ FlushSucceeds \/ FlushFails
  BY <1>4, <1>12 DEF WriteFails, FlushSucceeds, FlushFails
<1>13. CASE RecordWriteFailure \/ RecordFlushFailure
  BY <1>2, <1>13
     DEF RecordWriteFailure, RecordFlushFailure, RecordWriterFailure,
         SamplesAgree
<1>14. CASE FinishClose \/ Finish
  BY <1>4, <1>14 DEF FinishClose, Finish, FinishNotify, FinishJoin, FinishReset
<1>15. CASE UNCHANGED vars
  BY <1>4, <1>15
<1>. QED
  BY <1>5, <1>6, <1>7, <1>8, <1>9, <1>10, <1>11, <1>12, <1>13, <1>14, <1>15
     DEF Next, Enqueue, WriterLoop, Done

\* The counts in the metadata are those of the blocks in the file, and of the
\* blocks accepted as long as no allocation failed.
THEOREM SamplesCounted == Spec => []SamplesAgree
<1>1. Init => SamplesAgree
  BY SamplesOfNone DEF Init, SamplesAgree
<1>2. IInv /\ SamplesAgree /\ [Next]_vars => SamplesAgree'
  BY SamplesStep
<1>. QED BY <1>1, <1>2, Invariance, PTL DEF Spec

-----------------------------------------------------------------------------
(* What FinishReturns rests on, apart from fairness.                       *)

\* The steps the writer thread has before it once the writer is closing.
StepsFrom ==
  [test |-> 3, asleep |-> 4, write |-> 5, count |-> 4, writeFailed |-> 3,
   flush |-> 2, flushFailed |-> 1, exited |-> 0]

Remaining == StepsFrom[writer] + 3 * Len(queue)

\* Closing is for good; from then on each step of the writer thread leaves it
\* fewer, and nothing another thread does gives it more.
WindsDown ==
  [][closing => /\ closing'
                /\ Remaining' <= Remaining
                /\ WriterLoop => Remaining' < Remaining]_vars

\* A finish() that has come to the join waits for a thread that is awake.
JoinsTheWaking == finisher = "join" => closing /\ writer # "asleep"

\* The countdown is a number, so the thread takes finitely many steps.
LEMMA RemainingIsNat == IInv => Remaining \in Nat
BY DEF IInv, TypeOK, Remaining, StepsFrom

\* Of the callers' steps only a notification concerns the writer thread.
LEMMA CallersStep ==
  ASSUME IInv, closing, Enqueue \/ FinishClose \/ Finish \/ SpuriousWakeup
  PROVE  closing' /\ Remaining' <= Remaining
<1>1. /\ ~accepting /\ Len(queue) \in Nat
      /\ writer \in {"test", "asleep", "write", "writeFailed", "count",
                     "flush", "flushFailed", "exited"}
  BY DEF IInv, TypeOK, FlagsOK, Control
<1>2. CASE UNCHANGED <<writer, queue, closing>>
  BY <1>1, <1>2 DEF Remaining, StepsFrom
<1>3. CASE writer = "asleep" /\ writer' = "test" /\ UNCHANGED <<queue, closing>>
  BY <1>1, <1>3 DEF Remaining, StepsFrom
<1>4. CASE Enqueue
  <2>1. EnqueueRejected
    BY <1>1, <1>4
       DEF Enqueue, EnqueueQueueFull, EnqueueAccepted, EnqueueThrows
  <2>. QED BY <1>2, <2>1 DEF EnqueueRejected
<1>5. CASE FinishClose
  <2>1. closing' /\ UNCHANGED <<writer, queue>>
    BY <1>5 DEF FinishClose
  <2>. QED BY <1>1, <2>1 DEF Remaining, StepsFrom
<1>6. CASE SpuriousWakeup
  BY <1>3, <1>6 DEF SpuriousWakeup
<1>7. CASE FinishNotify
  BY <1>2, <1>3, <1>7 DEF FinishNotify
<1>8. CASE FinishJoin \/ FinishReset
  BY <1>2, <1>8 DEF FinishJoin, FinishReset
<1>. QED BY <1>4, <1>5, <1>6, <1>7, <1>8 DEF Finish

\* The writer thread goes down the list, a block taken counting for three.
LEMMA WriterStep ==
  ASSUME IInv, closing, WriterLoop
  PROVE  closing' /\ Remaining' < Remaining
<1>. USE DEF Remaining, StepsFrom
<1>1. queue \in Seq(Blocks) /\ Len(queue) \in Nat
  BY DEF IInv, TypeOK
<1>2. ~Sleep
  BY DEF Sleep
<1>3. CASE TakeBlock
  <2>1. /\ writer = "test" /\ writer' = "write" /\ closing'
        /\ queue # <<>> /\ queue' = Tail(queue)
    BY <1>3 DEF TakeBlock
  <2>2. Len(queue') = Len(queue) - 1
    BY <1>1, <2>1, HeadTailProperties
  <2>. QED BY <1>1, <2>1, <2>2
<1>4. CASE Drained
  BY <1>1, <1>4 DEF Drained
<1>5. CASE WriteSucceeds
  BY <1>1, <1>5 DEF WriteSucceeds
<1>6. CASE WriteFails
  BY <1>1, <1>6 DEF WriteFails
<1>7. CASE CountWritten
  BY <1>1, <1>7 DEF CountWritten
<1>8. CASE RecordWriteFailure
  <2>1. /\ writer = "writeFailed" /\ writer' = "flush" /\ closing'
        /\ queue' = queue \/ queue' = <<>>
    BY <1>8 DEF RecordWriteFailure, RecordWriterFailure
  <2>2. Len(queue') <= Len(queue) /\ Len(queue') \in Nat
    BY <1>1, <2>1
  <2>. QED BY <1>1, <2>1, <2>2
<1>9. CASE FlushSucceeds
  BY <1>1, <1>9 DEF FlushSucceeds
<1>10. CASE FlushFails
  BY <1>1, <1>10 DEF FlushFails
<1>11. CASE RecordFlushFailure
  <2>1. /\ writer = "flushFailed" /\ writer' = "exited" /\ closing'
        /\ queue' = queue \/ queue' = <<>>
    BY <1>11 DEF RecordFlushFailure, RecordWriterFailure
  <2>2. Len(queue') <= Len(queue) /\ Len(queue') \in Nat
    BY <1>1, <2>1
  <2>. QED BY <1>1, <2>1, <2>2
<1>. QED
  BY <1>2, <1>3, <1>4, <1>5, <1>6, <1>7, <1>8, <1>9, <1>10, <1>11
     DEF WriterLoop

\* Once the writer is closing, its thread has a bounded number of steps left,
\* every one of which brings it nearer to its end; a finish() that waits for
\* it never waits for a thread that sleeps.  With a fair scheduler this is
\* why finish() returns.
THEOREM WriterWindsDown == Spec => WindsDown /\ []JoinsTheWaking
<1>1. IInv /\ [Next]_vars =>
        [closing => /\ closing'
                    /\ Remaining' <= Remaining
                    /\ WriterLoop => Remaining' < Remaining]_vars
  <2>. SUFFICES ASSUME IInv, Next, closing
                PROVE  /\ closing'
                       /\ Remaining' <= Remaining
                       /\ WriterLoop => Remaining' < Remaining
    BY Zenon
  <2>1. Remaining \in Nat
    BY RemainingIsNat
  <2>2. Remaining' \in Nat
    <3>1. TypeOK'
      BY TypeStep
    <3>2. /\ Len(queue') \in Nat
          /\ writer' \in {"test", "asleep", "write", "writeFailed", "count",
                          "flush", "flushFailed", "exited"}
      BY <3>1 DEF TypeOK
    <3>. QED BY <3>2 DEF Remaining, StepsFrom
  <2>3. CASE WriterLoop
    BY <2>1, <2>2, <2>3, WriterStep
  <2>4. CASE ~WriterLoop /\ ~Done
    BY <2>1, <2>2, <2>4, CallersStep DEF Next
  <2>5. CASE ~WriterLoop /\ Done
    BY <2>1, <2>5 DEF Done, Remaining, StepsFrom
  <2>. QED BY <2>3, <2>4, <2>5
<1>2. IInv => JoinsTheWaking
  BY DEF IInv, Control, NoLostWakeup, JoinsTheWaking
<1>. QED BY <1>1, <1>2, Invariance, PTL DEF Spec, WindsDown

-----------------------------------------------------------------------------
(* The writer keeps the promise of OrderedRecording.                       *)

\* A new writer is a new recording.
LEMMA InitPromise == Init => Promise!Init
BY DEF Init, Promise!Init

\* Every step of the writer is a step of the recording, or leaves it alone.
LEMMA NextPromise ==
  ASSUME IInv, [Next]_vars
  PROVE  [Promise!Next]_Promise!vars
<1>. USE DEF Promise!Next, Promise!vars
<1>1. CASE EnqueueRejected
  BY <1>1 DEF EnqueueRejected, IInv, Control, Promise!Refuse
<1>2. ASSUME NEW allocates \in BOOLEAN, EnqueueQueueFull(allocates)
      PROVE  Promise!Refuse
  BY <1>2 DEF EnqueueQueueFull, Promise!Refuse
<1>3. ASSUME NEW b \in Blocks, EnqueueAccepted(b)
      PROVE  Promise!Accept(b)
  BY <1>3 DEF EnqueueAccepted, Promise!Accept
<1>4. CASE \E b \in Blocks : EnqueueThrows(b)
  BY <1>4 DEF EnqueueThrows
<1>5. CASE Sleep \/ SpuriousWakeup \/ TakeBlock \/ Drained \/ WriteFails
  BY <1>5 DEF Sleep, SpuriousWakeup, TakeBlock, Drained, WriteFails
<1>6. CASE WriteSucceeds
  <2>1. /\ ~writerFailure /\ verdict = "none" /\ Len(block) = 1
        /\ InHand = block /\ file \in Seq(Blocks) /\ block \in Seq(Blocks)
        /\ queue \in Seq(Blocks)
    BY <1>6 DEF WriteSucceeds, IInv, TypeOK, Control, Verdict, InHand
  <2>2. accepted = (file \o block) \o queue
    BY <2>1 DEF IInv, InOrder
  <2>3. /\ Len(file) < Len(accepted)
        /\ file \o block = Append(file, accepted[Len(file) + 1])
    <3>1. /\ file \o block = Append(file, block[1])
          /\ file \o block \in Seq(Blocks)
          /\ Len(file \o block) = Len(file) + 1
          /\ (file \o block)[Len(file) + 1] = block[1]
      BY ONLY <2>1, ConcatOne
    <3>2. /\ Len(accepted) = Len(file \o block) + Len(queue)
          /\ \A i \in 1 .. Len(file \o block) :
               accepted[i] = (file \o block)[i]
      BY ONLY <2>1, <2>2, <3>1, ConcatProperties, LenProperties
    <3>3. Len(file) \in Nat /\ Len(queue) \in Nat
      BY ONLY <2>1, LenProperties
    <3>. QED BY ONLY <3>1, <3>2, <3>3
  <2>. QED BY <1>6, <2>1, <2>3 DEF WriteSucceeds, Promise!Record
<1>7. CASE CountWritten \/ FlushSucceeds \/ FlushFails
  BY <1>7 DEF CountWritten, FlushSucceeds, FlushFails
<1>8. CASE RecordWriteFailure
  <2>1. /\ ~writerFailure /\ verdict = "none" /\ Len(InHand) = 1
        /\ Len(file) \in Nat /\ Len(queue) \in Nat
    BY <1>8 DEF RecordWriteFailure, IInv, TypeOK, Control, Verdict, InHand
  <2>2. Len(queue) + 1 = Len(accepted) - Len(file)
    BY <2>1, AcceptedLength
  <2>3. droppedBlockCount' = droppedBlockCount + (Len(accepted) - Len(file))
    <3>1. droppedBlockCount' = droppedBlockCount + Len(queue) + 1
      BY <1>8, <2>1 DEF RecordWriteFailure, RecordWriterFailure
    <3>2. droppedBlockCount \in Nat
      BY DEF IInv, TypeOK
    <3>. QED BY ONLY <2>1, <2>2, <3>1, <3>2
  <2>. QED
    BY <1>8, <2>1, <2>3
       DEF RecordWriteFailure, RecordWriterFailure, Promise!Fail
<1>9. CASE RecordFlushFailure
  <2>1. /\ verdict = "none" /\ accepting = FALSE /\ queue = <<>>
        /\ writer = "flushFailed" /\ Len(file) \in Nat
    <3>1. accepting = FALSE
      BY <1>9, Zenon DEF RecordFlushFailure, IInv, TypeOK, FlagsOK, Control
    <3>. QED
      BY <1>9, <3>1 DEF RecordFlushFailure, IInv, TypeOK, Control, Verdict
  <2>2. CASE writerFailure
    BY <1>9, <2>1, <2>2 DEF RecordFlushFailure, RecordWriterFailure
  <2>3. CASE ~writerFailure
    <3>1. file = accepted
      BY <2>1, <2>3, DrainedIsComplete
    <3>2. droppedBlockCount' = droppedBlockCount + (Len(accepted) - Len(file))
      BY <1>9, <2>1, <2>3, <3>1
         DEF RecordFlushFailure, RecordWriterFailure, IInv, TypeOK
    <3>. QED
      BY <1>9, <2>1, <2>3, <3>2
         DEF RecordFlushFailure, RecordWriterFailure, Promise!Fail
  <2>. QED BY <2>2, <2>3
<1>10. CASE FinishClose
  <2>1. CASE accepting
    BY <1>10, <2>1 DEF FinishClose, Promise!Close
  <2>2. CASE accepting = FALSE
    BY <1>10, <2>2 DEF FinishClose
  <2>. QED BY <2>1, <2>2 DEF IInv, TypeOK, FlagsOK
<1>11. CASE FinishNotify \/ FinishJoin
  BY <1>11 DEF FinishNotify, FinishJoin
<1>12. CASE FinishReset
  <2>1. ~accepting /\ (writerFailure \/ file = accepted)
    BY <1>12, DrainedIsComplete DEF FinishReset, IInv, TypeOK, FlagsOK, Control
  <2>. QED BY <1>12, <2>1 DEF FinishReset, Promise!Conclude
<1>13. CASE UNCHANGED vars
  BY <1>13
<1>. QED
  BY <1>1, <1>2, <1>3, <1>4, <1>5, <1>6, <1>7, <1>8, <1>9, <1>10, <1>11,
     <1>12, <1>13
     DEF Next, Enqueue, WriterLoop, Finish, Done

\* Every behaviour of the writer, seen through the blocks accepted, recorded
\* and lost, is one that OrderedRecording allows.
THEOREM Implementation == Spec => KeepsPromise
<1>1. Init => Promise!Init
  BY InitPromise
<1>2. IInv /\ [Next]_vars => [Promise!Next]_Promise!vars
  BY NextPromise
<1>. QED BY <1>1, <1>2, Invariance, PTL DEF Spec, KeepsPromise, Promise!Spec
=============================================================================
