------------------------ MODULE PreparedConsumerProofs ------------------------
(***************************************************************************)
(* The safety properties of PreparedConsumer, proved for every set of gids *)
(* and transaction numbers, every stream and any number of crashes, with   *)
(* rollbacks and with gids that are used again.                            *)
(*                                                                         *)
(* The invariant relates three histories: what the source sent, how far    *)
(* this process has carried it out, and what earlier processes left in the *)
(* store and the target.  The link between them is that a commit is        *)
(* acknowledged before anything after it: an earlier process was at most   *)
(* one commit ahead of the acknowledged position, though it may have been  *)
(* any number of prepares and rollbacks ahead.                             *)
(***************************************************************************)
EXTENDS PreparedConsumer, TLAPS

-----------------------------------------------------------------------------
(* The stream *)

Positions == DOMAIN stream
Is(k, kind) == stream[k].kind = kind
Ends(k) == ~Is(k, "prepare")
Same(j, k) == stream[j].gid = stream[k].gid /\ stream[j].xid = stream[k].xid

(***************************************************************************)
(* What a source of two-phase transactions sends: a transaction number is  *)
(* prepared once, an end follows its prepare with nothing of its gid in    *)
(* between, and a gid is prepared again only when its transaction ended.   *)
(***************************************************************************)
StreamInv ==
  /\ \A i, j \in Positions :
       Is(i, "prepare") /\ Is(j, "prepare") /\ stream[i].xid = stream[j].xid => i = j
  /\ \A j \in Positions : Ends(j) =>
       \E i \in Positions :
         /\ Is(i, "prepare") /\ Same(i, j) /\ i < j
         /\ \A k \in Positions : i < k /\ k < j => stream[k].gid # stream[j].gid
  /\ \A i, j \in Positions :
       /\ Is(i, "prepare") /\ Is(j, "prepare") /\ i < j
       /\ stream[i].gid = stream[j].gid
       => \E k \in Positions : Ends(k) /\ Same(i, k) /\ i < k /\ k < j

-----------------------------------------------------------------------------
(* The consumer *)

\* The events this process has carried out; a commit only once acknowledged.
Settled == At("idle") \/ At("forget") \/ (At("acknowledge") /\ Event.kind # "commit")
Passed(k) == k <= consumer.received /\ (k = consumer.received => Settled)

\* The store has the transaction of the event at k.
Kept(k) == /\ store[stream[k].gid] # NoTransaction
           /\ store[stream[k].gid].xid = stream[k].xid

KeptAs(k, phase) == Kept(k) /\ store[stream[k].gid].phase = phase

Discarded(k) ==
  /\ Transaction(stream[k]) \in discarded
  /\ \E j \in Positions : Is(j, "rollback") /\ Same(j, k)

\* Where the process is, and what it has just done there.
ControlInv ==
  /\ consumer.raised # "none" => At("failed")
  /\ consumer.pc \notin {"idle", "forget"} => acked < consumer.received
  /\ At("mark") => /\ Is(consumer.received, "commit")
                   /\ KeptAs(consumer.received, "Prepared")
                   /\ Transaction(Event) \in target
  /\ At("forget") => /\ consumer.received > 0 /\ acked = consumer.received
                     /\ Is(consumer.received, "commit")
  /\ consumer.pc \in {"acknowledge", "forget"} /\ Is(consumer.received, "commit")
       => KeptAs(consumer.received, "Target_Applied")

\* What this process has carried out: its commits are acknowledged, its rollbacks
\* discarded their transactions, and what it prepared and has not ended is in the
\* store, unless an earlier process was ahead and rolled it back.
ProgressInv ==
  /\ \A k \in Positions : Passed(k) /\ Is(k, "commit") => k <= acked
  /\ \A k \in Positions : Passed(k) /\ Is(k, "rollback")
       => Transaction(stream[k]) \in discarded
  /\ \A i \in Positions :
       /\ Passed(i) /\ Is(i, "prepare")
       /\ \A k \in Positions : Passed(k) /\ Ends(k) => ~Same(i, k)
       => Kept(i) \/ Discarded(i)

\* A transaction in the target was committed by the source, and whoever applied it
\* had carried out, and for commits acknowledged, all that comes before.
TargetInv ==
  /\ \A k \in Positions : k <= acked /\ Is(k, "commit")
       => Transaction(stream[k]) \in target
  /\ \A t \in target : \E c \in Positions :
       /\ Is(c, "commit") /\ Transaction(stream[c]) = t
       /\ \A k \in Positions : k < c /\ Is(k, "commit") => k <= acked
       /\ \A k \in Positions : k < c /\ Is(k, "rollback")
            => Transaction(stream[k]) \in discarded

\* The marker in the store tells what has been applied.
StoreInv ==
  /\ \A gid \in Gids : store[gid] # NoTransaction =>
       /\ store[gid].phase = "Target_Applied" => <<gid, store[gid].xid>> \in target
       /\ store[gid].phase = "Prepared" => <<gid, store[gid].xid>> \notin marked
  /\ \A t \in marked :
       \/ /\ store[t[1]] # NoTransaction /\ store[t[1]].xid = t[2]
          /\ store[t[1]].phase = "Target_Applied"
       \/ \E k \in Positions : /\ k <= acked /\ Is(k, "commit")
                               /\ Transaction(stream[k]) = t

ConsumerInv ==
  /\ TypeOK /\ StreamInv
  /\ ControlInv /\ ProgressInv /\ TargetInv /\ StoreInv /\ RefusedIsSettled

-----------------------------------------------------------------------------
(* Lemmas about the stream *)

LEMMA StreamTypes ==
  ASSUME TypeOK
  PROVE  /\ Len(stream) \in Nat /\ Positions = 1..Len(stream)
         /\ \A k \in Positions :
              /\ k \in Nat /\ k > 0
              /\ stream[k] \in Events /\ stream[k].gid \in Gids /\ stream[k].xid \in Xids
              /\ stream[k].kind \in {"prepare", "commit", "rollback"}
         /\ acked \in Nat /\ consumer.received \in Nat
         /\ acked <= consumer.received /\ consumer.received <= Len(stream)
  <1>1. stream \in Seq(Events)
    BY DEF TypeOK
  <1>2. Len(stream) \in Nat /\ Positions = 1..Len(stream)
    BY <1>1 DEF Positions
  <1>3. \A k \in Positions : stream[k] \in Events
    BY <1>1 DEF Positions
  <1>4. acked \in Nat /\ acked <= Len(stream)
    BY <1>2 DEF TypeOK
  <1>5. consumer.received \in acked..Len(stream)
    BY DEF TypeOK
  <1> QED
    BY <1>2, <1>3, <1>4, <1>5 DEF Events

LEMMA SameTransaction ==
  ASSUME NEW j, NEW k
  PROVE  Same(j, k) <=> Transaction(stream[j]) = Transaction(stream[k])
  BY DEF Same, Transaction

LEMMA EndsAfter ==
  ASSUME TypeOK, StreamInv, NEW i \in Positions, NEW k \in Positions,
         Is(i, "prepare"), Ends(k), Same(i, k)
  PROVE  /\ i < k
         /\ \A j \in Positions : i < j /\ j < k => stream[j].gid # stream[k].gid
  <1>1. PICK h \in Positions :
          /\ Is(h, "prepare") /\ Same(h, k) /\ h < k
          /\ \A j \in Positions : h < j /\ j < k => stream[j].gid # stream[k].gid
    BY DEF StreamInv
  <1>2. h = i
    BY <1>1 DEF StreamInv, Same
  <1> QED
    BY <1>1, <1>2

\* A transaction ends once.
LEMMA EndsOnce ==
  ASSUME TypeOK, StreamInv, NEW j \in Positions, NEW k \in Positions,
         Ends(j), Ends(k), Same(j, k)
  PROVE  j = k
  <1>1. PICK i \in Positions : Is(i, "prepare") /\ Same(i, j)
    BY DEF StreamInv
  <1>2. Same(i, k)
    BY <1>1 DEF Same
  <1>3. /\ i < j /\ i < k
        /\ \A h \in Positions : i < h /\ h < j => stream[h].gid # stream[j].gid
        /\ \A h \in Positions : i < h /\ h < k => stream[h].gid # stream[k].gid
    BY <1>1, <1>2, EndsAfter
  <1>4. ~(j < k) /\ ~(k < j)
    BY <1>3 DEF Same
  <1> QED
    BY <1>4, StreamTypes

\* Of two transactions with one gid, the first ends before the second starts.
LEMMA EndsFirst ==
  ASSUME TypeOK, StreamInv, NEW i \in Positions, NEW k \in Positions,
         Is(i, "prepare"), Ends(k), i < k, stream[i].gid = stream[k].gid, ~Same(i, k)
  PROVE  \E j \in Positions : Ends(j) /\ Same(i, j) /\ i < j /\ j < k
  <1>1. PICK h \in Positions :
          /\ Is(h, "prepare") /\ Same(h, k) /\ h < k
          /\ \A j \in Positions : h < j /\ j < k => stream[j].gid # stream[k].gid
    BY DEF StreamInv
  <1>2. i # h
    BY <1>1
  <1>3. ~(h < i)
    BY <1>1
  <1>4. i < h
    BY <1>2, <1>3, StreamTypes
  <1>5. PICK j \in Positions : Ends(j) /\ Same(i, j) /\ i < j /\ j < h
    BY <1>1, <1>4 DEF StreamInv, Same
  <1> QED
    BY <1>1, <1>5, StreamTypes

-----------------------------------------------------------------------------
(* The source *)

LEMMA AmongPositions ==
  ASSUME TypeOK, NEW n \in 0..Len(stream), NEW kind, NEW t
  PROVE  t \in Among(n, kind)
           <=> \E k \in Positions : /\ k <= n /\ Is(k, kind)
                                    /\ Transaction(stream[k]) = t
  <1>1. Positions = 1..Len(stream) /\ Len(stream) \in Nat
    BY StreamTypes
  <1>2. \A k : k \in 1..n <=> k \in Positions /\ k <= n
    BY <1>1
  <1> QED
    BY <1>2 DEF Among, Is

\* A new event at the end, of a transaction whose open gid it respects.
LEMMA Extends ==
  ASSUME TypeOK, NEW kind \in {"prepare", "commit", "rollback"}, NEW t \in Transactions,
         Emits(kind, t)
  PROVE  /\ Positions' = Positions \union {Len(stream) + 1}
         /\ \A k \in Positions : stream'[k] = stream[k] /\ k < Len(stream) + 1
         /\ stream'[Len(stream) + 1] = [kind |-> kind, gid |-> t[1], xid |-> t[2]]
         /\ stream' \in Seq(Events) /\ Len(stream') = Len(stream) + 1
  <1> DEFINE e == [kind |-> kind, gid |-> t[1], xid |-> t[2]]
  <1>1. e \in Events
    BY DEF Transactions, Events
  <1>2. stream' = Append(stream, e) /\ stream \in Seq(Events)
    BY DEF Emits, TypeOK
  <1> HIDE DEF e
  <1>3. /\ stream' \in Seq(Events) /\ Len(stream') = Len(stream) + 1
        /\ \A k \in 1..Len(stream) : stream'[k] = stream[k]
        /\ stream'[Len(stream) + 1] = e
    BY <1>1, <1>2
  <1>4. Len(stream) \in Nat /\ Positions = 1..Len(stream) /\ Positions' = 1..Len(stream')
    BY <1>2, <1>3 DEF Positions
  <1> QED
    BY <1>3, <1>4 DEF e

LEMMA PreparesStream ==
  ASSUME TypeOK, StreamInv, NEW t \in Transactions, Emits("prepare", t),
         \A used \in EventsOf("prepare") : used[2] # t[2],
         \A open \in PreparedBy(Len(stream)) : open[1] # t[1]
  PROVE  StreamInv'
  <1> DEFINE last == Len(stream) + 1
  <1>1. /\ Positions' = Positions \union {last}
        /\ \A k \in Positions : stream'[k] = stream[k] /\ k < last
        /\ stream'[last] = [kind |-> "prepare", gid |-> t[1], xid |-> t[2]]
    BY Extends
  <1>2. \A i \in Positions : Is(i, "prepare") => stream[i].xid # t[2]
    <2> TAKE i \in Positions
    <2> HAVE Is(i, "prepare")
    <2>1. Transaction(stream[i]) \in EventsOf("prepare")
      BY AmongPositions, StreamTypes DEF EventsOf
    <2> QED
      BY <2>1 DEF Transaction
  <1>3. \A i \in Positions : Is(i, "prepare") /\ stream[i].gid = t[1] =>
          \E k \in Positions : Ends(k) /\ Same(i, k) /\ i < k
    <2> SUFFICES ASSUME NEW i \in Positions, Is(i, "prepare"), stream[i].gid = t[1]
                 PROVE  \E k \in Positions : Ends(k) /\ Same(i, k) /\ i < k
      OBVIOUS
    <2>1. Transaction(stream[i]) \notin PreparedBy(Len(stream))
      BY DEF Transaction
    <2>2. Transaction(stream[i]) \in Among(Len(stream), "prepare")
      BY AmongPositions, StreamTypes
    <2>3. Transaction(stream[i]) \in Among(Len(stream), "commit")
            \/ Transaction(stream[i]) \in Among(Len(stream), "rollback")
      BY <2>1, <2>2 DEF PreparedBy
    <2>4. PICK k \in Positions : /\ Is(k, "commit") \/ Is(k, "rollback")
                                 /\ Transaction(stream[k]) = Transaction(stream[i])
      BY <2>3, AmongPositions, StreamTypes
    <2>5. Ends(k) /\ Same(i, k)
      BY <2>4, SameTransaction DEF Ends, Is
    <2> QED
      BY <2>5, EndsAfter
  <1>4. \A i, j \in Positions' :
          Is(i, "prepare")' /\ Is(j, "prepare")' /\ stream'[i].xid = stream'[j].xid => i = j
    BY <1>1, <1>2 DEF StreamInv, Is
  <1>5. ASSUME NEW j \in Positions', Ends(j)'
        PROVE  \E i \in Positions' :
                 /\ Is(i, "prepare")' /\ Same(i, j)' /\ i < j
                 /\ \A k \in Positions' :
                      i < k /\ k < j => stream'[k].gid # stream'[j].gid
    <2>1. j \in Positions /\ Ends(j)
      BY <1>1, <1>5 DEF Ends, Is
    <2>2. PICK i \in Positions :
            /\ Is(i, "prepare") /\ Same(i, j) /\ i < j
            /\ \A k \in Positions : i < k /\ k < j => stream[k].gid # stream[j].gid
      BY <2>1 DEF StreamInv
    <2>3. ~(last < j)
      BY <1>1, <2>1, StreamTypes
    <2> QED
      BY <1>1, <2>1, <2>2, <2>3 DEF Is, Same
  <1>6. ASSUME NEW i \in Positions', NEW j \in Positions',
               Is(i, "prepare")', Is(j, "prepare")', i < j, stream'[i].gid = stream'[j].gid
        PROVE  \E k \in Positions' : Ends(k)' /\ Same(i, k)' /\ i < k /\ k < j
    <2>1. i \in Positions
      BY <1>1, <1>6, StreamTypes
    <2>2. PICK k \in Positions : Ends(k) /\ Same(i, k) /\ i < k /\ k < j
      <3>1. CASE j \in Positions
        BY <1>1, <1>6, <2>1, <3>1 DEF StreamInv, Is
      <3>2. CASE j = last
        BY <1>1, <1>3, <1>6, <2>1, <3>2 DEF Is
      <3> QED
        BY <1>1, <3>1, <3>2
    <2> QED
      BY <1>1, <2>1, <2>2 DEF Ends, Is, Same
  <1> QED
    BY <1>4, <1>5, <1>6 DEF StreamInv

LEMMA EndsStream ==
  ASSUME TypeOK, StreamInv, NEW t \in PreparedBy(Len(stream)),
         NEW kind \in {"commit", "rollback"}, Emits(kind, t)
  PROVE  StreamInv'
  <1> DEFINE last == Len(stream) + 1
  <1>1. PICK i \in Positions : Is(i, "prepare") /\ Transaction(stream[i]) = t
    BY AmongPositions, StreamTypes DEF PreparedBy
  <1>2. t \in Transactions /\ t[1] = stream[i].gid /\ t[2] = stream[i].xid
    BY <1>1, StreamTypes DEF Transaction, Transactions
  <1>3. /\ Positions' = Positions \union {last}
        /\ \A k \in Positions : stream'[k] = stream[k] /\ k < last
        /\ stream'[last] = [kind |-> kind, gid |-> t[1], xid |-> t[2]]
    BY <1>2, Extends
  <1>4. \A k \in Positions : Ends(k) => ~Same(i, k)
    <2> SUFFICES ASSUME NEW k \in Positions, Ends(k), Same(i, k)
                 PROVE  FALSE
      OBVIOUS
    <2>1. Transaction(stream[k]) = t
      BY <1>1, SameTransaction
    <2>2. Is(k, "commit") \/ Is(k, "rollback")
      BY StreamTypes DEF Ends, Is
    <2>3. t \in Among(Len(stream), "commit") \/ t \in Among(Len(stream), "rollback")
      BY <2>1, <2>2, AmongPositions, StreamTypes
    <2> QED
      BY <2>3 DEF PreparedBy
  <1>5. \A k \in Positions : i < k => stream[k].gid # t[1]
    <2> SUFFICES ASSUME NEW k \in Positions, i < k, stream[k].gid = stream[i].gid
                 PROVE  FALSE
      BY <1>2
    <2>1. CASE Is(k, "prepare")
      BY <1>1, <1>4, <2>1 DEF StreamInv
    <2>2. CASE Ends(k)
      BY <1>1, <1>4, <2>2, EndsFirst
    <2> QED
      BY <2>1, <2>2 DEF Ends
  <1>6. \A k, j \in Positions' :
          Is(k, "prepare")' /\ Is(j, "prepare")' /\ stream'[k].xid = stream'[j].xid => k = j
    BY <1>3 DEF StreamInv, Is
  <1>7. ASSUME NEW j \in Positions', Ends(j)'
        PROVE  \E h \in Positions' :
                 /\ Is(h, "prepare")' /\ Same(h, j)' /\ h < j
                 /\ \A k \in Positions' :
                      h < k /\ k < j => stream'[k].gid # stream'[j].gid
    <2>1. CASE j = last
      <3>1. ~(last < last)
        BY StreamTypes
      <3> QED
        BY <1>1, <1>2, <1>3, <1>5, <2>1, <3>1 DEF Is, Same
    <2>2. CASE j \in Positions
      <3>1. PICK h \in Positions :
              /\ Is(h, "prepare") /\ Same(h, j) /\ h < j
              /\ \A k \in Positions : h < k /\ k < j => stream[k].gid # stream[j].gid
        BY <1>3, <1>7, <2>2 DEF StreamInv, Ends, Is
      <3>2. ~(last < j)
        BY <1>3, <2>2, StreamTypes
      <3> QED
        BY <1>3, <2>2, <3>1, <3>2 DEF Is, Same
    <2> QED
      BY <1>3, <2>1, <2>2
  <1>8. ASSUME NEW h \in Positions', NEW j \in Positions',
               Is(h, "prepare")', Is(j, "prepare")', h < j, stream'[h].gid = stream'[j].gid
        PROVE  \E k \in Positions' : Ends(k)' /\ Same(h, k)' /\ h < k /\ k < j
    <2>1. h \in Positions /\ j \in Positions
      BY <1>3, <1>8 DEF Is
    <2>2. PICK k \in Positions : Ends(k) /\ Same(h, k) /\ h < k /\ k < j
      BY <1>3, <1>8, <2>1 DEF StreamInv, Is
    <2> QED
      BY <1>3, <2>1, <2>2 DEF Ends, Is, Same
  <1> QED
    BY <1>6, <1>7, <1>8 DEF StreamInv

\* What the source adds concerns nothing the consumer has received.
LEMMA SourceKeeps ==
  ASSUME ConsumerInv, NEW kind \in {"prepare", "commit", "rollback"},
         NEW t \in Transactions, Emits(kind, t), StreamInv'
  PROVE  ConsumerInv'
  <1>1. UNCHANGED <<acked, store, target, marked, discarded, consumer, crashes>>
    BY DEF Emits
  <1>2. /\ Positions' = Positions \union {Len(stream) + 1}
        /\ \A k \in Positions : stream'[k] = stream[k] /\ k < Len(stream) + 1
        /\ stream' \in Seq(Events) /\ Len(stream') = Len(stream) + 1
    BY Extends DEF ConsumerInv
  <1>3. /\ Len(stream) \in Nat /\ Positions = 1..Len(stream)
        /\ acked \in Nat /\ consumer.received \in Nat
        /\ acked <= consumer.received /\ consumer.received <= Len(stream)
    BY StreamTypes DEF ConsumerInv
  <1>4. \A k \in Positions' : k <= consumer.received => k \in Positions
    BY <1>2, <1>3
  <1>5. consumer.pc # "idle" => consumer.received \in Positions
    BY <1>3 DEF ConsumerInv, ControlInv, At
  <1>6. consumer.pc # "idle" => stream'[consumer.received] = stream[consumer.received]
    BY <1>2, <1>5
  <1>7. Settled' = Settled
    BY <1>1, <1>6 DEF Settled, At, Event
  <1>8. \A k \in Positions : Passed(k)' <=> Passed(k)
    BY <1>1, <1>7 DEF Passed
  <1>9. \A k \in Positions' : Passed(k)' => k \in Positions
    BY <1>1, <1>4 DEF Passed
  <1>10. TypeOK'
    <2>1. Len(stream') <= MaxStream
      BY <1>2, <1>3, ConsumerAssumption DEF Emits, ConsumerInv, TypeOK
    <2>2. acked \in 0..Len(stream')
      BY <1>2, <1>3
    <2>3. consumer \in [ pc : Counters, received : acked..Len(stream'), raised : Raised ]
      BY <1>2, <1>3 DEF ConsumerInv, TypeOK
    <2>4. At("mark")' => InPhase("Prepared")'
      BY <1>1, <1>6 DEF ConsumerInv, TypeOK, At, InPhase, Exists, Gid, Event
    <2> QED
      BY <1>1, <1>2, <2>1, <2>2, <2>3, <2>4 DEF ConsumerInv, TypeOK
  <1>11. ControlInv'
    BY <1>1, <1>5, <1>6 DEF ConsumerInv, ControlInv, At, Is, Kept, KeptAs, Event,
                            Transaction
  <1>12. \A k \in Positions : Discarded(k) => Discarded(k)'
    BY <1>1, <1>2 DEF Discarded, Is, Same, Transaction
  <1>13. ProgressInv'
    <2>1. \A k \in Positions' : Passed(k)' /\ Is(k, "commit")' => k <= acked'
      BY <1>1, <1>2, <1>8, <1>9 DEF ConsumerInv, ProgressInv, Is
    <2>2. \A k \in Positions' : Passed(k)' /\ Is(k, "rollback")'
            => Transaction(stream'[k]) \in discarded'
      BY <1>1, <1>2, <1>8, <1>9 DEF ConsumerInv, ProgressInv, Is
    <2>3. ASSUME NEW i \in Positions', Passed(i)', Is(i, "prepare")',
                 \A k \in Positions' : Passed(k)' /\ Ends(k)' => ~Same(i, k)'
          PROVE  Kept(i)' \/ Discarded(i)'
      <3>1. i \in Positions /\ Passed(i) /\ Is(i, "prepare")
        BY <1>2, <1>8, <1>9, <2>3 DEF Is
      <3>2. \A k \in Positions : Passed(k) /\ Ends(k) => ~Same(i, k)
        BY <1>2, <1>8, <2>3, <3>1 DEF Ends, Is, Same
      <3>3. Kept(i) \/ Discarded(i)
        BY <3>1, <3>2 DEF ConsumerInv, ProgressInv
      <3> QED
        BY <1>1, <1>2, <1>12, <3>1, <3>3 DEF Kept
    <2> QED
      BY <2>1, <2>2, <2>3 DEF ProgressInv
  <1>14. TargetInv'
    <2>1. \A k \in Positions' : k <= acked' => k \in Positions
      BY <1>1, <1>2, <1>3
    <2>2. ASSUME NEW u \in target
          PROVE  \E c \in Positions' :
                   /\ Is(c, "commit")' /\ Transaction(stream'[c]) = u
                   /\ \A k \in Positions' : k < c /\ Is(k, "commit")' => k <= acked'
                   /\ \A k \in Positions' : k < c /\ Is(k, "rollback")'
                        => Transaction(stream'[k]) \in discarded'
      <3>1. PICK c \in Positions :
              /\ Is(c, "commit") /\ Transaction(stream[c]) = u
              /\ \A k \in Positions : k < c /\ Is(k, "commit") => k <= acked
              /\ \A k \in Positions : k < c /\ Is(k, "rollback")
                   => Transaction(stream[k]) \in discarded
        BY DEF ConsumerInv, TargetInv
      <3>2. \A k \in Positions' : k < c => k \in Positions
        BY <1>2, <1>3
      <3> QED
        BY <1>1, <1>2, <3>1, <3>2 DEF Is
    <2> QED
      BY <1>1, <1>2, <2>1, <2>2 DEF ConsumerInv, TargetInv, Is
  <1>15. StoreInv'
    BY <1>1, <1>2 DEF ConsumerInv, StoreInv, Is
  <1>16. RefusedIsSettled'
    <2>1. Among(acked, "commit")' = Among(acked, "commit")
      <3>1. \A k \in 1..acked : stream'[k] = stream[k]
        BY <1>2, <1>3
      <3> QED
        BY <1>1, <3>1 DEF Among
    <2>2. CASE consumer.raised = "none"
      BY <1>1, <2>2, Zenon DEF RefusedIsSettled
    <2>3. CASE consumer.raised # "none"
      <3>1. Event' = Event
        BY <1>1, <1>6, <2>3 DEF ConsumerInv, ControlInv, At, Event
      <3>2. Gid' = Gid
        BY <3>1 DEF Gid
      <3> QED
        BY <1>1, <2>1, <3>1, <3>2, Zenon DEF ConsumerInv, RefusedIsSettled
    <2> QED
      BY <2>2, <2>3
  <1> QED
    BY <1>10, <1>11, <1>13, <1>14, <1>15, <1>16 DEF ConsumerInv

LEMMA SourceStep ==
  ASSUME ConsumerInv, SourcePrepares \/ SourceEnds
  PROVE  ConsumerInv'
  <1>1. CASE SourcePrepares
    <2>1. PICK t \in Transactions :
            /\ Emits("prepare", t)
            /\ \A used \in EventsOf("prepare") : used[2] # t[2]
            /\ \A open \in PreparedBy(Len(stream)) : open[1] # t[1]
      BY <1>1 DEF SourcePrepares
    <2> QED
      BY <2>1, PreparesStream, SourceKeeps DEF ConsumerInv
  <1>2. CASE SourceEnds
    <2>1. PICK t \in PreparedBy(Len(stream)), kind \in {"commit", "rollback"} :
            Emits(kind, t)
      BY <1>2 DEF SourceEnds
    <2>2. t \in Transactions
      <3>1. PICK i \in Positions : Transaction(stream[i]) = t
        BY AmongPositions, StreamTypes DEF PreparedBy, ConsumerInv
      <3> QED
        BY <3>1, StreamTypes DEF ConsumerInv, Transaction, Transactions
    <2> QED
      BY <2>1, <2>2, EndsStream, SourceKeeps DEF ConsumerInv
  <1> QED
    BY <1>1, <1>2

-----------------------------------------------------------------------------
(* What every step of the consumer leaves alone *)

LEMMA StreamStays ==
  ASSUME StreamInv, UNCHANGED stream
  PROVE  /\ StreamInv' /\ Positions' = Positions
         /\ \A k, kind : Is(k, kind)' = Is(k, kind)
         /\ \A k : Ends(k)' = Ends(k)
         /\ \A j, k : Same(j, k)' = Same(j, k)
  BY DEF StreamInv, Positions, Ends, Is, Same

\* The consumer handles an event it has received and not acknowledged.
LEMMA Handling ==
  ASSUME ConsumerInv, consumer.pc # "idle"
  PROVE  /\ consumer.received \in Positions
         /\ Event = stream[consumer.received] /\ Gid = stream[consumer.received].gid
         /\ Event \in Events /\ Gid \in Gids
         /\ consumer.pc # "forget" => acked < consumer.received
         /\ consumer.pc # "failed" => consumer.raised = "none"
  <1>1. consumer.received > 0
    BY StreamTypes DEF ConsumerInv, ControlInv, At
  <1>2. consumer.received \in Positions
    BY <1>1, StreamTypes DEF ConsumerInv
  <1>3. consumer.pc # "failed" => consumer.raised = "none"
    BY DEF ConsumerInv, ControlInv, At
  <1>4. consumer.pc # "forget" => acked < consumer.received
    BY DEF ConsumerInv, ControlInv
  <1> QED
    BY <1>2, <1>3, <1>4, StreamTypes DEF ConsumerInv, Event, Gid

LEMMA Moves ==
  ASSUME TypeOK, NEW pc \in Counters, Goto(pc)
  PROVE  /\ consumer' = [pc |-> pc, received |-> consumer.received,
                         raised |-> consumer.raised]
         /\ consumer'.pc = pc /\ consumer'.received = consumer.received
         /\ consumer'.raised = consumer.raised
  BY DEF TypeOK, Goto

LEMMA Fails ==
  ASSUME TypeOK, NEW what, Raises(what)
  PROVE  /\ consumer'.pc = "failed" /\ consumer'.received = consumer.received
         /\ consumer'.raised = what
         /\ what \in Raised => consumer' \in
              [ pc : Counters, received : acked..Len(stream), raised : Raised ]
  BY DEF TypeOK, Raises, Counters

\* An end whose turn it is finds its transaction, or it has been discarded.
LEMMA EndFinds ==
  ASSUME ConsumerInv, At("handle"), Ends(consumer.received)
  PROVE  /\ Kept(consumer.received) \/ Discarded(consumer.received)
         /\ Is(consumer.received, "commit") => Kept(consumer.received)
  <1> DEFINE r == consumer.received
  <1>1. r \in Positions
    BY Handling DEF At
  <1>2. PICK i \in Positions : Is(i, "prepare") /\ Same(i, r) /\ i < r
    BY <1>1 DEF ConsumerInv, StreamInv
  <1>3. \A k \in Positions : Passed(k) => k # r
    BY DEF Passed, Settled, At
  <1>4. Passed(i)
    BY <1>1, <1>2, StreamTypes DEF Passed, ConsumerInv
  <1>5. \A k \in Positions : Passed(k) /\ Ends(k) => ~Same(i, k)
    BY <1>1, <1>2, <1>3, EndsOnce DEF Same, ConsumerInv
  <1>6. Kept(i) \/ Discarded(i)
    BY <1>2, <1>4, <1>5 DEF ConsumerInv, ProgressInv
  <1>7. Kept(r) \/ Discarded(r)
    BY <1>2, <1>6 DEF Kept, Discarded, Same, Transaction
  <1>8. Discarded(r) => Is(r, "rollback")
    BY <1>1, EndsOnce DEF Discarded, ConsumerInv, Ends, Is
  <1> QED
    BY <1>7, <1>8 DEF Is

\* A transaction the target has is not one that ends with a rollback.
LEMMA CommittedOnly ==
  ASSUME ConsumerInv, NEW k \in Positions, Is(k, "rollback"),
         Transaction(stream[k]) \in target
  PROVE  FALSE
  <1>1. PICK c \in Positions : Is(c, "commit") /\ Transaction(stream[c]) = Transaction(stream[k])
    BY DEF ConsumerInv, TargetInv
  <1>2. c = k
    BY <1>1, EndsOnce, SameTransaction DEF ConsumerInv, Ends, Is
  <1> QED
    BY <1>1, <1>2 DEF Is

\* No transaction of the gid of an end is open once the end is carried out.
LEMMA NothingOpen ==
  ASSUME ConsumerInv, NEW r \in Positions, Ends(r),
         NEW i \in Positions, Is(i, "prepare"), i <= r, stream[i].gid = stream[r].gid
  PROVE  \E k \in Positions : k <= r /\ Ends(k) /\ Same(i, k)
  <1>1. i < r
    BY StreamTypes DEF Ends, ConsumerInv
  <1>2. CASE Same(i, r)
    BY <1>2, StreamTypes DEF ConsumerInv
  <1>3. CASE ~Same(i, r)
    BY <1>1, <1>3, EndsFirst, StreamTypes DEF ConsumerInv
  <1> QED
    BY <1>2, <1>3

-----------------------------------------------------------------------------
(* The consumer's steps *)

\* ProgressInv, when no more is carried out than before and the store keeps what
\* it has.
LEMMA ProgressStays ==
  ASSUME ConsumerInv, UNCHANGED <<stream, discarded>>,
         acked' \in Nat, acked <= acked',
         \A k \in Positions : Passed(k)' <=> Passed(k),
         \A k \in Positions : Kept(k)' <=> Kept(k)
  PROVE  ProgressInv'
  <1>1. /\ Positions' = Positions
        /\ \A k, kind : Is(k, kind)' = Is(k, kind)
        /\ \A k : Ends(k)' = Ends(k)
        /\ \A j, k : Same(j, k)' = Same(j, k)
    BY StreamStays DEF ConsumerInv
  <1>2. \A k \in Positions : Discarded(k)' <=> Discarded(k)
    BY <1>1 DEF Discarded
  <1>3. \A k \in Positions : k <= acked => k <= acked'
    BY StreamTypes DEF ConsumerInv
  <1> QED
    BY <1>1, <1>2, <1>3 DEF ConsumerInv, ProgressInv

\* TargetInv, when the target, which may grow elsewhere, stays as it is.
LEMMA TargetStays ==
  ASSUME ConsumerInv, UNCHANGED <<stream, target>>,
         acked' \in Nat, acked <= acked', discarded \subseteq discarded',
         \A k \in Positions : k <= acked' /\ ~(k <= acked) /\ Is(k, "commit")
           => Transaction(stream[k]) \in target
  PROVE  TargetInv'
  <1>1. /\ Positions' = Positions
        /\ \A k, kind : Is(k, kind)' = Is(k, kind)
    BY StreamStays DEF ConsumerInv
  <1>2. \A k \in Positions : k <= acked => k <= acked'
    BY StreamTypes DEF ConsumerInv
  <1>3. \A k \in Positions : k <= acked' /\ Is(k, "commit")
          => Transaction(stream[k]) \in target
    BY DEF ConsumerInv, TargetInv
  <1>4. ASSUME NEW u \in target
        PROVE  \E c \in Positions :
                 /\ Is(c, "commit") /\ Transaction(stream[c]) = u
                 /\ \A k \in Positions : k < c /\ Is(k, "commit") => k <= acked'
                 /\ \A k \in Positions : k < c /\ Is(k, "rollback")
                      => Transaction(stream[k]) \in discarded'
    BY <1>2 DEF ConsumerInv, TargetInv
  <1> QED
    BY <1>1, <1>3, <1>4 DEF TargetInv

LEMMA NotRefused ==
  ASSUME consumer'.raised = "none"
  PROVE  RefusedIsSettled'
  BY Zenon DEF RefusedIsSettled

LEMMA ReceiveStep ==
  ASSUME ConsumerInv, Receive
  PROVE  ConsumerInv'
  <1> DEFINE r == consumer.received
  <1>1. /\ UNCHANGED <<stream, acked, store, target, marked, discarded, crashes>>
        /\ consumer.pc = "idle" /\ r < Len(stream)
        /\ consumer' = [consumer EXCEPT !.pc = "handle", !.received = r + 1]
    BY DEF Receive, sourceVars, At
  <1>2. /\ Len(stream) \in Nat /\ acked \in Nat /\ r \in Nat /\ acked <= r
        /\ Positions = 1..Len(stream)
    BY StreamTypes DEF ConsumerInv
  <1>3. consumer.raised = "none"
    BY <1>1 DEF ConsumerInv, ControlInv, At
  <1>4. consumer \in [ pc : Counters, received : acked..Len(stream), raised : Raised ]
    BY DEF ConsumerInv, TypeOK
  <1>5. /\ consumer'.pc = "handle" /\ consumer'.received = r + 1
        /\ consumer'.raised = "none"
        /\ consumer' \in [ pc : Counters, received : acked..Len(stream), raised : Raised ]
    <2>1. r + 1 \in acked..Len(stream) /\ "handle" \in Counters
      BY <1>1, <1>2 DEF Counters
    <2> QED
      BY <1>1, <1>3, <1>4, <2>1
  <1>6. TypeOK'
    BY <1>1, <1>5 DEF ConsumerInv, TypeOK, At
  <1>7. \A k \in Positions : Passed(k)' <=> Passed(k)
    BY <1>1, <1>2, <1>5 DEF Passed, Settled, At
  <1>8. \A k \in Positions : Kept(k)' <=> Kept(k)
    BY <1>1 DEF Kept
  <1>9. ProgressInv' /\ TargetInv'
    BY <1>1, <1>2, <1>7, <1>8, ProgressStays, TargetStays
  <1>10. ControlInv'
    BY <1>1, <1>2, <1>5 DEF ControlInv, At
  <1>11. StreamInv' /\ StoreInv'
    BY <1>1, StreamStays DEF ConsumerInv, StoreInv
  <1> QED
    BY <1>5, <1>6, <1>9, <1>10, <1>11, NotRefused DEF ConsumerInv

\* Prepare puts the transaction, unless one is applied and not yet forgotten.
Puts == Put /\ ~InPhase("Target_Applied")

\* What Prepare, which puts the transaction or finds it applied, leaves behind.
LEMMA PrepareKeeps ==
  ASSUME ConsumerInv, Prepare, Goto("acknowledge"),
         Puts \/ (UNCHANGED store /\ Kept(consumer.received))
  PROVE  ConsumerInv'
  <1> PICK r : r = consumer.received
    OBVIOUS
  <1>1. /\ UNCHANGED <<stream, acked, target, marked, discarded, crashes>>
        /\ consumer.pc = "handle" /\ Event.kind = "prepare"
    BY DEF Prepare, sourceVars, Handles, At
  <1>2. /\ r \in Positions /\ Event = stream[r] /\ Gid = stream[r].gid
        /\ Event \in Events /\ Gid \in Gids
        /\ acked < r /\ consumer.raised = "none" /\ Is(r, "prepare")
    BY <1>1, Handling DEF Is
  <1>3. /\ consumer'.pc = "acknowledge" /\ consumer'.received = r
        /\ consumer'.raised = "none"
        /\ consumer' \in [ pc : Counters, received : acked..Len(stream), raised : Raised ]
    BY <1>2, Moves DEF ConsumerInv, TypeOK, Counters
  <1>4. store \in [Gids -> Stored \union {NoTransaction}]
    BY DEF ConsumerInv, TypeOK
  <1> DEFINE e == [xid |-> Event.xid, phase |-> "Prepared"]
  <1>5. Puts => store' = [store EXCEPT ![Gid] = e]
    BY DEF Puts, Put
  <1>6. e \in Stored /\ e.xid = stream[r].xid /\ e.phase = "Prepared" /\ e # NoTransaction
    BY <1>2, ConsumerAssumption DEF Events, Stored
  <1> HIDE DEF e
  <1>7. store' \in [Gids -> Stored \union {NoTransaction}]
    BY <1>2, <1>4, <1>5, <1>6
  <1>8. TypeOK'
    BY <1>1, <1>3, <1>7 DEF ConsumerInv, TypeOK, At
  <1>9. \A gid \in Gids \ {Gid} : store'[gid] = store[gid]
    BY <1>4, <1>5
  <1>10. Puts => store'[Gid] = e
    BY <1>2, <1>4, <1>5
  <1>11. Kept(r)'
    BY <1>1, <1>2, <1>6, <1>10 DEF Kept
  <1>12. /\ StreamInv' /\ Positions' = Positions
         /\ \A k, kind : Is(k, kind)' = Is(k, kind)
         /\ \A k : Ends(k)' = Ends(k)
         /\ \A j, k : Same(j, k)' = Same(j, k)
    BY <1>1, StreamStays DEF ConsumerInv
  <1>13. \A k \in Positions : Passed(k)' <=> Passed(k) \/ k = r
    BY <1>1, <1>2, <1>3, StreamTypes DEF Passed, Settled, At, Event, ConsumerInv
  <1>14. ProgressInv'
    <2>1. \A k \in Positions : Passed(k)' /\ Is(k, "commit") => k <= acked
      BY <1>2, <1>13 DEF ConsumerInv, ProgressInv, Is
    <2>2. \A k \in Positions : Passed(k)' /\ Is(k, "rollback")
            => Transaction(stream[k]) \in discarded
      BY <1>2, <1>13 DEF ConsumerInv, ProgressInv, Is
    <2>3. ASSUME NEW i \in Positions, Passed(i)', Is(i, "prepare"),
                 \A k \in Positions : Passed(k)' /\ Ends(k) => ~Same(i, k)
          PROVE  Kept(i)' \/ Discarded(i)
      <3>1. CASE i = r
        BY <1>11, <3>1
      <3>2. CASE i # r
        <4>1. Kept(i) \/ Discarded(i)
          BY <1>13, <2>3, <3>2 DEF ConsumerInv, ProgressInv
        <4>2. i < r
          BY <1>2, <1>13, <2>3, <3>2, StreamTypes DEF Passed, ConsumerInv
        <4>3. stream[i].gid # Gid
          <5> SUFFICES ASSUME stream[i].gid = stream[r].gid PROVE FALSE
            BY <1>2
          <5>1. PICK k \in Positions : Ends(k) /\ Same(i, k) /\ k < r
            BY <1>2, <2>3, <4>2 DEF ConsumerInv, StreamInv
          <5>2. Passed(k)
            BY <1>2, <5>1, StreamTypes DEF Passed, ConsumerInv
          <5> QED
            BY <1>13, <2>3, <5>1, <5>2
        <4>4. stream[i].gid \in Gids
          BY StreamTypes DEF ConsumerInv
        <4> QED
          BY <1>1, <1>9, <4>1, <4>3, <4>4 DEF Kept
      <3> QED
        BY <3>1, <3>2
    <2>4. \A i \in Positions : Discarded(i) => Discarded(i)'
      BY <1>1, <1>12 DEF Discarded
    <2> QED
      BY <1>1, <1>12, <2>1, <2>2, <2>3, <2>4 DEF ProgressInv
  <1>15. TargetInv'
    BY <1>1, TargetStays, StreamTypes DEF ConsumerInv
  <1>16. ControlInv'
    BY <1>1, <1>2, <1>3, <1>12 DEF ControlInv, At, Is
  <1>17. StoreInv'
    <2>1. CASE UNCHANGED store
      BY <1>1, <1>12, <2>1 DEF ConsumerInv, StoreInv
    <2>2. CASE Puts
      <3>1. Transaction(stream[r]) \notin marked
        <4> SUFFICES ASSUME Transaction(stream[r]) \in marked PROVE FALSE
          OBVIOUS
        <4>1. PICK k \in Positions : /\ k <= acked /\ Is(k, "commit")
                                     /\ Transaction(stream[k]) = Transaction(stream[r])
          BY <1>2, <2>2 DEF ConsumerInv, StoreInv, Puts, InPhase, Exists, Transaction
        <4>2. r < k
          BY <1>2, <4>1, EndsAfter, SameTransaction DEF ConsumerInv, Ends, Is
        <4> QED
          BY <1>2, <4>1, <4>2, StreamTypes DEF ConsumerInv
      <3>2. \A gid \in Gids : store'[gid] # NoTransaction =>
              /\ store'[gid].phase = "Target_Applied"
                   => <<gid, store'[gid].xid>> \in target
              /\ store'[gid].phase = "Prepared"
                   => <<gid, store'[gid].xid>> \notin marked
        BY <1>2, <1>6, <1>9, <1>10, <2>2, <3>1 DEF ConsumerInv, StoreInv, Transaction
      <3>3. ASSUME NEW t \in marked
            PROVE  \/ /\ store'[t[1]] # NoTransaction /\ store'[t[1]].xid = t[2]
                      /\ store'[t[1]].phase = "Target_Applied"
                   \/ \E k \in Positions : /\ k <= acked /\ Is(k, "commit")
                                           /\ Transaction(stream[k]) = t
        <4>1. t[1] \in Gids
          BY DEF ConsumerInv, TypeOK, Transactions
        <4>2. CASE t[1] = Gid
          BY <2>2, <4>2 DEF ConsumerInv, StoreInv, Puts, InPhase, Exists
        <4>3. CASE t[1] # Gid
          BY <1>9, <4>1, <4>3 DEF ConsumerInv, StoreInv
        <4> QED
          BY <4>2, <4>3
      <3> QED
        BY <1>1, <1>12, <3>2, <3>3 DEF StoreInv
    <2> QED
      BY <2>1, <2>2
  <1> QED
    BY <1>3, <1>8, <1>12, <1>14, <1>15, <1>16, <1>17, NotRefused DEF ConsumerInv

\* A refused consumer changes nothing but itself.
LEMMA FailsKeeps ==
  ASSUME ConsumerInv, At("handle"), NEW what \in Raised, Raises(what),
         UNCHANGED <<sourceVars, store, target, marked, discarded, crashes>>,
         RefusedIsSettled'
  PROVE  ConsumerInv'
  <1> PICK r : r = consumer.received
    OBVIOUS
  <1>1. /\ UNCHANGED <<stream, acked, store, target, marked, discarded, crashes>>
        /\ consumer.pc = "handle"
    BY DEF sourceVars, At
  <1>2. r \in Positions /\ acked < r /\ consumer.raised = "none"
    BY <1>1, Handling
  <1>3. /\ consumer'.pc = "failed" /\ consumer'.received = r
        /\ consumer' \in [ pc : Counters, received : acked..Len(stream), raised : Raised ]
    BY Fails DEF ConsumerInv
  <1>4. TypeOK'
    BY <1>1, <1>3 DEF ConsumerInv, TypeOK, At
  <1>5. \A k \in Positions : Passed(k)' <=> Passed(k)
    BY <1>1, <1>2, <1>3, StreamTypes DEF Passed, Settled, At, ConsumerInv
  <1>6. \A k \in Positions : Kept(k)' <=> Kept(k)
    BY <1>1 DEF Kept
  <1>7. ProgressInv' /\ TargetInv'
    BY <1>1, <1>5, <1>6, ProgressStays, TargetStays, StreamTypes DEF ConsumerInv
  <1>8. ControlInv'
    BY <1>1, <1>2, <1>3 DEF ControlInv, At
  <1>9. StreamInv' /\ StoreInv'
    BY <1>1, StreamStays DEF ConsumerInv, StoreInv
  <1> QED
    BY <1>4, <1>7, <1>8, <1>9 DEF ConsumerInv

\* What Prepare refuses is a transaction that was rolled back, or its gid's commit
\* is acknowledged.
LEMMA RefusedPrepare ==
  ASSUME ConsumerInv, Handles("prepare"), InPhase("Target_Applied"),
         store[Gid].xid # Event.xid
  PROVE  \/ Transaction(Event) \in discarded \ target
         \/ <<Gid, store[Gid].xid>> \in Among(acked, "commit") \intersect target
  <1> PICK r : r = consumer.received
    OBVIOUS
  <1>1. /\ r \in Positions /\ Event = stream[r] /\ Gid = stream[r].gid /\ Gid \in Gids
        /\ acked < r /\ Is(r, "prepare") /\ consumer.pc = "handle"
    BY Handling DEF Handles, At, Is
  <1> PICK u : u = <<Gid, store[Gid].xid>>
    OBVIOUS
  <1>2. u \in target
    BY <1>1 DEF ConsumerInv, StoreInv, InPhase, Exists
  <1>3. PICK c \in Positions :
          /\ Is(c, "commit") /\ Transaction(stream[c]) = u
          /\ \A k \in Positions : k < c /\ Is(k, "commit") => k <= acked
          /\ \A k \in Positions : k < c /\ Is(k, "rollback")
               => Transaction(stream[k]) \in discarded
    BY <1>2 DEF ConsumerInv, TargetInv
  <1>4. stream[c].gid = stream[r].gid /\ ~Same(r, c) /\ Ends(c)
    BY <1>1, <1>3 DEF Transaction, Same, Ends, Is
  <1>5. CASE c <= acked
    <2>1. u \in Among(acked, "commit")
      BY <1>3, <1>5, AmongPositions DEF ConsumerInv, TypeOK
    <2> QED
      BY <1>2, <2>1
  <1>6. CASE ~(c <= acked)
    <2>1. ~(c < r)
      <3> SUFFICES ASSUME c < r PROVE FALSE
        OBVIOUS
      <3>1. Passed(c)
        BY <1>1, <1>3, StreamTypes DEF Passed, ConsumerInv
      <3> QED
        BY <1>3, <1>6, <3>1 DEF ConsumerInv, ProgressInv
    <2>2. r < c
      BY <1>1, <1>4, <2>1, StreamTypes DEF ConsumerInv, Ends
    <2>3. PICK k \in Positions : Ends(k) /\ Same(r, k) /\ r < k /\ k < c
      BY <1>1, <1>4, <2>2, EndsFirst DEF ConsumerInv
    <2>4. ~Is(k, "commit")
      BY <1>1, <1>3, <2>3, StreamTypes DEF ConsumerInv
    <2>5. Is(k, "rollback")
      BY <2>3, <2>4, StreamTypes DEF ConsumerInv, Ends, Is
    <2>6. Transaction(stream[k]) = Transaction(Event)
      BY <1>1, <2>3, SameTransaction
    <2> QED
      BY <1>3, <2>3, <2>5, <2>6, CommittedOnly
  <1> QED
    BY <1>5, <1>6

LEMMA PrepareStep ==
  ASSUME ConsumerInv, Prepare
  PROVE  ConsumerInv'
  <1>0. Handles("prepare")
    BY DEF Prepare
  <1>1. CASE ~InPhase("Target_Applied") /\ Put /\ Goto("acknowledge")
    BY <1>1, PrepareKeeps DEF Puts
  <1>2. CASE /\ InPhase("Target_Applied") /\ store[Gid].xid = Event.xid
             /\ Goto("acknowledge") /\ UNCHANGED store
    <2>1. Kept(consumer.received)
      BY <1>2 DEF InPhase, Exists, Kept, Event, Gid
    <2> QED
      BY <1>2, <2>1, PrepareKeeps
  <1>3. CASE /\ InPhase("Target_Applied") /\ store[Gid].xid # Event.xid
             /\ Raises("prepared GID is awaiting acknowledgement") /\ UNCHANGED store
    <2>1. PICK what \in Raised :
            what = "prepared GID is awaiting acknowledgement" /\ Raises(what)
      BY <1>3, Zenon DEF Raised
    <2>2. consumer'.raised = what /\ consumer'.received = consumer.received
      BY <2>1, Fails DEF ConsumerInv
    <2>3. Event' = Event /\ Gid' = Gid
      BY <2>2 DEF Prepare, sourceVars, Event, Gid
    <2>4. \/ Transaction(Event) \in discarded \ target
          \/ <<Gid, store[Gid].xid>> \in Among(acked, "commit") \intersect target
      BY <1>0, <1>3, RefusedPrepare
    <2>5. Among(acked, "commit")' = Among(acked, "commit")
      BY DEF Prepare, sourceVars, Among, Transaction
    <2>6. Transaction(Event)' = Transaction(Event)
      BY <2>3 DEF Transaction
    <2>7. Event.kind # "commit"
      BY <1>0 DEF Handles
    <2>8. UNCHANGED <<sourceVars, store, target, marked, discarded, crashes>>
      BY <1>3 DEF Prepare
    <2>9. UNCHANGED <<store, target, discarded>>
      BY <2>8
    <2>10. RefusedIsSettled'
      BY <2>1, <2>2, <2>3, <2>4, <2>5, <2>6, <2>7, <2>9, Zenon DEF RefusedIsSettled
    <2> QED
      BY <1>0, <2>1, <2>8, <2>10, FailsKeeps DEF Handles
  <1> QED
    BY <1>1, <1>2, <1>3, Zenon DEF Prepare

LEMMA CommitStep ==
  ASSUME ConsumerInv, Commit
  PROVE  ConsumerInv'
  <1> PICK r : r = consumer.received
    OBVIOUS
  <1>1. /\ UNCHANGED <<stream, acked, store, marked, discarded, crashes>>
        /\ consumer.pc = "handle" /\ Event.kind = "commit"
    BY Zenon DEF Commit, sourceVars, Handles, At
  <1>2. /\ r \in Positions /\ Event = stream[r] /\ Gid = stream[r].gid
        /\ Event \in Events /\ Gid \in Gids
        /\ acked < r /\ consumer.raised = "none" /\ Is(r, "commit")
    BY <1>1, Handling DEF Is
  <1>3. Kept(r) /\ Exists /\ store[Gid].xid = stream[r].xid
    BY <1>1, <1>2, EndFinds DEF Ends, Is, At, Kept, Exists
  <1>4. store[Gid] \in Stored
    BY <1>2, <1>3 DEF ConsumerInv, TypeOK, Exists
  <1>5. /\ StreamInv' /\ Positions' = Positions
        /\ \A k, kind : Is(k, kind)' = Is(k, kind)
    BY <1>1, StreamStays DEF ConsumerInv
  <1>6. \A k \in Positions : Kept(k)' <=> Kept(k)
    BY <1>1 DEF Kept
  <1>7. Transaction(Event) = <<Gid, store[Gid].xid>> /\ Transaction(Event) \in Transactions
    BY <1>2, <1>3 DEF Transaction, Transactions, Events
  <1>8. CASE /\ InPhase("Prepared") /\ Goto("mark")
             /\ target' = target \union { <<Gid, store[Gid].xid>> }
    <2>1. /\ consumer'.pc = "mark" /\ consumer'.received = r
          /\ consumer'.raised = "none"
          /\ consumer' \in
               [ pc : Counters, received : acked..Len(stream), raised : Raised ]
      BY <1>2, <1>8, Moves DEF ConsumerInv, TypeOK, Counters
    <2>2. Event' = Event /\ Gid' = Gid
      BY <1>1, <2>1 DEF Event, Gid
    <2>3. InPhase("Prepared")'
      BY <1>1, <1>8, <2>2 DEF InPhase, Exists
    <2>4. TypeOK'
      BY <1>1, <1>7, <1>8, <2>1, <2>3 DEF ConsumerInv, TypeOK
    <2>5. \A k \in Positions : Passed(k)' <=> Passed(k)
      BY <1>1, <2>1 DEF Passed, Settled, At
    <2>6. ProgressInv'
      BY <1>1, <1>6, <2>5, ProgressStays, StreamTypes DEF ConsumerInv
    <2>7. \A k \in Positions : k < r => Passed(k)
      BY <1>2, StreamTypes DEF Passed, ConsumerInv
    <2>8. TargetInv'
      <3>1. \A k \in Positions : k <= acked /\ Is(k, "commit")
              => Transaction(stream[k]) \in target'
        BY <1>8 DEF ConsumerInv, TargetInv
      <3>2. ASSUME NEW u \in target'
            PROVE  \E c \in Positions :
                     /\ Is(c, "commit") /\ Transaction(stream[c]) = u
                     /\ \A k \in Positions : k < c /\ Is(k, "commit") => k <= acked
                     /\ \A k \in Positions : k < c /\ Is(k, "rollback")
                          => Transaction(stream[k]) \in discarded
        <4>1. CASE u \in target
          BY <4>1 DEF ConsumerInv, TargetInv
        <4>2. CASE u = Transaction(Event)
          BY <1>2, <2>7, <4>2 DEF ConsumerInv, ProgressInv
        <4> QED
          BY <1>7, <1>8, <4>1, <4>2
      <3> QED
        BY <1>1, <1>5, <3>1, <3>2 DEF TargetInv
    <2>9. ControlInv'
      <3>1. Kept(r)' /\ stream'[r] = stream[r] /\ store' = store
        BY <1>1, <1>2, <1>3 DEF Kept
      <3>2. KeptAs(consumer.received, "Prepared")'
        BY <1>2, <1>8, <2>1, <3>1 DEF KeptAs, InPhase
      <3>3. Transaction(Event)' \in target'
        BY <1>7, <1>8, <2>2 DEF Transaction
      <3> QED
        BY <1>1, <1>2, <1>5, <2>1, <3>2, <3>3 DEF ControlInv, At
    <2>10. StoreInv'
      BY <1>1, <1>5, <1>8 DEF ConsumerInv, StoreInv
    <2> QED
      BY <1>5, <2>1, <2>4, <2>6, <2>8, <2>9, <2>10, NotRefused DEF ConsumerInv
  <1>9. CASE InPhase("Target_Applied") /\ Goto("acknowledge") /\ UNCHANGED target
    <2>1. /\ consumer'.pc = "acknowledge" /\ consumer'.received = r
          /\ consumer'.raised = "none"
          /\ consumer' \in
               [ pc : Counters, received : acked..Len(stream), raised : Raised ]
      BY <1>2, <1>9, Moves DEF ConsumerInv, TypeOK, Counters
    <2>2. Event' = Event
      BY <1>1, <2>1 DEF Event
    <2>3. TypeOK'
      BY <1>1, <1>9, <2>1 DEF ConsumerInv, TypeOK, At
    <2>4. \A k \in Positions : Passed(k)' <=> Passed(k)
      BY <1>1, <2>1, <2>2 DEF Passed, Settled, At
    <2>5. ProgressInv' /\ TargetInv'
      BY <1>1, <1>6, <1>9, <2>4, ProgressStays, TargetStays, StreamTypes DEF ConsumerInv
    <2>6. ControlInv'
      <3>1. Kept(r)' /\ stream'[r] = stream[r] /\ store' = store
        BY <1>1, <1>2, <1>3 DEF Kept
      <3>2. KeptAs(consumer.received, "Target_Applied")'
        BY <1>2, <1>9, <2>1, <3>1 DEF KeptAs, InPhase
      <3> QED
        BY <1>1, <1>2, <2>1, <3>2 DEF ControlInv, At
    <2>7. StoreInv'
      BY <1>1, <1>5, <1>9 DEF ConsumerInv, StoreInv
    <2> QED
      BY <1>5, <2>1, <2>3, <2>5, <2>6, <2>7, NotRefused DEF ConsumerInv
  <1> QED
    BY <1>3, <1>8, <1>9, Zenon DEF Commit

LEMMA MarkStep ==
  ASSUME ConsumerInv, MarkTargetApplied
  PROVE  ConsumerInv'
  <1> PICK r : r = consumer.received
    OBVIOUS
  <1>1. /\ UNCHANGED <<stream, acked, target, discarded, crashes>>
        /\ consumer.pc = "mark" /\ Goto("acknowledge")
        /\ marked' = marked \union { <<Gid, store[Gid].xid>> }
    BY DEF MarkTargetApplied, sourceVars, At
  <1>2. /\ r \in Positions /\ Event = stream[r] /\ Gid = stream[r].gid
        /\ Event \in Events /\ Gid \in Gids
        /\ acked < r /\ consumer.raised = "none"
    BY <1>1, Handling
  <1>3. Is(r, "commit") /\ KeptAs(r, "Prepared") /\ Transaction(Event) \in target
    BY <1>1 DEF ConsumerInv, ControlInv, At
  <1>4. store[Gid] \in Stored /\ store[Gid].xid = stream[r].xid
    BY <1>2, <1>3 DEF ConsumerInv, TypeOK, Kept, KeptAs
  <1> DEFINE e == [store[Gid] EXCEPT !.phase = "Target_Applied"]
  <1>5. store' = [store EXCEPT ![Gid] = e]
    BY DEF MarkTargetApplied
  <1>6. e \in Stored /\ e.xid = stream[r].xid /\ e.phase = "Target_Applied"
    BY <1>4 DEF Stored
  <1> HIDE DEF e
  <1>7. e # NoTransaction
    BY <1>6, ConsumerAssumption
  <1>8. store \in [Gids -> Stored \union {NoTransaction}]
    BY DEF ConsumerInv, TypeOK
  <1>9. /\ store' \in [Gids -> Stored \union {NoTransaction}] /\ store'[Gid] = e
        /\ \A gid \in Gids \ {Gid} : store'[gid] = store[gid]
    BY <1>2, <1>5, <1>6, <1>8
  <1>10. /\ consumer'.pc = "acknowledge" /\ consumer'.received = r
         /\ consumer'.raised = "none"
         /\ consumer' \in
              [ pc : Counters, received : acked..Len(stream), raised : Raised ]
    BY <1>1, <1>2, Moves DEF ConsumerInv, TypeOK, Counters
  <1>11. Transaction(Event) = <<Gid, store[Gid].xid>> /\ Transaction(Event) \in Transactions
    BY <1>2, <1>4 DEF Transaction, Transactions, Events
  <1>12. TypeOK'
    BY <1>1, <1>9, <1>10, <1>11 DEF ConsumerInv, TypeOK, At
  <1>13. /\ StreamInv' /\ Positions' = Positions
         /\ \A k, kind : Is(k, kind)' = Is(k, kind)
    BY <1>1, StreamStays DEF ConsumerInv
  <1>14. Event' = Event
    BY <1>1, <1>10 DEF Event
  <1>15. \A k \in Positions : Passed(k)' <=> Passed(k)
    BY <1>1, <1>2, <1>3, <1>10, <1>14 DEF Passed, Settled, At, Is
  <1>16. \A k \in Positions : Kept(k)' <=> Kept(k)
    <2>1. \A k \in Positions : stream[k].gid \in Gids
      BY StreamTypes DEF ConsumerInv
    <2>2. store[Gid] # NoTransaction /\ store[Gid].xid = e.xid
      BY <1>2, <1>3, <1>4, <1>6 DEF Kept, KeptAs
    <2> QED
      BY <1>1, <1>7, <1>9, <2>1, <2>2 DEF Kept
  <1>17. ProgressInv' /\ TargetInv'
    BY <1>1, <1>15, <1>16, ProgressStays, TargetStays, StreamTypes DEF ConsumerInv
  <1>18. KeptAs(r, "Target_Applied")'
    <2>1. stream'[r].gid = Gid /\ stream'[r].xid = e.xid
      BY <1>1, <1>2, <1>6
    <2> QED
      BY <1>6, <1>7, <1>9, <2>1 DEF KeptAs, Kept
  <1>19. ControlInv'
    BY <1>1, <1>2, <1>10, <1>18 DEF ControlInv, At
  <1>20. StoreInv'
    <2>1. \A gid \in Gids : store'[gid] # NoTransaction =>
            /\ store'[gid].phase = "Target_Applied"
                 => <<gid, store'[gid].xid>> \in target
            /\ store'[gid].phase = "Prepared"
                 => <<gid, store'[gid].xid>> \notin marked'
      <3> SUFFICES ASSUME NEW gid \in Gids, store'[gid] # NoTransaction
                   PROVE  /\ store'[gid].phase = "Target_Applied"
                               => <<gid, store'[gid].xid>> \in target
                          /\ store'[gid].phase = "Prepared"
                               => <<gid, store'[gid].xid>> \notin marked'
        OBVIOUS
      <3>1. CASE gid = Gid
        <4>1. <<gid, store'[gid].xid>> = Transaction(Event)
          BY <1>4, <1>6, <1>9, <1>11, <3>1
        <4> QED
          BY <1>3, <1>6, <1>9, <3>1, <4>1
      <3>2. CASE gid # Gid
        <4>1. <<gid, store[gid].xid>> # <<Gid, store[Gid].xid>>
          BY <3>2
        <4> QED
          BY <1>1, <1>9, <3>2, <4>1 DEF ConsumerInv, StoreInv
      <3> QED
        BY <3>1, <3>2
    <2>2. ASSUME NEW t \in marked'
          PROVE  \/ /\ store'[t[1]] # NoTransaction /\ store'[t[1]].xid = t[2]
                    /\ store'[t[1]].phase = "Target_Applied"
                 \/ \E k \in Positions : /\ k <= acked /\ Is(k, "commit")
                                         /\ Transaction(stream[k]) = t
      <3>1. CASE t = <<Gid, store[Gid].xid>>
        BY <1>4, <1>6, <1>7, <1>9, <3>1
      <3>2. CASE t \in marked
        <4>1. t[1] \in Gids
          BY <3>2 DEF ConsumerInv, TypeOK, Transactions
        <4>2. CASE t[1] = Gid
          BY <1>2, <1>3, <3>2, <4>2 DEF ConsumerInv, StoreInv, KeptAs
        <4>3. CASE t[1] # Gid
          BY <1>9, <3>2, <4>1, <4>3 DEF ConsumerInv, StoreInv
        <4> QED
          BY <4>2, <4>3
      <3> QED
        BY <1>1, <3>1, <3>2
    <2> QED
      BY <1>1, <1>13, <2>1, <2>2 DEF StoreInv
  <1> QED
    BY <1>10, <1>12, <1>13, <1>17, <1>19, <1>20, NotRefused DEF ConsumerInv

LEMMA AcknowledgeStep ==
  ASSUME ConsumerInv, Acknowledge
  PROVE  ConsumerInv'
  <1> PICK r : r = consumer.received
    OBVIOUS
  <1>1. /\ UNCHANGED <<stream, store, target, marked, discarded, crashes>>
        /\ consumer.pc = "acknowledge"
    BY DEF Acknowledge, At
  <1>2. /\ r \in Positions /\ Event = stream[r] /\ Gid = stream[r].gid
        /\ Event \in Events /\ Gid \in Gids
        /\ acked < r /\ consumer.raised = "none"
    BY <1>1, Handling
  <1>3. PICK pc \in {"idle", "forget"} :
          /\ Goto(pc)
          /\ pc = "forget" <=> Is(r, "commit")
          /\ acked' = r \/ (acked' = acked /\ ~Is(r, "commit"))
    BY <1>2 DEF Acknowledge, Is
  <1>4. /\ consumer'.pc = pc /\ consumer'.received = r /\ consumer'.raised = "none"
        /\ consumer' = [pc |-> pc, received |-> r, raised |-> consumer.raised]
    BY <1>2, <1>3, Moves DEF ConsumerInv, Counters
  <1>5. /\ acked \in Nat /\ Len(stream) \in Nat /\ r \in Nat /\ r <= Len(stream)
        /\ Positions = 1..Len(stream)
    BY StreamTypes DEF ConsumerInv
  <1>6. acked' \in Nat /\ acked <= acked' /\ acked' <= r
    BY <1>2, <1>3, <1>5
  <1>7. TypeOK'
    <2>1. consumer.raised \in Raised
      BY DEF ConsumerInv, TypeOK
    <2>2. consumer' \in [ pc : Counters, received : acked'..Len(stream), raised : Raised ]
      BY <1>3, <1>4, <1>5, <1>6, <2>1 DEF Counters
    <2>3. acked' \in 0..Len(stream)
      BY <1>5, <1>6
    <2>4. ~At("mark")'
      BY <1>3, <1>4 DEF At
    <2> QED
      BY <1>1, <2>2, <2>3, <2>4 DEF ConsumerInv, TypeOK
  <1>8. /\ StreamInv' /\ Positions' = Positions
        /\ \A k, kind : Is(k, kind)' = Is(k, kind)
        /\ \A k : Ends(k)' = Ends(k)
        /\ \A j, k : Same(j, k)' = Same(j, k)
    BY <1>1, StreamStays DEF ConsumerInv
  <1>9. \A k \in Positions : Passed(k)' <=> Passed(k) \/ (k = r /\ Is(r, "commit"))
    <2>1. \A k \in Positions : Passed(k)' <=> k <= r
      BY <1>3, <1>4 DEF Passed, Settled, At
    <2>2. \A k \in Positions : Passed(k) <=> k < r \/ (k = r /\ ~Is(r, "commit"))
      BY <1>1, <1>2, <1>5 DEF Passed, Settled, At, Is
    <2> QED
      BY <1>2, <1>5, <2>1, <2>2
  <1>10. \A k \in Positions : Kept(k)' <=> Kept(k)
    BY <1>1 DEF Kept
  <1>11. \A k \in Positions : Discarded(k)' <=> Discarded(k)
    BY <1>1, <1>8 DEF Discarded
  <1>12. ProgressInv'
    <2>1. \A k \in Positions : Passed(k)' /\ Is(k, "commit") => k <= acked'
      BY <1>3, <1>5, <1>6, <1>9 DEF ConsumerInv, ProgressInv
    <2>2. \A k \in Positions : Passed(k)' /\ Is(k, "rollback")
            => Transaction(stream[k]) \in discarded
      BY <1>9 DEF ConsumerInv, ProgressInv, Is
    <2>3. ASSUME NEW i \in Positions, Passed(i)', Is(i, "prepare"),
                 \A k \in Positions : Passed(k)' /\ Ends(k) => ~Same(i, k)
          PROVE  Kept(i) \/ Discarded(i)
      BY <1>9, <2>3 DEF ConsumerInv, ProgressInv, Is
    <2> QED
      BY <1>1, <1>8, <1>10, <1>11, <2>1, <2>2, <2>3 DEF ProgressInv
  <1>13. ASSUME NEW k \in Positions, k <= acked', ~(k <= acked), Is(k, "commit")
         PROVE  Transaction(stream[k]) \in target
    <2>1. ~Passed(k)
      BY <1>13 DEF ConsumerInv, ProgressInv
    <2>2. k = r
      BY <1>2, <1>5, <1>6, <1>13, <2>1 DEF Passed
    <2>3. KeptAs(r, "Target_Applied")
      BY <1>1, <1>13, <2>2 DEF ConsumerInv, ControlInv
    <2> QED
      BY <1>2, <2>2, <2>3 DEF ConsumerInv, StoreInv, KeptAs, Kept, Transaction
  <1>14. TargetInv'
    BY <1>1, <1>6, <1>13, TargetStays
  <1>15. ControlInv'
    <2>1. Is(r, "commit") => KeptAs(r, "Target_Applied")
      BY <1>1 DEF ConsumerInv, ControlInv
    <2>2. KeptAs(r, "Target_Applied") => KeptAs(consumer.received, "Target_Applied")'
      BY <1>1, <1>4 DEF KeptAs, Kept
    <2>3. r > 0
      BY <1>2, <1>5
    <2> QED
      BY <1>3, <1>4, <1>8, <2>1, <2>2, <2>3 DEF ControlInv, At
  <1>16. StoreInv'
    <2>1. \A k \in Positions : k <= acked => k <= acked'
      BY <1>5, <1>6
    <2> QED
      BY <1>1, <1>8, <2>1 DEF ConsumerInv, StoreInv
  <1> QED
    BY <1>4, <1>7, <1>8, <1>12, <1>14, <1>15, <1>16, NotRefused DEF ConsumerInv

\* The end of a transaction is carried out: its state leaves the store.
LEMMA RemoveKeeps ==
  ASSUME ConsumerInv, NEW pc \in {"idle", "acknowledge"}, Goto(pc), Remove,
         consumer.pc \in {"handle", "forget"}, Ends(consumer.received),
         UNCHANGED <<stream, acked, target, marked, crashes>>,
         discarded \subseteq discarded', discarded' \subseteq Transactions,
         Is(consumer.received, "rollback") => pc = "acknowledge"
           /\ Transaction(Event) \in discarded',
         Is(consumer.received, "commit") => pc = "idle" /\ consumer.pc = "forget",
         \A t \in marked : t[1] = Gid =>
           \/ store[Gid].phase # "Target_Applied" \/ store[Gid].xid # t[2]
           \/ \E k \in Positions : /\ k <= acked /\ Is(k, "commit")
                                   /\ Transaction(stream[k]) = t
  PROVE  ConsumerInv'
  <1> PICK r : r = consumer.received
    OBVIOUS
  <1>1. /\ r \in Positions /\ Event = stream[r] /\ Gid = stream[r].gid
        /\ Event \in Events /\ Gid \in Gids /\ consumer.raised = "none"
        /\ consumer.pc # "forget" => acked < r
    BY Handling
  <1>2. /\ consumer'.pc = pc /\ consumer'.received = r /\ consumer'.raised = "none"
        /\ consumer' \in [ pc : Counters, received : acked..Len(stream), raised : Raised ]
    BY <1>1, Moves DEF ConsumerInv, TypeOK, Counters
  <1>3. /\ store' \in [Gids -> Stored \union {NoTransaction}]
        /\ store'[Gid] = NoTransaction
        /\ \A gid \in Gids \ {Gid} : store'[gid] = store[gid]
    BY <1>1 DEF Remove, ConsumerInv, TypeOK
  <1>4. TypeOK'
    BY <1>2, <1>3 DEF ConsumerInv, TypeOK, At
  <1>5. /\ StreamInv' /\ Positions' = Positions
        /\ \A k, kind : Is(k, kind)' = Is(k, kind)
        /\ \A k : Ends(k)' = Ends(k)
        /\ \A j, k : Same(j, k)' = Same(j, k)
    BY StreamStays DEF ConsumerInv
  <1>6. \/ Is(r, "commit") /\ ~Is(r, "rollback") /\ consumer.pc = "forget" /\ pc = "idle"
        \/ Is(r, "rollback") /\ ~Is(r, "commit") /\ consumer.pc = "handle"
           /\ pc = "acknowledge"
    BY <1>1, StreamTypes DEF Ends, Is, ConsumerInv, ControlInv, At
  <1>7. \A k \in Positions : Passed(k)' <=> k <= r
    <2>1. Event' = stream[r]
      BY <1>2 DEF Event
    <2>2. Settled'
      BY <1>2, <1>6, <2>1 DEF Settled, At, Is
    <2> QED
      BY <1>2, <2>2 DEF Passed
  <1>8. \A k \in Positions : Passed(k) <=> k <= r /\ (k = r => Is(r, "commit"))
    BY <1>1, <1>6 DEF Passed, Settled, At, Is
  <1>9. \A k \in Positions : Discarded(k) => Discarded(k)'
    BY <1>5 DEF Discarded
  <1>10. ProgressInv'
    <2>1. \A k \in Positions : Passed(k)' /\ Is(k, "commit") => k <= acked
      BY <1>6, <1>7, <1>8 DEF ConsumerInv, ProgressInv, Is
    <2>2. \A k \in Positions : Passed(k)' /\ Is(k, "rollback")
            => Transaction(stream[k]) \in discarded'
      BY <1>1, <1>7, <1>8 DEF ConsumerInv, ProgressInv
    <2>3. ASSUME NEW i \in Positions, Passed(i)', Is(i, "prepare"),
                 \A k \in Positions : Passed(k)' /\ Ends(k) => ~Same(i, k)
          PROVE  Kept(i)' \/ Discarded(i)'
      <3>1. Passed(i)
        BY <1>7, <1>8, <2>3 DEF Ends
      <3>2. Kept(i) \/ Discarded(i)
        BY <1>7, <1>8, <2>3, <3>1 DEF ConsumerInv, ProgressInv
      <3>3. stream[i].gid # Gid
        BY <1>1, <1>7, <2>3, NothingOpen
      <3>4. stream[i].gid \in Gids
        BY StreamTypes DEF ConsumerInv
      <3> QED
        BY <1>3, <1>9, <3>2, <3>3, <3>4 DEF Kept
    <2> QED
      BY <1>5, <2>1, <2>2, <2>3 DEF ProgressInv
  <1>11. TargetInv'
    BY TargetStays, StreamTypes DEF ConsumerInv
  <1>12. ControlInv'
    BY <1>1, <1>2, <1>5, <1>6 DEF ControlInv, At, Is
  <1>13. StoreInv'
    <2>1. ASSUME NEW t \in marked
          PROVE  \/ /\ store'[t[1]] # NoTransaction /\ store'[t[1]].xid = t[2]
                    /\ store'[t[1]].phase = "Target_Applied"
                 \/ \E k \in Positions : /\ k <= acked /\ Is(k, "commit")
                                         /\ Transaction(stream[k]) = t
      <3>1. t[1] \in Gids
        BY DEF ConsumerInv, TypeOK, Transactions
      <3>2. CASE t[1] = Gid
        BY <3>2 DEF ConsumerInv, StoreInv
      <3>3. CASE t[1] # Gid
        BY <1>3, <3>1, <3>3 DEF ConsumerInv, StoreInv
      <3> QED
        BY <3>2, <3>3
    <2>2. \A gid \in Gids : store'[gid] # NoTransaction =>
            /\ store'[gid].phase = "Target_Applied" => <<gid, store'[gid].xid>> \in target
            /\ store'[gid].phase = "Prepared" => <<gid, store'[gid].xid>> \notin marked
      BY <1>3 DEF ConsumerInv, StoreInv
    <2> QED
      BY <1>5, <2>1, <2>2 DEF StoreInv
  <1> QED
    BY <1>2, <1>4, <1>5, <1>10, <1>11, <1>12, <1>13, NotRefused DEF ConsumerInv

LEMMA AcknowledgeCommitStep ==
  ASSUME ConsumerInv, AcknowledgeCommit
  PROVE  ConsumerInv'
  <1> PICK r : r = consumer.received
    OBVIOUS
  <1>1. /\ UNCHANGED <<stream, acked, target, marked, discarded, crashes>>
        /\ consumer.pc = "forget"
    BY Zenon DEF AcknowledgeCommit, sourceVars, At
  <1>2. /\ r \in Positions /\ Event = stream[r] /\ Gid = stream[r].gid /\ Gid \in Gids
    BY <1>1, Handling
  <1>3. Is(r, "commit") /\ acked = r /\ KeptAs(r, "Target_Applied")
    BY <1>1 DEF ConsumerInv, ControlInv, At
  <1>4. InPhase("Target_Applied")
    BY <1>2, <1>3 DEF KeptAs, Kept, InPhase, Exists
  <1>5. Remove /\ Goto("idle")
    BY <1>4, Zenon DEF AcknowledgeCommit
  <1>6. ASSUME NEW t \in marked, t[1] = Gid, store[Gid].xid = t[2]
        PROVE  \E k \in Positions : /\ k <= acked /\ Is(k, "commit")
                                    /\ Transaction(stream[k]) = t
    <2>1. t = <<t[1], t[2]>>
      BY DEF ConsumerInv, TypeOK, Transactions
    <2>2. Transaction(stream[r]) = t
      BY <1>2, <1>3, <1>6, <2>1 DEF Transaction, KeptAs, Kept
    <2>3. r <= acked
      BY <1>3, StreamTypes DEF ConsumerInv
    <2> QED
      BY <1>2, <1>3, <2>2, <2>3
  <1>7. Ends(r) /\ ~Is(r, "rollback")
    BY <1>3 DEF Ends, Is
  <1>8. discarded' \subseteq Transactions
    BY <1>1 DEF ConsumerInv, TypeOK
  <1> QED
    BY <1>1, <1>5, <1>6, <1>7, <1>8, RemoveKeeps

LEMMA RollbackStep ==
  ASSUME ConsumerInv, Rollback
  PROVE  ConsumerInv'
  <1> PICK r : r = consumer.received
    OBVIOUS
  <1>1. /\ UNCHANGED <<stream, acked, target, marked, crashes>>
        /\ consumer.pc = "handle" /\ Event.kind = "rollback" /\ At("handle")
    BY Zenon DEF Rollback, sourceVars, Handles, At
  <1>2. /\ r \in Positions /\ Event = stream[r] /\ Gid = stream[r].gid /\ Gid \in Gids
        /\ Is(r, "rollback") /\ Ends(r) /\ ~Is(r, "commit")
    BY <1>1, Handling DEF Is, Ends
  <1>3. Kept(r) \/ Discarded(r)
    BY <1>1, <1>2, EndFinds
  <1>4. CASE /\ InPhase("Prepared") /\ Remove /\ Goto("acknowledge")
             /\ discarded' = discarded \union { <<Gid, store[Gid].xid>> }
    <2>1. store[Gid] \in Stored
      BY <1>2, <1>4 DEF ConsumerInv, TypeOK, InPhase, Exists
    <2>2. discarded' \subseteq Transactions
      BY <1>2, <1>4, <2>1 DEF ConsumerInv, TypeOK, Stored, Transactions
    <2>3. Transaction(Event) \in discarded'
      BY <1>2, <1>3, <1>4 DEF Kept, Discarded, Transaction
    <2>4. store[Gid].phase # "Target_Applied"
      BY <1>4 DEF InPhase
    <2>5. discarded \subseteq discarded'
      BY <1>4
    <2> QED
      BY <1>1, <1>2, <1>4, <2>2, <2>3, <2>4, <2>5, RemoveKeeps
  <1>5. CASE ~InPhase("Prepared") /\ UNCHANGED <<store, discarded>>
             /\ \E what \in Raised : Raises(what)
    <2>1. PICK what \in Raised : Raises(what)
      BY <1>5
    <2>2. consumer'.received = consumer.received
      BY <2>1, Fails DEF ConsumerInv
    <2>3. Event' = Event
      BY <1>1, <2>2 DEF Event
    <2>4. Transaction(Event)' = Transaction(Event)
      BY <2>3 DEF Transaction
    <2>5. Transaction(Event) \notin target
      BY <1>2, CommittedOnly
    <2>6. ~Kept(r)
      <3> SUFFICES ASSUME Kept(r) PROVE FALSE
        OBVIOUS
      <3>1. Exists /\ store[Gid].phase # "Prepared" /\ store[Gid] \in Stored
        BY <1>2, <1>5 DEF Kept, InPhase, Exists, ConsumerInv, TypeOK
      <3>2. store[Gid].phase = "Target_Applied"
        BY <3>1 DEF Stored
      <3>3. <<Gid, store[Gid].xid>> \in target
        BY <1>2, <3>1, <3>2 DEF ConsumerInv, StoreInv, Exists
      <3> QED
        BY <1>2, <2>5, <3>3 DEF Kept, Transaction
    <2>7. Transaction(Event) \in discarded \ target
      BY <1>2, <1>3, <2>5, <2>6 DEF Discarded
    <2>8. Event.kind # "commit"
      BY <1>1
    <2>9. UNCHANGED <<target, discarded>>
      BY <1>1, <1>5
    <2>10. RefusedIsSettled'
      BY <2>3, <2>4, <2>7, <2>8, <2>9, Zenon DEF RefusedIsSettled
    <2>11. UNCHANGED <<sourceVars, store, target, marked, discarded, crashes>>
      BY <1>1, <1>5 DEF sourceVars
    <2> QED
      BY <1>1, <2>1, <2>10, <2>11, FailsKeeps
  <1> QED
    BY <1>4, <1>5, Zenon DEF Rollback, Raised

LEMMA CrashStep ==
  ASSUME ConsumerInv, Crash
  PROVE  ConsumerInv'
  <1>1. /\ UNCHANGED <<stream, acked, store, target, marked, discarded>>
        /\ crashes < MaxCrashes /\ crashes' = crashes + 1
        /\ consumer' = [pc |-> "idle", received |-> acked, raised |-> "none"]
    BY DEF Crash, sourceVars, Restarted
  <1>2. /\ acked \in Nat /\ Len(stream) \in Nat /\ consumer.received \in Nat
        /\ acked <= consumer.received /\ consumer.received <= Len(stream)
        /\ Positions = 1..Len(stream)
    BY StreamTypes DEF ConsumerInv
  <1>3. TypeOK'
    <2>1. acked \in acked..Len(stream) /\ "idle" \in Counters
      BY <1>2 DEF Counters
    <2>2. "none" \in Raised
      BY Zenon DEF Raised
    <2>3. consumer' \in [ pc : Counters, received : acked..Len(stream), raised : Raised ]
      BY <1>1, <2>1, <2>2
    <2>4. crashes' \in 0..MaxCrashes
      BY <1>1, ConsumerAssumption DEF ConsumerInv, TypeOK
    <2>5. ~At("mark")'
      BY <1>1 DEF At
    <2> QED
      BY <1>1, <2>3, <2>4, <2>5 DEF ConsumerInv, TypeOK
  <1>4. /\ StreamInv' /\ Positions' = Positions
        /\ \A k, kind : Is(k, kind)' = Is(k, kind)
        /\ \A k : Ends(k)' = Ends(k)
        /\ \A j, k : Same(j, k)' = Same(j, k)
    BY <1>1, StreamStays DEF ConsumerInv
  <1>5. \A k \in Positions : Passed(k)' <=> k <= acked
    BY <1>1, <1>2 DEF Passed, Settled, At
  <1>6. \A k \in Positions : k <= acked => Passed(k)
    <2>1. acked = consumer.received => Settled
      BY <1>2 DEF ConsumerInv, ControlInv, Settled, At
    <2> QED
      BY <1>2, <2>1 DEF Passed
  <1>7. \A k \in Positions : Discarded(k)' <=> Discarded(k)
    BY <1>1, <1>4 DEF Discarded
  <1>8. \A k \in Positions : Kept(k)' <=> Kept(k)
    BY <1>1 DEF Kept
  <1>9. ASSUME NEW i \in Positions, i <= acked, Is(i, "prepare"),
               \A k \in Positions : k <= acked /\ Ends(k) => ~Same(i, k)
        PROVE  Kept(i) \/ Discarded(i)
    <2>1. CASE \E k \in Positions : Passed(k) /\ Ends(k) /\ Same(i, k)
      <3>1. PICK k \in Positions : Passed(k) /\ Ends(k) /\ Same(i, k)
        BY <2>1
      <3>2. ~Is(k, "commit")
        BY <1>9, <3>1 DEF ConsumerInv, ProgressInv
      <3>3. Is(k, "rollback")
        BY <3>1, <3>2, StreamTypes DEF ConsumerInv, Ends, Is
      <3>4. Transaction(stream[i]) \in discarded
        BY <3>1, <3>3 DEF ConsumerInv, ProgressInv, Same, Transaction
      <3> QED
        BY <3>1, <3>3, <3>4 DEF Discarded, Same
    <2>2. CASE \A k \in Positions : Passed(k) /\ Ends(k) => ~Same(i, k)
      BY <1>6, <1>9, <2>2 DEF ConsumerInv, ProgressInv
    <2> QED
      BY <2>1, <2>2
  <1>10. ProgressInv'
    BY <1>1, <1>4, <1>5, <1>6, <1>7, <1>8, <1>9 DEF ConsumerInv, ProgressInv
  <1>11. TargetInv'
    BY <1>1, <1>2, TargetStays
  <1>12. ControlInv'
    BY <1>1 DEF ControlInv, At
  <1>13. StoreInv'
    BY <1>1, <1>4 DEF ConsumerInv, StoreInv
  <1>14. consumer'.raised = "none"
    BY <1>1
  <1> QED
    BY <1>3, <1>4, <1>10, <1>11, <1>12, <1>13, <1>14, NotRefused DEF ConsumerInv

LEMMA InitConsumer == Init => ConsumerInv
  <1> HAVE Init
  <1>1. /\ stream = <<>> /\ acked = 0 /\ target = {} /\ marked = {} /\ discarded = {}
        /\ crashes = 0 /\ store = [gid \in Gids |-> NoTransaction]
        /\ consumer = [pc |-> "idle", received |-> 0, raised |-> "none"]
    BY DEF Init, Restarted
  <1>2. Positions = {} /\ Len(stream) = 0 /\ stream \in Seq(Events)
    BY <1>1 DEF Positions
  <1>3. TypeOK
    <2>1. "none" \in Raised
      BY Zenon DEF Raised
    <2>2. "idle" \in Counters
      BY DEF Counters
    <2>3. consumer \in [ pc : Counters, received : acked..Len(stream), raised : Raised ]
      BY <1>1, <1>2, <2>1, <2>2
    <2> QED
      BY <1>1, <1>2, <2>3, ConsumerAssumption DEF TypeOK, At
  <1>4. StreamInv /\ ProgressInv
    BY <1>2 DEF StreamInv, ProgressInv
  <1>5. ControlInv /\ TargetInv /\ StoreInv
    BY <1>1, <1>2 DEF ControlInv, TargetInv, StoreInv, At
  <1>6. consumer.raised = "none"
    BY <1>1
  <1>7. RefusedIsSettled
    BY <1>6, Zenon DEF RefusedIsSettled
  <1> QED
    BY <1>3, <1>4, <1>5, <1>7 DEF ConsumerInv

LEMMA ConsumerSteps ==
  ASSUME ConsumerInv, [Next]_vars
  PROVE  ConsumerInv'
  <1>1. CASE Next
    BY <1>1, SourceStep, ReceiveStep, PrepareStep, CommitStep, MarkStep, AcknowledgeStep,
       AcknowledgeCommitStep, RollbackStep, CrashStep DEF Next, ConsumerStep
  <1>2. CASE UNCHANGED vars
    <2>1. UNCHANGED <<stream, acked, store, target, marked, discarded, consumer, crashes>>
      BY <1>2 DEF vars, sourceVars
    <2>2. /\ Positions' = Positions /\ Settled' = Settled /\ StreamInv'
          /\ \A k, kind : Is(k, kind)' = Is(k, kind)
          /\ \A k : Discarded(k)' = Discarded(k)
      BY <2>1 DEF Positions, Settled, At, Event, ConsumerInv, StreamInv, Is, Ends, Same,
                  Discarded
    <2>3. TypeOK' /\ ControlInv'
      BY <2>1 DEF ConsumerInv, TypeOK, ControlInv, At, InPhase, Exists, Gid, Event, Is,
                  Kept, KeptAs
    <2>4. ProgressInv' /\ TargetInv' /\ StoreInv'
      BY <2>1, <2>2, ProgressStays, TargetStays, StreamTypes
         DEF ConsumerInv, Passed, Kept, StoreInv
    <2>5. RefusedIsSettled'
      BY <2>1, Zenon DEF ConsumerInv, RefusedIsSettled, Event, Gid, Among
    <2> QED
      BY <2>2, <2>3, <2>4, <2>5 DEF ConsumerInv
  <1> QED
    BY <1>1, <1>2

-----------------------------------------------------------------------------
(* The theorems *)

\* How far the consumer is, what its store holds, what the target has and what the
\* source sent agree, whatever crashes and replays there are.
THEOREM ConsumerInvariant == Spec => []ConsumerInv
  BY InitConsumer, ConsumerSteps, PTL DEF Spec

\* Every variable keeps its type; a transaction is only marked while it is stored.
THEOREM ConsumerTypes == Spec => []TypeOK
  <1>1. ConsumerInv => TypeOK
    BY DEF ConsumerInv
  <1> QED
    BY <1>1, ConsumerInvariant, PTL

\* Only what the source committed reaches the target.
THEOREM ConsumerAppliesCommitted == Spec => []OnlyCommittedApplied
  <1>1. ASSUME ConsumerInv, NEW t \in target
        PROVE  t \in EventsOf("commit")
    <2>1. PICK c \in Positions : Is(c, "commit") /\ Transaction(stream[c]) = t
      BY <1>1 DEF ConsumerInv, TargetInv
    <2> QED
      BY <1>1, <2>1, AmongPositions, StreamTypes DEF EventsOf, ConsumerInv
  <1>2. ConsumerInv => OnlyCommittedApplied
    BY <1>1 DEF OnlyCommittedApplied
  <1> QED
    BY <1>2, ConsumerInvariant, PTL

\* What the source may forget, as it is acknowledged, is in the target, or stored
\* to be committed later, or was rolled back.
THEOREM ConsumerForgetsNothing == Spec => []NothingForgotten
  <1>1. ASSUME ConsumerInv
        PROVE  NothingForgotten
    <2>1. acked \in 0..Len(stream) /\ acked \in Nat /\ consumer.received \in Nat
          /\ acked <= consumer.received
      BY <1>1, StreamTypes DEF ConsumerInv, TypeOK
    <2>2. ASSUME NEW t \in Among(acked, "commit")
          PROVE  t \in target
      BY <1>1, <2>1, <2>2, AmongPositions DEF ConsumerInv, TargetInv
    <2>3. ASSUME NEW t \in PreparedBy(acked)
          PROVE  \/ store[t[1]] # NoTransaction /\ store[t[1]].xid = t[2]
                 \/ t \in discarded
      <3>1. PICK i \in Positions :
              i <= acked /\ Is(i, "prepare") /\ Transaction(stream[i]) = t
        BY <1>1, <2>1, <2>3, AmongPositions DEF PreparedBy, ConsumerInv
      <3>2. \A k \in Positions : k <= acked => Passed(k)
        <4>1. acked = consumer.received => Settled
          BY <1>1, <2>1 DEF ConsumerInv, ControlInv, Settled, At
        <4> QED
          BY <1>1, <2>1, <4>1, StreamTypes DEF Passed, ConsumerInv
      <3>3. CASE \E k \in Positions : Passed(k) /\ Ends(k) /\ Same(i, k)
        <4>1. PICK k \in Positions : Passed(k) /\ Ends(k) /\ Same(i, k)
          BY <3>3
        <4>2. Transaction(stream[k]) = t
          BY <3>1, <4>1, SameTransaction
        <4>3. ~Is(k, "commit")
          <5> SUFFICES ASSUME Is(k, "commit") PROVE FALSE
            OBVIOUS
          <5>1. k <= acked
            BY <1>1, <4>1 DEF ConsumerInv, ProgressInv
          <5>2. t \in Among(acked, "commit")
            BY <1>1, <2>1, <4>2, <5>1, AmongPositions DEF ConsumerInv
          <5> QED
            BY <2>3, <5>2 DEF PreparedBy
        <4>4. Is(k, "rollback")
          BY <1>1, <4>1, <4>3, StreamTypes DEF ConsumerInv, Ends, Is
        <4> QED
          BY <1>1, <4>1, <4>2, <4>4 DEF ConsumerInv, ProgressInv
      <3>4. CASE \A k \in Positions : Passed(k) /\ Ends(k) => ~Same(i, k)
        <4>1. Kept(i) \/ Discarded(i)
          BY <1>1, <3>1, <3>2, <3>4 DEF ConsumerInv, ProgressInv
        <4> QED
          BY <3>1, <4>1 DEF Kept, Discarded, Transaction
      <3> QED
        BY <3>3, <3>4
    <2> QED
      BY <2>2, <2>3 DEF NothingForgotten
  <1> QED
    BY <1>1, ConsumerInvariant, PTL

\* A consumer is refused only what costs no transaction, and never a commit.
THEOREM ConsumerRefuses == Spec => []RefusedIsSettled
  <1>1. ConsumerInv => RefusedIsSettled
    BY DEF ConsumerInv
  <1> QED
    BY <1>1, ConsumerInvariant, PTL

\* A transaction that was marked as applied is never handed to Apply_Target again.
THEOREM ConsumerAppliesOnce == Spec => AppliesOnce
  <1>1. ASSUME ConsumerInv, [Next]_vars, Handles("commit"), consumer'.pc = "mark"
        PROVE  <<Gid, store[Gid].xid>> \notin marked
    <2>1. consumer.pc = "handle"
      BY <1>1 DEF Handles, At
    <2>2. ~(UNCHANGED consumer)
      BY <1>1, <2>1
    <2>3. ~Crash
      BY <1>1 DEF Crash, Restarted
    <2>4. ~Prepare /\ ~Rollback
      BY <1>1, Zenon DEF Prepare, Rollback, Handles
    <2>5. Commit
      BY <1>1, <2>1, <2>2, <2>3, <2>4 DEF Next, ConsumerStep, SourcePrepares, SourceEnds,
         Emits, vars, Receive, MarkTargetApplied, Acknowledge, AcknowledgeCommit, At
    <2>6. InPhase("Prepared")
      <3>1. ASSUME NEW what, Raises(what)
            PROVE  FALSE
        BY <1>1, <3>1, Fails DEF ConsumerInv
      <3>2. ASSUME Goto("acknowledge")
            PROVE  FALSE
        BY <1>1, <3>2, Moves DEF ConsumerInv, Counters
      <3> QED
        BY <2>5, <3>1, <3>2, Zenon DEF Commit
    <2>7. Gid \in Gids
      BY <1>1, <2>1, Handling
    <2> QED
      BY <1>1, <2>6, <2>7 DEF ConsumerInv, StoreInv, InPhase, Exists
  <1>2. ConsumerInv /\ [Next]_vars =>
          [ Handles("commit") /\ consumer'.pc = "mark"
              => <<Gid, store[Gid].xid>> \notin marked ]_vars
    BY <1>1
  <1> QED
    BY <1>2, ConsumerInvariant, PTL DEF Spec, AppliesOnce
=============================================================================
