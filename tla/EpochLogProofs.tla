---------------------------- MODULE EpochLogProofs ----------------------------
(***************************************************************************)
(* Proofs about EpochLog, for any peers, ranges and bounds: its            *)
(* invariants, and that it implements TotalOrder.                          *)
(***************************************************************************)
EXTENDS EpochLog, SequenceTheorems, TLAPS

\* An epoch a node can propose is well formed.
LEMMA ProposalType ==
    ASSUME EpochLogTypeOK, NEW n \in Peers,
           NEW consensus \in [Ranges -> OptOffset]
    PROVE  /\ NextSequenceNumber(n) \in Nat
           /\ CalculateEpochIncrements(n, consensus) \in SUBSET Interval
<1>1. NextSequenceNumber(n) \in Nat
  <2>1. epochs[n] \in Seq(Epoch)
    BY DEF EpochLogTypeOK
  <2>2. CASE epochs[n] # <<>>
    <3>1. Len(epochs[n]) \in 1 .. Len(epochs[n])
      BY <2>1, <2>2, EmptySeq
    <3>2. epochs[n][Len(epochs[n])] \in Epoch
      BY <2>1, <3>1, ElementOfSeq
    <3>. QED BY <3>2 DEF NextSequenceNumber, Epoch
  <2>. QED BY <2>2 DEF NextSequenceNumber
<1>2. ASSUME NEW r \in Ranges,
             commited_offsets[n][r] < consensus[r]
      PROVE  [range |-> r, left |-> commited_offsets[n][r] + 1,
              right |-> consensus[r]] \in Interval
  <2>1. commited_offsets[n][r] \in OptOffset /\ consensus[r] \in OptOffset
    BY DEF EpochLogTypeOK
  <2>2. commited_offsets[n][r] + 1 \in Offsets /\ consensus[r] \in Offsets
    BY <1>2, <2>1, MaxOffsetAssumption DEF OptOffset, Offsets
  <2>. QED BY <2>2 DEF Interval
<1>3. CalculateEpochIncrements(n, consensus) \subseteq Interval
  BY <1>2 DEF CalculateEpochIncrements
<1>. QED BY <1>1, <1>3

\* The offsets recorded for an epoch are offsets.
LEMMA CommitedAfterType ==
    ASSUME EpochLogTypeOK, NEW n \in Peers, NEW epoch \in Epoch
    PROVE  CommitedAfter(n, epoch) \in [Ranges -> OptOffset]
<1>1. ASSUME NEW r \in Ranges, \E i \in epoch.increments : i.range = r
      PROVE  (CHOOSE i \in epoch.increments : i.range = r).right \in OptOffset
  <2>1. (CHOOSE i \in epoch.increments : i.range = r) \in epoch.increments
    BY <1>1
  <2>2. epoch.increments \subseteq Interval
    BY DEF Epoch
  <2>. QED BY <2>1, <2>2, MaxOffsetAssumption DEF Interval, Offsets, OptOffset
<1>2. commited_offsets[n] \in [Ranges -> OptOffset]
  BY DEF EpochLogTypeOK
<1>. QED BY <1>1, <1>2 DEF CommitedAfter

\* The ids of an epoch are transaction ids.
LEMMA IdsOfType == \A epoch : IdsOf(epoch) \in SUBSET Tx
BY DEF IdsOf

\* Every variable keeps its type.
LEMMA TypeStep ==
    EpochLogTypeOK /\ [EpochLogNext]_epochLogVars => EpochLogTypeOK'
<1> SUFFICES ASSUME EpochLogTypeOK, [EpochLogNext]_epochLogVars
             PROVE  EpochLogTypeOK'
  OBVIOUS
<1>1. ASSUME NEW n \in Peers, NEW consensus \in [Ranges -> OptOffset],
             CommitEpochIfNeeded(n, consensus)
      PROVE  EpochLogTypeOK'
  <2>1. [sequence_number |-> NextSequenceNumber(n),
         increments |-> CalculateEpochIncrements(n, consensus)] \in Epoch
    BY ProposalType DEF Epoch
  <2>2. request' \in [Peers -> Epoch \cup {NoRequest}]
    BY <1>1, <2>1 DEF CommitEpochIfNeeded, EpochLogTypeOK
  <2>. QED
    BY <1>1, <2>2 DEF CommitEpochIfNeeded, EpochLogTypeOK, appVars, watchVars
<1>2. ASSUME NEW n \in Peers, NEW held, HandleEpochCoordinatorUpdates(n, held)
      PROVE  EpochLogTypeOK'
  <2>1. Head(updates[n]) \in Epoch /\ Tail(updates[n]) \in Seq(Epoch)
    BY <1>2 DEF HandleEpochCoordinatorUpdates, EpochLogTypeOK
  <2>2. commited_offsets' \in [Peers -> [Ranges -> OptOffset]]
    BY <1>2, <2>1, CommitedAfterType
       DEF HandleEpochCoordinatorUpdates, EpochLogTypeOK
  <2>3. epochs' \in [Peers -> Seq(Epoch)]
    BY <1>2, <2>1 DEF HandleEpochCoordinatorUpdates, EpochLogTypeOK
  <2>4. runtime_input' \in [Peers -> Seq(SUBSET Tx)]
    <3>1. IdsOf(Head(updates[n])) \in SUBSET Tx
      BY IdsOfType
    <3>2. Append(runtime_input[n], IdsOf(Head(updates[n]))) \in Seq(SUBSET Tx)
      BY <3>1 DEF EpochLogTypeOK
    <3>. QED
      BY <1>2, <3>2 DEF HandleEpochCoordinatorUpdates, EpochLogTypeOK
  <2>5. updates' \in [Peers -> Seq(Epoch)]
    BY <1>2, <2>1 DEF HandleEpochCoordinatorUpdates, EpochLogTypeOK
  <2>6. panicked' \in SUBSET Peers
    BY <1>2 DEF HandleEpochCoordinatorUpdates, EpochLogTypeOK
  <2>. QED
    BY <1>2, <2>2, <2>3, <2>4, <2>5, <2>6
       DEF HandleEpochCoordinatorUpdates, EpochLogTypeOK, watchVars
<1>3. ASSUME NEW n \in Peers, CommitSucceeds(n) \/ CommitAnswerLost(n)
      PROVE  EpochLogTypeOK'
  <2>1. request[n] \in Epoch
    BY <1>3 DEF CommitSucceeds, CommitAnswerLost, TakeRequest, EpochLogTypeOK
  <2>2. history' \in Seq(Epoch)
    <3>1. history \in Seq(Epoch)
      BY DEF EpochLogTypeOK
    <3>2. history' = Append(history, request[n])
      BY <1>3 DEF CommitSucceeds, CommitAnswerLost
    <3>. QED BY <2>1, <3>1, <3>2
  <2>3. last_committed_sn' \in [Peers -> Nat \cup {-1}]
    BY <1>3, <2>1
       DEF CommitSucceeds, CommitAnswerLost, EpochLogTypeOK, Epoch
  <2>. QED
    BY <1>3, <2>2, <2>3
       DEF CommitSucceeds, CommitAnswerLost, TakeRequest, EpochLogTypeOK,
           appVars, watchVars
<1>4. ASSUME NEW n \in Peers, SkipCommitted(n) \/ CommitFails(n)
      PROVE  EpochLogTypeOK'
  BY <1>4 DEF SkipCommitted, CommitFails, TakeRequest, EpochLogTypeOK,
              appVars, watchVars
<1>5. ASSUME NEW n \in Peers, WatchMessage(n)
      PROVE  EpochLogTypeOK'
  <2>1. history[watched[n] + 1] \in Epoch
    BY <1>5 DEF WatchMessage, EpochLogTypeOK
  <2>2. updates' \in [Peers -> Seq(Epoch)]
    <3>1. updates \in [Peers -> Seq(Epoch)]
      BY DEF EpochLogTypeOK
    <3>2. Append(updates[n], history[watched[n] + 1]) \in Seq(Epoch)
      BY <2>1, <3>1
    <3>. QED BY <1>5, <3>1, <3>2 DEF WatchMessage
  <2>3. watched' \in [Peers -> Nat] /\ last_rev' \in [Peers -> Nat]
    <3>1. /\ watched \in [Peers -> Nat] /\ last_rev \in [Peers -> Nat]
          /\ history[watched[n] + 1].sequence_number \in Nat
      BY <2>1 DEF EpochLogTypeOK, Epoch
    <3>. QED BY <1>5, <3>1 DEF WatchMessage
  <2>. QED
    BY <1>5, <2>2, <2>3 DEF WatchMessage, EpochLogTypeOK, appVars
<1>6. ASSUME NEW n \in Peers, Reconnect(n)
      PROVE  EpochLogTypeOK'
  <2>1. Len(history) \in Nat /\ last_rev[n] \in Nat
    BY DEF EpochLogTypeOK
  <2>2. last_rev[n] # 0 => last_rev[n] - 1 \in Nat
    BY <2>1
  <2>3. watched \in [Peers -> Nat] /\ joined_at \in [Peers -> Nat]
    BY DEF EpochLogTypeOK
  <2>4. watched' \in [Peers -> Nat] /\ joined_at' \in [Peers -> Nat]
    BY <1>6, <2>1, <2>2, <2>3 DEF Reconnect
  <2>5. reconnects' \in Nat
    BY <1>6 DEF Reconnect, EpochLogTypeOK
  <2>. QED
    BY <1>6, <2>4, <2>5 DEF Reconnect, EpochLogTypeOK, appVars
<1>7. CASE UNCHANGED epochLogVars
  BY <1>7 DEF epochLogVars, EpochLogTypeOK, appVars, watchVars
<1>. QED
  BY <1>1, <1>2, <1>3, <1>4, <1>5, <1>6, <1>7
     DEF EpochLogNext, CoordinatorStep

\* Type correctness of the epoch log: EpochLogTypeOK holds in every behaviour.
THEOREM TypeCorrect == EpochLogSpec => []EpochLogTypeOK
<1>1. EpochLogInit => EpochLogTypeOK
  BY MaxOffsetAssumption
     DEF EpochLogInit, EpochLogTypeOK, NoRequest, None, OptOffset
<1>. QED
  BY <1>1, TypeStep, PTL DEF EpochLogSpec

-----------------------------------------------------------------------------
(***************************************************************************)
(* The inductive invariant, action by action.                              *)
(***************************************************************************)

\* Lengths are natural numbers, and the epochs in the sequences are epochs.
LEMMA Lengths ==
    ASSUME EpochLogTypeOK
    PROVE  /\ Len(history) \in Nat
           /\ \A i \in 1 .. Len(history) : history[i] \in Epoch
           /\ \A n \in Peers :
                 /\ epochs[n] \in Seq(Epoch) /\ Len(epochs[n]) \in Nat
                 /\ updates[n] \in Seq(Epoch) /\ Len(updates[n]) \in Nat
BY ElementOfSeq DEF EpochLogTypeOK

\* Appending to the channel appends to what was seen.
LEMMA SeenAppend ==
    ASSUME NEW s \in Seq(Epoch), NEW t \in Seq(Epoch), NEW e \in Epoch
    PROVE  s \o Append(t, e) = Append(s \o t, e)
<1>1. Append(t, e) = t \o <<e>> /\ <<e>> \in Seq(Epoch)
  BY AppendIsConcat
<1>2. s \o t \in Seq(Epoch)
  BY ConcatProperties
<1>3. Append(s \o t, e) = (s \o t) \o <<e>>
  BY <1>2, AppendIsConcat
<1>. QED BY <1>1, <1>3, ConcatAssociative

\* Moving the head of the channel to the applied epochs changes nothing.
LEMMA SeenMove ==
    ASSUME NEW s \in Seq(Epoch), NEW t \in Seq(Epoch), t # <<>>
    PROVE  Append(s, Head(t)) \o Tail(t) = s \o t
<1>1. /\ Head(t) \in Epoch /\ Tail(t) \in Seq(Epoch) /\ Len(t) \in Nat \ {0}
      /\ Len(Tail(t)) = Len(t) - 1
      /\ \A i \in 1 .. Len(Tail(t)) : Tail(t)[i] = t[i + 1]
  BY HeadTailProperties, EmptySeq
<1>2. /\ <<Head(t)>> \o Tail(t) \in Seq(Epoch)
      /\ Len(<<Head(t)>> \o Tail(t)) = Len(t)
      /\ \A i \in 1 .. Len(t) : (<<Head(t)>> \o Tail(t))[i] = t[i]
  BY <1>1, ConcatProperties
<1>3. <<Head(t)>> \o Tail(t) = t
  BY <1>2, SeqEqual
<1>4. Append(s, Head(t)) = s \o <<Head(t)>> /\ <<Head(t)>> \in Seq(Epoch)
  BY <1>1, AppendIsConcat
<1>. QED BY <1>1, <1>3, <1>4, ConcatAssociative

\* The epochs a node has seen form a sequence of epochs.
LEMMA SeenType ==
    ASSUME EpochLogTypeOK, NEW n \in Peers
    PROVE  Seen(n) \in Seq(Epoch) /\ Len(Seen(n)) \in Nat
<1>1. Seen(n) \in Seq(Epoch)
  BY Lengths, ConcatProperties DEF Seen
<1>. QED BY <1>1, LenProperties

\* The last applied epoch is one of those seen.
LEMMA AppliedIsSeen ==
    ASSUME EpochLogTypeOK, NEW n \in Peers, NEW i \in 1 .. Len(epochs[n])
    PROVE  i \in 1 .. Len(Seen(n)) /\ Seen(n)[i] = epochs[n][i]
<1>1. epochs[n] \in Seq(Epoch) /\ updates[n] \in Seq(Epoch)
      /\ Len(epochs[n]) \in Nat /\ Len(updates[n]) \in Nat
  BY Lengths
<1>2. Len(Seen(n)) = Len(epochs[n]) + Len(updates[n])
  BY <1>1, ConcatProperties DEF Seen
<1>3. ASSUME NEW x \in Nat, NEW y \in Nat, NEW j \in 1 .. x
      PROVE  j \in 1 .. (x + y) /\ j <= x
  OBVIOUS
<1>4. i \in 1 .. (Len(epochs[n]) + Len(updates[n])) /\ i <= Len(epochs[n])
  BY <1>1, <1>3
<1>5. (epochs[n] \o updates[n])[i] = epochs[n][i]
  BY <1>1, <1>4, ConcatProperties
<1>. QED BY <1>2, <1>4, <1>5 DEF Seen

\* A walk goes on with an epoch that repeats or follows its last one.
LEMMA WalkExtends ==
    ASSUME NEW list \in Seq(Epoch), NEW e \in Epoch, NEW first,
           WalksHistory(list, first),
           e.sequence_number + 1 \in 1 .. Len(history),
           e = history[e.sequence_number + 1],
           list = <<>> => e.sequence_number = first,
           list # <<>> => e.sequence_number
                            - list[Len(list)].sequence_number \in {0, 1}
    PROVE  WalksHistory(Append(list, e), first)
<1>1. /\ Len(list) \in Nat
      /\ Len(Append(list, e)) = Len(list) + 1
      /\ \A i \in 1 .. Len(list) : Append(list, e)[i] = list[i]
      /\ Append(list, e)[Len(list) + 1] = e
      /\ list = <<>> <=> Len(list) = 0
  BY AppendProperties, EmptySeq, LenProperties
<1> SUFFICES ASSUME NEW i \in 1 .. Len(list) + 1
             PROVE  LET x == Append(list, e)
                    IN /\ x[i].sequence_number + 1 \in 1 .. Len(history)
                       /\ x[i] = history[x[i].sequence_number + 1]
                       /\ i = 1 => x[i].sequence_number = first
                       /\ i > 1 => x[i].sequence_number
                                     - x[i - 1].sequence_number \in {0, 1}
  BY <1>1 DEF WalksHistory
<1>2. CASE i \in 1 .. Len(list)
  <2>1. i > 1 => i - 1 \in 1 .. Len(list)
    BY <1>1, <1>2
  <2>. QED BY <1>1, <1>2, <2>1 DEF WalksHistory
<1>3. CASE i = Len(list) + 1
  <2>1. i > 1 => i - 1 = Len(list) /\ Len(list) \in 1 .. Len(list)
    BY <1>1, <1>3
  <2>2. i = 1 <=> Len(list) = 0
    BY <1>1, <1>3
  <2>3. i > 1 <=> Len(list) # 0
    BY <1>1, <1>3
  <2>. QED BY <1>1, <1>3, <2>1, <2>2, <2>3
<1>. QED BY <1>1, <1>2, <1>3

\* A walk is still one when the history grows.
LEMMA WalkInLongerHistory ==
    ASSUME NEW list \in Seq(Epoch), NEW first, WalksHistory(list, first),
           Len(history) \in Nat, Len(history') \in Nat,
           Len(history) <= Len(history'),
           \A i \in 1 .. Len(history) : history'[i] = history[i]
    PROVE  WalksHistory(list, first)'
BY LenProperties DEF WalksHistory

\* What a node has seen still walks a history that did not change.
LEMMA WalkKept ==
    ASSUME SeenInOrder, NEW m \in Peers, history' = history,
           Seen(m)' = Seen(m), joined_at'[m] = joined_at[m]
    PROVE  WalksHistory(Seen(m), joined_at[m])'
<1>1. WalksHistory(Seen(m), joined_at[m])
  BY DEF SeenInOrder
<1>. QED BY <1>1 DEF WalksHistory

\* The parts of the invariant that speak of the history and the proposals only.
LEMMA HistoryKept ==
    ASSUME EpochLogInv, history' = history,
           EveryoneFromTheStart' => EveryoneFromTheStart
    PROVE  /\ HistoryNumbered' /\ EpochsTile'
           /\ (\A i \in 1 .. Len(history) : OneIntervalPerRange(history[i]))'
<1>1. HistoryNumbered'
  BY DEF EpochLogInv, HistoryNumbered
<1>2. (\A i \in 1 .. Len(history) : OneIntervalPerRange(history[i]))'
  BY DEF EpochLogInv, OneIntervalPerRange
<1>3. EpochsTile'
  <2>1. HistoryTilesRanges => HistoryTilesRanges'
    BY DEF HistoryTilesRanges, Follows
  <2>. QED BY <2>1 DEF EpochLogInv, EpochsTile
<1>. QED BY <1>1, <1>2, <1>3

LEMMA ProposalsKept ==
    ASSUME EpochLogInv, history' = history, request' = request,
           EveryoneFromTheStart' => EveryoneFromTheStart
    PROVE  ProposalsFit'
<1> SUFFICES ASSUME NEW m \in Peers
             PROVE  (/\ request[m].sequence_number <= Len(history)
                     /\ OneIntervalPerRange(request[m])
                     /\ EveryoneFromTheStart =>
                          \A a \in request[m].increments :
                             /\ a.left <= a.right
                             /\ Follows(a, request[m].sequence_number))'
  BY DEF ProposalsFit
<1>1. ProposalsFit
  BY DEF EpochLogInv
<1>2. (request[m].sequence_number <= Len(history))'
  BY <1>1 DEF ProposalsFit
<1>3. OneIntervalPerRange(request[m])'
  BY <1>1 DEF ProposalsFit, OneIntervalPerRange
<1>4. ASSUME EveryoneFromTheStart', NEW a \in request'[m].increments
      PROVE  a.left <= a.right /\ Follows(a, request[m].sequence_number)'
  <2>1. a.left <= a.right /\ Follows(a, request[m].sequence_number)
    BY <1>1, <1>4 DEF ProposalsFit
  <2>. QED BY <2>1 DEF Follows
<1>. QED BY <1>2, <1>3, <1>4

\* A step that leaves alone what the invariant speaks about preserves it.
LEMMA QuietStep ==
    ASSUME EpochLogInv, EpochLogTypeOK',
           UNCHANGED <<history, epochs, updates, joined_at, last_rev, watched,
                       request, commited_offsets>>
    PROVE  EpochLogInv'
<1>1. SeenInOrder' /\ WatchPositions'
  BY DEF EpochLogInv, SeenInOrder, WalksHistory, Seen, WatchPositions
<1>2. HistoryNumbered'
      /\ (\A i \in 1 .. Len(history) : OneIntervalPerRange(history[i]))'
  BY DEF EpochLogInv, HistoryNumbered, OneIntervalPerRange
<1>3. ProposalsFit' /\ EpochsTile'
  BY DEF EpochLogInv, ProposalsFit, EpochsTile, HistoryTilesRanges, Follows,
         OneIntervalPerRange, EveryoneFromTheStart
<1>4. CommitedMatchEpochs'
  BY DEF EpochLogInv, CommitedMatchEpochs, ReachedBy, EveryoneFromTheStart,
         NextSequenceNumber
<1>. QED
  BY <1>1, <1>2, <1>3, <1>4 DEF EpochLogInv

\* The next number of a node is at most the length of the history.
LEMMA NextNumberBound ==
    ASSUME EpochLogInv, NEW n \in Peers
    PROVE  NextSequenceNumber(n) \in 0 .. Len(history)
<1>1. epochs[n] \in Seq(Epoch) /\ updates[n] \in Seq(Epoch)
      /\ Len(history) \in Nat
  BY DEF EpochLogInv, EpochLogTypeOK
<1>2. CASE epochs[n] = <<>>
  BY <1>1, <1>2 DEF NextSequenceNumber
<1>3. CASE epochs[n] # <<>>
  <2>1. Len(epochs[n]) \in 1 .. Len(epochs[n])
    BY <1>1, <1>3, EmptySeq
  <2>2. epochs[n][Len(epochs[n])].sequence_number + 1 \in 1 .. Len(history)
    BY <2>1, AppliedIsSeen DEF EpochLogInv, SeenInOrder, WalksHistory
  <2>. QED BY <1>1, <1>3, <2>2 DEF NextSequenceNumber
<1>. QED BY <1>2, <1>3

\* Proposing preserves the invariant: the increments start where the node's
\* commited offsets, and so the epochs it has applied, end.
LEMMA ProposeStep ==
    ASSUME EpochLogInv, EpochLogTypeOK', NEW n \in Peers,
           NEW consensus \in [Ranges -> OptOffset],
           CommitEpochIfNeeded(n, consensus)
    PROVE  EpochLogInv'
<1> DEFINE q == [sequence_number |-> NextSequenceNumber(n),
                 increments |-> CalculateEpochIncrements(n, consensus)]
<1>1. /\ request' = [request EXCEPT ![n] = q]
      /\ UNCHANGED <<history, epochs, updates, joined_at, last_rev, watched,
                     commited_offsets>>
  BY DEF CommitEpochIfNeeded, appVars, watchVars
<1>2. q.sequence_number <= Len(history)
  <2>1. Len(history) \in Nat
    BY Lengths DEF EpochLogInv
  <2>. QED BY <2>1, NextNumberBound
<1>3. OneIntervalPerRange(q)
  BY DEF OneIntervalPerRange, CalculateEpochIncrements
<1>4. ASSUME EveryoneFromTheStart, NEW a \in q.increments
      PROVE  a.left <= a.right /\ Follows(a, q.sequence_number)
  <2>1. PICK r \in Ranges :
           /\ commited_offsets[n][r] < consensus[r]
           /\ a = [range |-> r, left |-> commited_offsets[n][r] + 1,
                   right |-> consensus[r]]
    BY <1>4 DEF CalculateEpochIncrements
  <2>2. commited_offsets[n][r] \in Int /\ consensus[r] \in Int
    BY DEF EpochLogInv, EpochLogTypeOK, OptOffset
  <2>3. ReachedBy(r, commited_offsets[n][r], NextSequenceNumber(n))
    BY <1>4 DEF EpochLogInv, CommitedMatchEpochs
  <2>4. ASSUME NEW i \in 1 .. NextSequenceNumber(n),
               NEW b \in history[i].increments
        PROVE  b.right \in Int
    <3>1. i \in 1 .. Len(history)
      BY NextNumberBound, Lengths DEF EpochLogInv
    <3>2. history[i] \in Epoch
      BY <3>1, Lengths DEF EpochLogInv
    <3>. QED BY <3>2, MaxOffsetAssumption DEF Epoch, Interval, Offsets
  <2>5. a.left <= a.right
    BY <2>1, <2>2
  <2>6. Follows(a, NextSequenceNumber(n))
    BY <2>1, <2>2, <2>3, <2>4 DEF ReachedBy, Follows, None
  <2>. QED BY <2>5, <2>6
<1>5. ProposalsFit'
  <2> SUFFICES ASSUME NEW m \in Peers
               PROVE  /\ request'[m].sequence_number <= Len(history)
                      /\ OneIntervalPerRange(request'[m])
                      /\ EveryoneFromTheStart =>
                           \A a \in request'[m].increments :
                              /\ a.left <= a.right
                              /\ Follows(a, request'[m].sequence_number)
    BY <1>1 DEF ProposalsFit, OneIntervalPerRange, EveryoneFromTheStart,
                Follows
  <2>1. CASE m = n
    <3>1. request'[m] = q
      BY <1>1, <2>1 DEF EpochLogInv, EpochLogTypeOK
    <3>. QED BY <3>1, <1>2, <1>3, <1>4
  <2>2. CASE m # n
    <3>1. request'[m] = request[m]
      BY <1>1, <2>2 DEF EpochLogInv, EpochLogTypeOK
    <3>. QED BY <3>1 DEF EpochLogInv, ProposalsFit
  <2>. QED BY <2>1, <2>2
<1>6. SeenInOrder' /\ WatchPositions'
  <2>1. \A m \in Peers : Seen(m)' = Seen(m)
    BY <1>1 DEF Seen
  <2>2. SeenInOrder'
    BY <1>1, <2>1, WalkKept DEF EpochLogInv, SeenInOrder
  <2>3. WatchPositions'
    BY <1>1, <2>1 DEF EpochLogInv, WatchPositions
  <2>. QED BY <2>2, <2>3
<1>7. HistoryNumbered' /\ EpochsTile'
      /\ (\A i \in 1 .. Len(history) : OneIntervalPerRange(history[i]))'
  BY <1>1, HistoryKept DEF EveryoneFromTheStart
<1>8. CommitedMatchEpochs'
  BY <1>1 DEF EpochLogInv, CommitedMatchEpochs, ReachedBy,
              EveryoneFromTheStart, NextSequenceNumber
<1>. QED BY <1>5, <1>6, <1>7, <1>8 DEF EpochLogInv

\* Committing preserves the invariant: the comparison lets only an epoch with
\* the next free number through, and that one was computed from the whole
\* history.
LEMMA CommitStep ==
    ASSUME EpochLogInv, EpochLogTypeOK', NEW n \in Peers,
           CommitSucceeds(n) \/ CommitAnswerLost(n)
    PROVE  EpochLogInv'
<1> DEFINE q == request[n]
<1> DEFINE L == Len(history)
<1>1. /\ history' = Append(history, q)
      /\ UNCHANGED <<epochs, updates, joined_at, last_rev, watched, request,
                     commited_offsets>>
      /\ NotInHistory(q.sequence_number)
      /\ q # NoRequest
  BY DEF CommitSucceeds, CommitAnswerLost, TakeRequest, appVars, watchVars
<1>2. q \in Epoch /\ history \in Seq(Epoch) /\ L \in Nat
  BY <1>1 DEF EpochLogInv, EpochLogTypeOK
<1>3. /\ Len(history') = L + 1
      /\ \A i \in 1 .. L : history'[i] = history[i]
      /\ history'[L + 1] = q
  BY <1>1, <1>2
<1>4. q.sequence_number = L
  <2>1. q.sequence_number \in Nat /\ q.sequence_number <= L
    BY <1>2 DEF EpochLogInv, ProposalsFit, Epoch
  <2>2. ASSUME q.sequence_number < L
        PROVE  FALSE
    <3>1. q.sequence_number + 1 \in 1 .. L
      BY <2>1, <2>2, <1>2
    <3>2. history[q.sequence_number + 1].sequence_number
             = (q.sequence_number + 1) - 1
      BY <3>1 DEF EpochLogInv, HistoryNumbered
    <3>. QED BY <1>1, <2>1, <3>1, <3>2 DEF NotInHistory
  <2>. QED BY <1>2, <2>1, <2>2
<1>5. \A a, k : k \in 0 .. L => (Follows(a, k)' <=> Follows(a, k))
  <2> SUFFICES ASSUME NEW a, NEW k \in 0 .. L
               PROVE  Follows(a, k)' <=> Follows(a, k)
    OBVIOUS
  <2>1. \A i \in 1 .. k : history'[i] = history[i]
    BY <1>2, <1>3
  <2>. QED BY <2>1 DEF Follows
<1>6. EveryoneFromTheStart' <=> EveryoneFromTheStart
  BY <1>1 DEF EveryoneFromTheStart
<1>7. HistoryNumbered'
  <2>1. \A i \in 1 .. L : history'[i].sequence_number = i - 1
    BY <1>3 DEF EpochLogInv, HistoryNumbered
  <2>2. history'[L + 1].sequence_number = (L + 1) - 1
    BY <1>2, <1>3, <1>4
  <2>. QED BY <1>2, <1>3, <2>1, <2>2 DEF HistoryNumbered
<1>8. (\A i \in 1 .. Len(history) : OneIntervalPerRange(history[i]))'
  <2>1. OneIntervalPerRange(q)
    BY DEF EpochLogInv, ProposalsFit
  <2>2. \A i \in 1 .. L + 1 : OneIntervalPerRange(history'[i])
    BY <1>2, <1>3, <2>1 DEF EpochLogInv
  <2>. QED BY <1>3, <2>2 DEF OneIntervalPerRange
<1>9. SeenInOrder'
  <2> SUFFICES ASSUME NEW m \in Peers
               PROVE  WalksHistory(Seen(m), joined_at[m])'
    BY DEF SeenInOrder
  <2>1. Seen(m)' = Seen(m) /\ joined_at'[m] = joined_at[m]
    BY <1>1 DEF Seen
  <2>2. \A list, first :
           list \in Seq(Epoch) /\ WalksHistory(list, first)
             => WalksHistory(list, first)'
    BY <1>2, <1>3, WalkInLongerHistory
  <2>. QED BY <2>1, <2>2, SeenType DEF EpochLogInv, SeenInOrder
<1>10. WatchPositions'
  <2>1. \A m : Seen(m)' = Seen(m)
    BY <1>1 DEF Seen
  <2>3. ASSUME NEW m \in Peers
        PROVE  last_rev[m] <= L + 1 /\ joined_at[m] <= L + 1
    <3>1. last_rev[m] \in Nat /\ joined_at[m] \in Nat
      BY DEF EpochLogInv, EpochLogTypeOK
    <3>2. last_rev[m] <= L /\ joined_at[m] <= L
      BY DEF EpochLogInv, WatchPositions
    <3>. QED BY <1>2, <3>1, <3>2
  <2>. QED BY <1>1, <1>3, <2>1, <2>3 DEF EpochLogInv, WatchPositions
<1>11. ProposalsFit'
  <2> SUFFICES ASSUME NEW m \in Peers
               PROVE  /\ request[m].sequence_number <= L + 1
                      /\ OneIntervalPerRange(request[m])
                      /\ EveryoneFromTheStart =>
                           \A a \in request[m].increments :
                              /\ a.left <= a.right
                              /\ Follows(a, request[m].sequence_number)'
    BY <1>1, <1>3, <1>6 DEF ProposalsFit, OneIntervalPerRange
  <2>1. /\ request[m].sequence_number <= L
        /\ OneIntervalPerRange(request[m])
        /\ EveryoneFromTheStart =>
             \A a \in request[m].increments :
                a.left <= a.right /\ Follows(a, request[m].sequence_number)
    BY DEF EpochLogInv, ProposalsFit
  <2>2. request[m] \in Epoch \/ request[m] = NoRequest
    BY DEF EpochLogInv, EpochLogTypeOK
  <2>3. CASE request[m] \in Epoch
    <3>1. request[m].sequence_number \in 0 .. L
      BY <1>2, <2>1, <2>3 DEF Epoch
    <3>2. request[m].sequence_number <= L + 1
      BY <1>2, <3>1
    <3>. QED BY <1>1, <1>5, <2>1, <3>1, <3>2
  <2>4. CASE request[m] = NoRequest
    <3>1. request[m].increments = {} /\ request[m].sequence_number = -1
      BY <2>4 DEF NoRequest
    <3>2. request[m].sequence_number <= L + 1
      BY <1>2, <3>1
    <3>. QED BY <2>1, <3>1, <3>2
  <2>. QED BY <2>2, <2>3, <2>4
<1>12. CommitedMatchEpochs'
  <2> SUFFICES ASSUME EveryoneFromTheStart, NEW m \in Peers, NEW r \in Ranges
               PROVE  ReachedBy(r, commited_offsets[m][r],
                                NextSequenceNumber(m))'
    BY <1>1, <1>6 DEF CommitedMatchEpochs
  <2>1. NextSequenceNumber(m)' = NextSequenceNumber(m)
    BY <1>1 DEF NextSequenceNumber
  <2>2. ReachedBy(r, commited_offsets[m][r], NextSequenceNumber(m))
    BY DEF EpochLogInv, CommitedMatchEpochs
  <2>3. \A i \in 1 .. NextSequenceNumber(m) : history'[i] = history[i]
    BY <1>2, <1>3, NextNumberBound
  <2>. QED BY <1>1, <2>1, <2>2, <2>3 DEF ReachedBy
<1>13. EpochsTile'
  <2> SUFFICES ASSUME EveryoneFromTheStart
               PROVE  HistoryTilesRanges'
    BY <1>6 DEF EpochsTile
  <2>1. ASSUME NEW k \in 1 .. L + 1, NEW a \in history'[k].increments
        PROVE  a.left <= a.right /\ Follows(a, k - 1)'
    <3>1. k - 1 \in 0 .. L
      BY <1>2
    <3>2. CASE k = L + 1
      <4>1. a \in q.increments /\ k - 1 = q.sequence_number
        BY <1>2, <1>3, <1>4, <2>1, <3>2
      <4>2. a.left <= a.right /\ Follows(a, k - 1)
        BY <4>1 DEF EpochLogInv, ProposalsFit
      <4>. QED BY <1>5, <3>1, <4>2
    <3>3. CASE k # L + 1
      <4>1. k \in 1 .. L /\ a \in history[k].increments
        BY <1>2, <1>3, <2>1, <3>3
      <4>2. a.left <= a.right /\ Follows(a, k - 1)
        BY <4>1 DEF EpochLogInv, EpochsTile, HistoryTilesRanges
      <4>. QED BY <1>5, <3>1, <4>2
    <3>. QED BY <3>2, <3>3
  <2>. QED BY <1>3, <2>1 DEF HistoryTilesRanges
<1>. QED
  BY <1>7, <1>8, <1>9, <1>10, <1>11, <1>12, <1>13 DEF EpochLogInv

\* Receiving an epoch over the watch preserves the invariant: it repeats or
\* follows the last one seen, because the watch stands next to it.
LEMMA WatchStep ==
    ASSUME EpochLogInv, EpochLogTypeOK', NEW n \in Peers, WatchMessage(n)
    PROVE  EpochLogInv'
<1> DEFINE w == watched[n]
<1> DEFINE e == history[w + 1]
<1>1. /\ updates' = [updates EXCEPT ![n] = Append(updates[n], e)]
      /\ watched' = [watched EXCEPT ![n] = w + 1]
      /\ last_rev' = [last_rev EXCEPT ![n] = w + 1]
      /\ w < Len(history)
      /\ UNCHANGED <<history, epochs, joined_at, request, commited_offsets>>
  BY DEF WatchMessage, appVars
<1>2. /\ Len(history) \in Nat
      /\ w \in Nat
      /\ watched \in [Peers -> Nat] /\ last_rev \in [Peers -> Nat]
      /\ joined_at \in [Peers -> Nat]
      /\ updates \in [Peers -> Seq(Epoch)]
      /\ epochs \in [Peers -> Seq(Epoch)]
  BY Lengths DEF EpochLogInv, EpochLogTypeOK
<1>3. w + 1 \in 1 .. Len(history)
  BY <1>1, <1>2
<1>4. e \in Epoch /\ e.sequence_number = w
  <2>1. e \in Epoch
    BY <1>3, Lengths DEF EpochLogInv
  <2>2. e.sequence_number = (w + 1) - 1
    BY <1>3 DEF EpochLogInv, HistoryNumbered
  <2>. QED BY <1>2, <2>1, <2>2
<1>5. ASSUME NEW m \in Peers, m # n
      PROVE  /\ Seen(m)' = Seen(m) /\ watched'[m] = watched[m]
             /\ last_rev'[m] = last_rev[m]
  <2>1. updates'[m] = updates[m]
    BY <1>1, <1>2, <1>5
  <2>2. watched'[m] = watched[m] /\ last_rev'[m] = last_rev[m]
    BY <1>1, <1>2, <1>5
  <2>. QED BY <1>1, <2>1, <2>2 DEF Seen
<1>6. /\ Seen(n)' = Append(Seen(n), e)
      /\ watched'[n] = w + 1 /\ last_rev'[n] = w + 1
  <2>1. updates'[n] = Append(updates[n], e)
    <3>1. updates' = [updates EXCEPT ![n] = Append(updates[n], e)]
      BY <1>1
    <3>. QED BY <1>2, <3>1
  <2>2. watched'[n] = w + 1 /\ last_rev'[n] = w + 1
    BY <1>1, <1>2
  <2>3. epochs[n] \o Append(updates[n], e) = Append(epochs[n] \o updates[n], e)
    <3>1. epochs[n] \in Seq(Epoch) /\ updates[n] \in Seq(Epoch)
      BY <1>2
    <3>2. e \in Epoch
      BY <1>4
    <3>. QED BY <3>1, <3>2, SeenAppend
  <2>4. epochs' = epochs
    BY <1>1
  <2>. QED BY <2>1, <2>2, <2>3, <2>4 DEF Seen
<1>7. WalksHistory(Append(Seen(n), e), joined_at[n])
  <2>1. Seen(n) \in Seq(Epoch) /\ WalksHistory(Seen(n), joined_at[n])
    BY SeenType DEF EpochLogInv, SeenInOrder
  <2>2. last_rev[n] \in Nat
    BY <1>2
  <2>3. Seen(n) = <<>> => w = joined_at[n]
    BY DEF EpochLogInv, WatchPositions
  <2>4. Seen(n) # <<>> =>
           /\ Seen(n)[Len(Seen(n))].sequence_number = last_rev[n] - 1
           /\ w \in {last_rev[n] - 1, last_rev[n]}
    BY DEF EpochLogInv, WatchPositions
  <2>5. Seen(n) # <<>> =>
           w - Seen(n)[Len(Seen(n))].sequence_number \in {0, 1}
    BY <1>2, <2>2, <2>4
  <2>. QED BY <1>3, <1>4, <2>1, <2>3, <2>5, WalkExtends
<1>8. SeenInOrder'
  <2> SUFFICES ASSUME NEW m \in Peers
               PROVE  WalksHistory(Seen(m), joined_at[m])'
    BY DEF SeenInOrder
  <2>1. CASE m = n
    BY <1>1, <1>6, <1>7, <2>1 DEF WalksHistory
  <2>2. CASE m # n
    BY <1>1, <1>5, <2>2, WalkKept DEF EpochLogInv
  <2>. QED BY <2>1, <2>2
<1>9. WatchPositions'
  <2> SUFFICES ASSUME NEW m \in Peers
               PROVE  /\ last_rev'[m] <= Len(history)
                      /\ joined_at[m] <= Len(history)
                      /\ last_rev'[m] = 0 =>
                           Seen(m)' = <<>> /\ watched'[m] = joined_at[m]
                      /\ last_rev'[m] # 0 =>
                           /\ Seen(m)' # <<>>
                           /\ Seen(m)'[Len(Seen(m)')].sequence_number
                                 = last_rev'[m] - 1
                           /\ watched'[m] \in {last_rev'[m] - 1, last_rev'[m]}
    BY <1>1 DEF WatchPositions
  <2>1. CASE m = n
    <3>1. Seen(n) \in Seq(Epoch) /\ Len(Seen(n)) \in Nat
      BY SeenType DEF EpochLogInv
    <3>2. /\ Append(Seen(n), e) # <<>>
          /\ Append(Seen(n), e)[Len(Append(Seen(n), e))] = e
      BY <1>4, <3>1, AppendProperties
    <3>3. w + 1 # 0 /\ w = (w + 1) - 1 /\ w + 1 <= Len(history)
      <4>1. ASSUME NEW x \in Nat, NEW y \in Nat, x < y
            PROVE  x + 1 # 0 /\ x = (x + 1) - 1 /\ x + 1 <= y
        BY <4>1
      <4>. QED BY <1>1, <1>2, <4>1
    <3>4. joined_at[n] <= Len(history)
      BY DEF EpochLogInv, WatchPositions
    <3>. QED BY <1>4, <1>6, <2>1, <3>2, <3>3, <3>4
  <2>2. CASE m # n
    BY <1>5, <2>2 DEF EpochLogInv, WatchPositions
  <2>. QED BY <2>1, <2>2
<1>10. HistoryNumbered' /\ ProposalsFit' /\ EpochsTile'
       /\ (\A i \in 1 .. Len(history) : OneIntervalPerRange(history[i]))'
  BY <1>1, HistoryKept, ProposalsKept DEF EveryoneFromTheStart
<1>11. CommitedMatchEpochs'
  BY <1>1 DEF EpochLogInv, CommitedMatchEpochs, ReachedBy,
              EveryoneFromTheStart, NextSequenceNumber
<1>. QED BY <1>8, <1>9, <1>10, <1>11 DEF EpochLogInv

\* A watch created again preserves the invariant: it stands before the last
\* epoch received, or behind the whole history if there was none.
LEMMA ReconnectStep ==
    ASSUME EpochLogInv, EpochLogTypeOK', NEW n \in Peers, Reconnect(n)
    PROVE  EpochLogInv'
<1>1. UNCHANGED <<history, epochs, updates, last_rev, request,
                  commited_offsets>>
  BY DEF Reconnect, appVars
<1>2. /\ Len(history) \in Nat
      /\ watched \in [Peers -> Nat] /\ last_rev \in [Peers -> Nat]
      /\ joined_at \in [Peers -> Nat]
  BY Lengths DEF EpochLogInv, EpochLogTypeOK
<1>3. \A m : Seen(m)' = Seen(m)
  BY <1>1 DEF Seen
<1>4. ASSUME NEW m \in Peers, m # n
      PROVE  watched'[m] = watched[m] /\ joined_at'[m] = joined_at[m]
  BY <1>2, <1>4 DEF Reconnect
<1>5. \/ /\ last_rev[n] = 0
         /\ watched'[n] = Len(history) /\ joined_at'[n] = Len(history)
      \/ /\ last_rev[n] # 0
         /\ watched'[n] = last_rev[n] - 1 /\ joined_at'[n] = joined_at[n]
  BY <1>2 DEF Reconnect
<1>6. EveryoneFromTheStart' => EveryoneFromTheStart
  <2> SUFFICES ASSUME \A m \in Peers : joined_at'[m] = 0
               PROVE  \A m \in Peers : joined_at[m] = 0
    BY DEF EveryoneFromTheStart
  <2>1. joined_at[n] \in Nat /\ joined_at[n] <= Len(history)
    BY <1>2 DEF EpochLogInv, WatchPositions
  <2>2. joined_at[n] = 0
    BY <1>2, <1>5, <2>1
  <2>. QED BY <1>4, <2>2
<1>7. SeenInOrder'
  <2> SUFFICES ASSUME NEW m \in Peers
               PROVE  WalksHistory(Seen(m), joined_at[m])'
    BY DEF SeenInOrder
  <2>1. CASE m = n /\ last_rev[n] = 0
    <3>1. Len(Seen(m)) = 0
      BY <2>1 DEF EpochLogInv, WatchPositions
    <3>. QED BY <1>3, <3>1 DEF WalksHistory
  <2>2. CASE m # n \/ last_rev[n] # 0
    <3>1. joined_at'[m] = joined_at[m]
      BY <1>4, <1>5, <2>2
    <3>. QED BY <1>1, <1>3, <3>1, WalkKept DEF EpochLogInv
  <2>. QED BY <2>1, <2>2
<1>8. WatchPositions'
  <2> SUFFICES ASSUME NEW m \in Peers
               PROVE  /\ last_rev[m] <= Len(history)
                      /\ joined_at'[m] <= Len(history)
                      /\ last_rev[m] = 0 =>
                           Seen(m) = <<>> /\ watched'[m] = joined_at'[m]
                      /\ last_rev[m] # 0 =>
                           /\ Seen(m) # <<>>
                           /\ Seen(m)[Len(Seen(m))].sequence_number
                                 = last_rev[m] - 1
                           /\ watched'[m] \in {last_rev[m] - 1, last_rev[m]}
    BY <1>1, <1>3 DEF WatchPositions
  <2>1. Len(history) <= Len(history)
    BY <1>2
  <2>2. CASE m = n
    BY <1>5, <2>1, <2>2 DEF EpochLogInv, WatchPositions
  <2>3. CASE m # n
    BY <1>4, <2>3 DEF EpochLogInv, WatchPositions
  <2>. QED BY <2>2, <2>3
<1>9. HistoryNumbered' /\ ProposalsFit' /\ EpochsTile'
      /\ (\A i \in 1 .. Len(history) : OneIntervalPerRange(history[i]))'
  BY <1>1, <1>6, HistoryKept, ProposalsKept
<1>10. CommitedMatchEpochs'
  BY <1>1, <1>6 DEF EpochLogInv, CommitedMatchEpochs, ReachedBy,
                    NextSequenceNumber
<1>. QED BY <1>7, <1>8, <1>9, <1>10 DEF EpochLogInv

\* The epoch at the head of the channel is the one with the node's next
\* number, or the last applied one again.
LEMMA NextUpdate ==
    ASSUME EpochLogInv, NEW n \in Peers, updates[n] # <<>>
    PROVE  LET e == Head(updates[n])
           IN /\ e \in Epoch
              /\ e.sequence_number + 1 \in 1 .. Len(history)
              /\ e = history[e.sequence_number + 1]
              /\ EveryoneFromTheStart =>
                   \/ e.sequence_number = NextSequenceNumber(n)
                   \/ e.sequence_number + 1 = NextSequenceNumber(n)
<1> DEFINE e == Head(updates[n])
<1> DEFINE p == Len(epochs[n])
<1>1. /\ epochs[n] \in Seq(Epoch) /\ p \in Nat
      /\ updates[n] \in Seq(Epoch) /\ Len(updates[n]) \in Nat
      /\ Len(history) \in Nat
  BY Lengths DEF EpochLogInv
<1>2. Len(updates[n]) # 0 /\ e = updates[n][1] /\ e \in Epoch
  BY <1>1, EmptySeq, HeadTailProperties
<1>3. /\ Len(Seen(n)) = p + Len(updates[n])
      /\ \A i \in 1 .. (p + Len(updates[n])) :
            Seen(n)[i] = IF i <= p THEN epochs[n][i] ELSE updates[n][i - p]
  BY <1>1, ConcatProperties DEF Seen
<1>4. ASSUME NEW x \in Nat, NEW y \in Nat, y # 0
      PROVE  /\ x + 1 \in 1 .. (x + y) /\ ~ (x + 1 <= x) /\ (x + 1) - x = 1
             /\ x # 0 => x \in 1 .. (x + y) /\ x <= x /\ x + 1 > 1
                         /\ (x + 1) - 1 = x
             /\ x = 0 => x + 1 = 1
  BY <1>4
<1>5. /\ p + 1 \in 1 .. (p + Len(updates[n])) /\ ~ (p + 1 <= p)
      /\ (p + 1) - p = 1
      /\ p # 0 => /\ p \in 1 .. (p + Len(updates[n])) /\ p <= p
                  /\ p + 1 > 1 /\ (p + 1) - 1 = p
      /\ p = 0 => p + 1 = 1
  BY <1>1, <1>2, <1>4
<1>6. Seen(n)[p + 1] = e
  BY <1>2, <1>3, <1>5
<1>7. p # 0 => Seen(n)[p] = epochs[n][p]
  BY <1>3, <1>5
<1>8. WalksHistory(Seen(n), joined_at[n])
  BY DEF EpochLogInv, SeenInOrder
<1>9. /\ e.sequence_number + 1 \in 1 .. Len(history)
      /\ e = history[e.sequence_number + 1]
      /\ p + 1 = 1 => e.sequence_number = joined_at[n]
      /\ p + 1 > 1 => e.sequence_number
                        - Seen(n)[(p + 1) - 1].sequence_number \in {0, 1}
  BY <1>3, <1>5, <1>6, <1>8 DEF WalksHistory
<1>10. ASSUME EveryoneFromTheStart
       PROVE  \/ e.sequence_number = NextSequenceNumber(n)
              \/ e.sequence_number + 1 = NextSequenceNumber(n)
  <2>1. CASE p = 0
    <3>1. epochs[n] = <<>>
      BY <1>1, <2>1, EmptySeq
    <3>2. joined_at[n] = 0
      BY <1>10 DEF EveryoneFromTheStart
    <3>. QED BY <1>5, <1>9, <2>1, <3>1, <3>2 DEF NextSequenceNumber
  <2>2. CASE p # 0
    <3>1. epochs[n] # <<>>
      BY <1>1, <2>2, EmptySeq
    <3>2. e.sequence_number - epochs[n][p].sequence_number \in {0, 1}
      BY <1>5, <1>7, <1>9, <2>2
    <3>3. p \in 1 .. p
      BY <1>1, <2>2
    <3>4. epochs[n][p] \in Epoch
      BY <1>1, <3>3, ElementOfSeq
    <3>5. e.sequence_number \in Nat /\ epochs[n][p].sequence_number \in Nat
      BY <1>2, <3>4 DEF Epoch
    <3>6. ASSUME NEW x \in Nat, NEW y \in Nat, x - y \in {0, 1}
          PROVE  x = y + 1 \/ x + 1 = y + 1
      BY <3>6
    <3>. QED BY <3>1, <3>2, <3>5, <3>6 DEF NextSequenceNumber
  <2>. QED BY <2>1, <2>2
<1>. QED BY <1>2, <1>9, <1>10

\* Applying an epoch of the history moves the commited offsets to what the
\* history up to that epoch reaches.
LEMMA ReachedAfter ==
    ASSUME EpochLogInv, EveryoneFromTheStart, NEW n \in Peers,
           updates[n] # <<>>, NEW r \in Ranges
    PROVE  ReachedBy(r, CommitedAfter(n, Head(updates[n]))[r],
                     Head(updates[n]).sequence_number + 1)
<1> DEFINE e == Head(updates[n])
<1> DEFINE k == e.sequence_number
<1>1. /\ e \in Epoch /\ k \in Nat
      /\ k + 1 \in 1 .. Len(history)
      /\ e = history[k + 1]
      /\ k = NextSequenceNumber(n) \/ k + 1 = NextSequenceNumber(n)
  BY NextUpdate DEF Epoch
<1>2. ReachedBy(r, commited_offsets[n][r], NextSequenceNumber(n))
  BY DEF EpochLogInv, CommitedMatchEpochs
<1>3. CASE \E i \in e.increments : i.range = r
  <2> DEFINE a == CHOOSE i \in e.increments : i.range = r
  <2>1. a \in e.increments /\ a.range = r
    BY <1>3
  <2>2. CommitedAfter(n, e)[r] = a.right
    BY <1>3 DEF CommitedAfter
  <2>3. OneIntervalPerRange(e)
    BY <1>1 DEF EpochLogInv
  <2>4. a.left <= a.right /\ Follows(a, (k + 1) - 1)
    BY <1>1, <2>1 DEF EpochLogInv, EpochsTile, HistoryTilesRanges
  <2>5. a.left \in Int /\ a.right \in Int
    BY <1>1, <2>1, MaxOffsetAssumption DEF Epoch, Interval, Offsets
  <2>6. ASSUME NEW i \in 1 .. k + 1, NEW b \in history[i].increments,
               b.range = r
        PROVE  b.right <= a.right
    <3>1. CASE i = k + 1
      <4>1. b = a
        BY <1>1, <2>1, <2>3, <2>6, <3>1 DEF OneIntervalPerRange
      <4>. QED BY <2>5, <4>1
    <3>2. CASE i # k + 1
      <4>1. i \in 1 .. (k + 1) - 1 /\ i \in 1 .. Len(history)
        BY <1>1, <3>2
      <4>2. b.right < a.left
        BY <2>1, <2>4, <2>6, <4>1 DEF Follows
      <4>3. history[i] \in Epoch
        BY <4>1, Lengths DEF EpochLogInv
      <4>4. b.right \in Int
        BY <4>3, MaxOffsetAssumption DEF Epoch, Interval, Offsets
      <4>. QED BY <2>4, <2>5, <4>2, <4>4
    <3>. QED BY <3>1, <3>2
  <2>7. k + 1 \in 1 .. k + 1
    BY <1>1
  <2>8. \E i \in 1 .. k + 1 : \E b \in history[i].increments :
           b.range = r /\ b.right = a.right
    BY <1>1, <2>1, <2>7
  <2>9. ReachedBy(r, a.right, k + 1)
    BY <2>6, <2>8 DEF ReachedBy
  <2>. QED BY <2>2, <2>9
<1>4. CASE ~ \E i \in e.increments : i.range = r
  <2>1. CommitedAfter(n, e)[r] = commited_offsets[n][r]
    BY <1>4 DEF CommitedAfter
  <2>2. CASE k + 1 = NextSequenceNumber(n)
    BY <1>2, <2>1, <2>2
  <2>3. CASE k = NextSequenceNumber(n)
    <3>1. \A i \in 1 .. k + 1 : i \in 1 .. k \/ i = k + 1
      BY <1>1
    <3>2. \A i \in 1 .. k : i \in 1 .. k + 1
      BY <1>1
    <3>3. ReachedBy(r, commited_offsets[n][r], k + 1)
      BY <1>1, <1>2, <1>4, <2>3, <3>1, <3>2 DEF ReachedBy
    <3>. QED BY <2>1, <3>3
  <2>. QED BY <1>1, <2>2, <2>3
<1>. QED BY <1>3, <1>4

\* Applying an epoch preserves the invariant.
LEMMA HandleStep ==
    ASSUME EpochLogInv, EpochLogTypeOK', NEW n \in Peers, NEW held,
           HandleEpochCoordinatorUpdates(n, held)
    PROVE  EpochLogInv'
<1> DEFINE e == Head(updates[n])
<1>1. /\ updates[n] # <<>>
      /\ commited_offsets' = [commited_offsets EXCEPT
                                ![n] = CommitedAfter(n, e)]
      /\ epochs' = [epochs EXCEPT ![n] = Append(epochs[n], e)]
      /\ updates' = [updates EXCEPT ![n] = Tail(updates[n])]
      /\ UNCHANGED <<history, joined_at, last_rev, watched, request>>
  BY DEF HandleEpochCoordinatorUpdates, watchVars
<1>2. /\ commited_offsets \in [Peers -> [Ranges -> OptOffset]]
      /\ epochs \in [Peers -> Seq(Epoch)]
      /\ updates \in [Peers -> Seq(Epoch)]
  BY DEF EpochLogInv, EpochLogTypeOK
<1>3. ASSUME NEW m \in Peers
      PROVE  Seen(m)' = Seen(m)
  <2>1. CASE m = n
    <3>1. epochs'[n] = Append(epochs[n], e) /\ updates'[n] = Tail(updates[n])
      BY <1>1, <1>2
    <3>2. Append(epochs[n], e) \o Tail(updates[n]) = epochs[n] \o updates[n]
      BY <1>1, <1>2, SeenMove
    <3>. QED BY <2>1, <3>1, <3>2 DEF Seen
  <2>2. CASE m # n
    <3>1. epochs'[m] = epochs[m] /\ updates'[m] = updates[m]
      BY <1>1, <1>2, <2>2
    <3>. QED BY <3>1 DEF Seen
  <2>. QED BY <2>1, <2>2
<1>4. SeenInOrder' /\ WatchPositions'
  <2>1. SeenInOrder'
    BY <1>1, <1>3, WalkKept DEF EpochLogInv, SeenInOrder
  <2>2. WatchPositions'
    BY <1>1, <1>3 DEF EpochLogInv, WatchPositions
  <2>. QED BY <2>1, <2>2
<1>5. HistoryNumbered' /\ ProposalsFit' /\ EpochsTile'
      /\ (\A i \in 1 .. Len(history) : OneIntervalPerRange(history[i]))'
  BY <1>1, HistoryKept, ProposalsKept DEF EveryoneFromTheStart
<1>6. CommitedMatchEpochs'
  <2> SUFFICES ASSUME EveryoneFromTheStart, NEW m \in Peers, NEW r \in Ranges
               PROVE  ReachedBy(r, commited_offsets[m][r],
                                NextSequenceNumber(m))'
    BY <1>1 DEF CommitedMatchEpochs, EveryoneFromTheStart
  <2>1. CASE m = n
    <3>1. epochs'[n] = Append(epochs[n], e)
          /\ commited_offsets'[n] = CommitedAfter(n, e)
      BY <1>1, <1>2
    <3>2. e \in Epoch /\ epochs[n] \in Seq(Epoch)
      BY <1>1, <1>2, NextUpdate
    <3>3. Append(epochs[n], e) # <<>>
          /\ Append(epochs[n], e)[Len(Append(epochs[n], e))] = e
      BY <3>2, AppendProperties
    <3>4. NextSequenceNumber(n)' = e.sequence_number + 1
      BY <3>1, <3>3 DEF NextSequenceNumber
    <3>5. ReachedBy(r, CommitedAfter(n, e)[r], e.sequence_number + 1)
      BY <1>1, ReachedAfter
    <3>. QED BY <1>1, <2>1, <3>1, <3>4, <3>5 DEF ReachedBy
  <2>2. CASE m # n
    <3>1. epochs'[m] = epochs[m] /\ commited_offsets'[m] = commited_offsets[m]
      BY <1>1, <1>2, <2>2
    <3>2. NextSequenceNumber(m)' = NextSequenceNumber(m)
      BY <3>1 DEF NextSequenceNumber
    <3>3. ReachedBy(r, commited_offsets[m][r], NextSequenceNumber(m))
      BY DEF EpochLogInv, CommitedMatchEpochs
    <3>. QED BY <1>1, <3>1, <3>2, <3>3 DEF ReachedBy
  <2>. QED BY <2>1, <2>2
<1>. QED BY <1>4, <1>5, <1>6 DEF EpochLogInv

\* Every step of the epoch log preserves the invariant.
LEMMA InvStep == EpochLogInv /\ [EpochLogNext]_epochLogVars => EpochLogInv'
<1> SUFFICES ASSUME EpochLogInv, [EpochLogNext]_epochLogVars
             PROVE  EpochLogInv'
  OBVIOUS
<1>1. EpochLogTypeOK'
  BY TypeStep DEF EpochLogInv
<1>2. ASSUME NEW n \in Peers, SkipCommitted(n) \/ CommitFails(n)
      PROVE  EpochLogInv'
  BY <1>1, <1>2, QuietStep
     DEF SkipCommitted, CommitFails, TakeRequest, appVars, watchVars
<1>3. CASE UNCHANGED epochLogVars
  BY <1>1, <1>3, QuietStep DEF epochLogVars, appVars, watchVars
<1>. QED
  BY <1>1, <1>2, <1>3, ProposeStep, CommitStep, WatchStep, ReconnectStep,
     HandleStep DEF EpochLogNext, CoordinatorStep

\* The invariant holds initially.
LEMMA InvInit == EpochLogInit => EpochLogInv
<1> SUFFICES ASSUME EpochLogInit
             PROVE  EpochLogInv
  OBVIOUS
<1>1. EpochLogTypeOK
  BY MaxOffsetAssumption
     DEF EpochLogInit, EpochLogTypeOK, NoRequest, None, OptOffset
<1>2. history = <<>> /\ Len(history) = 0
  BY DEF EpochLogInit
<1>3. \A n \in Peers : epochs[n] = <<>> /\ Seen(n) = <<>> /\ Len(Seen(n)) = 0
  <2>1. \A n \in Peers : epochs[n] = <<>> /\ updates[n] = <<>>
    BY DEF EpochLogInit
  <2>2. <<>> \in Seq(Epoch)
    BY EmptySeq
  <2>3. <<>> \o <<>> = <<>>
    BY <2>2, ConcatEmptySeq
  <2>4. \A n \in Peers : Seen(n) = <<>>
    BY <2>1, <2>3 DEF Seen
  <2>5. Len(<<>>) = 0
    BY <2>2, EmptySeq
  <2>. QED BY <2>1, <2>4, <2>5
<1>4. HistoryNumbered /\ EpochsTile
      /\ \A i \in 1 .. Len(history) : OneIntervalPerRange(history[i])
  BY <1>2 DEF HistoryNumbered, EpochsTile, HistoryTilesRanges
<1>5. SeenInOrder /\ WatchPositions
  BY <1>2, <1>3 DEF SeenInOrder, WalksHistory, WatchPositions, EpochLogInit
<1>6. ProposalsFit
  BY <1>2 DEF ProposalsFit, EpochLogInit, NoRequest, OneIntervalPerRange
<1>7. CommitedMatchEpochs
  <2>1. \A n \in Peers : NextSequenceNumber(n) = 0
    BY <1>3 DEF NextSequenceNumber
  <2>2. \A n \in Peers, r \in Ranges : commited_offsets[n][r] = None
    BY DEF EpochLogInit
  <2>. QED BY <2>1, <2>2 DEF CommitedMatchEpochs, ReachedBy
<1>. QED BY <1>1, <1>4, <1>5, <1>6, <1>7 DEF EpochLogInv

\* The inductive invariant of the epoch log holds in every behaviour.
THEOREM EpochLogInvariant == EpochLogSpec => []EpochLogInv
BY InvInit, InvStep, PTL DEF EpochLogSpec

\* The epochs tile every range as long as no watch started late: whatever the
\* interleaving of proposals, comparisons, lost answers and watch messages, no
\* transaction is committed twice and none is skipped.
THEOREM EpochsTileTheRanges == EpochLogSpec => []EpochsTile
<1>1. EpochLogInv => EpochsTile
  BY DEF EpochLogInv
<1>. QED BY <1>1, EpochLogInvariant, PTL

\* Whoever wins the comparisons, the history is numbered 0, 1, 2, ...
THEOREM HistoryIsNumbered == EpochLogSpec => []HistoryNumbered
<1>1. EpochLogInv => HistoryNumbered
  BY DEF EpochLogInv
<1>. QED BY <1>1, EpochLogInvariant, PTL

\* The epochs a node applies are committed ones, in order.
THEOREM AppliedAlongHistory == EpochLogSpec => []AppliedInOrder
<1>1. EpochLogInv => AppliedInOrder
  <2> SUFFICES ASSUME EpochLogInv, NEW n \in Peers,
                      NEW i \in 1 .. Len(epochs[n])
               PROVE  LET sn == epochs[n][i].sequence_number
                      IN /\ sn + 1 \in 1 .. Len(history)
                         /\ epochs[n][i] = history[sn + 1]
                         /\ i > 1 => sn - epochs[n][i - 1].sequence_number
                                       \in {0, 1}
                         /\ i = 1 => sn = joined_at[n]
    BY DEF AppliedInOrder
  <2>1. EpochLogTypeOK /\ WalksHistory(Seen(n), joined_at[n])
    BY DEF EpochLogInv, SeenInOrder
  <2>2. i \in 1 .. Len(Seen(n)) /\ Seen(n)[i] = epochs[n][i]
    BY <2>1, AppliedIsSeen
  <2>3. i > 1 => i - 1 \in 1 .. Len(epochs[n])
    BY <2>1, Lengths
  <2>4. i > 1 => Seen(n)[i - 1] = epochs[n][i - 1]
    BY <2>1, <2>3, AppliedIsSeen
  <2>. QED BY <2>1, <2>2, <2>4 DEF WalksHistory
<1>. QED BY <1>1, EpochLogInvariant, PTL

\* As long as no watch started late, no step of any node or coordinator moves a
\* commited offset back.
THEOREM CommitedMovesForward == EpochLogSpec => CommitedNeverRegresses
<1> DEFINE Forward == EveryoneFromTheStart =>
                        \A n \in Peers, r \in Ranges :
                           commited_offsets'[n][r] >= commited_offsets[n][r]
<1>1. EpochLogInv /\ [EpochLogNext]_epochLogVars => [Forward]_epochLogVars
  <2> SUFFICES ASSUME EpochLogInv, EveryoneFromTheStart, EpochLogNext,
                      NEW m \in Peers, NEW r \in Ranges
               PROVE  commited_offsets'[m][r] >= commited_offsets[m][r]
    OBVIOUS
  <2>1. commited_offsets \in [Peers -> [Ranges -> OptOffset]]
        /\ commited_offsets[m][r] \in OptOffset
    BY DEF EpochLogInv, EpochLogTypeOK
  <2>2. commited_offsets[m][r] \in Int /\ commited_offsets[m][r] >= -1
        /\ commited_offsets[m][r] >= commited_offsets[m][r]
    BY <2>1, MaxOffsetAssumption DEF OptOffset
  <2>3. ASSUME NEW n \in Peers, NEW held,
               HandleEpochCoordinatorUpdates(n, held), n = m
        PROVE  commited_offsets'[m][r] >= commited_offsets[m][r]
    <3> DEFINE e == Head(updates[m])
    <3> DEFINE new == CommitedAfter(m, e)[r]
    <3>1. updates[m] # <<>> /\ commited_offsets'[m][r] = new
      BY <2>1, <2>3 DEF HandleEpochCoordinatorUpdates
    <3>2. /\ e \in Epoch /\ e.sequence_number \in Nat
          /\ e.sequence_number = NextSequenceNumber(m)
             \/ e.sequence_number + 1 = NextSequenceNumber(m)
      BY <3>1, NextUpdate DEF Epoch
    <3>3. new \in Int /\ new >= -1
      <4>1. new \in OptOffset
        BY <3>2, CommitedAfterType DEF EpochLogInv
      <4>. QED BY <4>1, MaxOffsetAssumption DEF OptOffset
    <3>4. ReachedBy(r, new, e.sequence_number + 1)
      BY <3>1, ReachedAfter
    <3>5. ReachedBy(r, commited_offsets[m][r], NextSequenceNumber(m))
      BY DEF EpochLogInv, CommitedMatchEpochs
    <3>6. CASE commited_offsets[m][r] = None
      BY <3>1, <3>3, <3>6 DEF None
    <3>7. CASE commited_offsets[m][r] # None
      <4>1. PICK i \in 1 .. NextSequenceNumber(m) :
               \E a \in history[i].increments :
                  a.range = r /\ a.right = commited_offsets[m][r]
        BY <3>5, <3>7 DEF ReachedBy
      <4>2. i \in 1 .. e.sequence_number + 1
        BY <3>2, <4>1
      <4>3. commited_offsets[m][r] <= new
        BY <3>4, <4>1, <4>2 DEF ReachedBy
      <4>. QED BY <2>2, <3>1, <3>3, <4>3
    <3>. QED BY <3>6, <3>7
  <2>4. ASSUME NEW n \in Peers, NEW held,
               HandleEpochCoordinatorUpdates(n, held), n # m
        PROVE  commited_offsets'[m][r] >= commited_offsets[m][r]
    <3>1. commited_offsets'[m] = commited_offsets[m]
      BY <2>1, <2>4 DEF HandleEpochCoordinatorUpdates
    <3>. QED BY <2>2, <3>1
  <2>5. CASE UNCHANGED commited_offsets
    BY <2>2, <2>5
  <2>6. ASSUME NEW n \in Peers, CoordinatorStep(n)
        PROVE  UNCHANGED commited_offsets
    BY <2>6 DEF CoordinatorStep, SkipCommitted, CommitSucceeds,
                CommitAnswerLost, CommitFails, TakeRequest, WatchMessage,
                Reconnect, appVars
  <2>7. ASSUME NEW n \in Peers, NEW consensus,
               CommitEpochIfNeeded(n, consensus)
        PROVE  UNCHANGED commited_offsets
    BY <2>7 DEF CommitEpochIfNeeded, appVars
  <2>. QED BY <2>3, <2>4, <2>5, <2>6, <2>7 DEF EpochLogNext
<1>. QED
  BY <1>1, EpochLogInvariant, PTL DEF EpochLogSpec, CommitedNeverRegresses

-----------------------------------------------------------------------------
(***************************************************************************)
(* EpochLog implements TotalOrder.                                         *)
(***************************************************************************)

(***************************************************************************)
(* Until a watch breaks a node sees the history from its first epoch on,   *)
(* without a hole and without a repetition.                                *)
(***************************************************************************)
SeenFromTheStart ==
    reconnects = 0 =>
        \A n \in Peers :
            /\ joined_at[n] = 0
            /\ watched[n] = last_rev[n]
            /\ Len(Seen(n)) = watched[n]
            /\ \A i \in 1 .. Len(Seen(n)) : Seen(n)[i] = history[i]

\* The number of lost watch streams only grows.
LEMMA ReconnectsGrow ==
    ASSUME EpochLogTypeOK, [EpochLogNext]_epochLogVars, reconnects' = 0
    PROVE  UNCHANGED <<reconnects, joined_at>>
<1>1. reconnects \in Nat
  BY DEF EpochLogTypeOK
<1>2. ASSUME NEW n \in Peers, Reconnect(n)
      PROVE  FALSE
  BY <1>1, <1>2 DEF Reconnect
<1>. QED
  BY <1>2 DEF EpochLogNext, CoordinatorStep, SkipCommitted, CommitSucceeds,
     CommitAnswerLost, CommitFails, TakeRequest, WatchMessage, watchVars,
     CommitEpochIfNeeded, HandleEpochCoordinatorUpdates, epochLogVars

\* What was seen stays a prefix when the history grows.
LEMMA SeenKept ==
    ASSUME EpochLogInv, EpochLogTypeOK', SeenFromTheStart,
           UNCHANGED <<reconnects, joined_at, watched, last_rev>>,
           \A n \in Peers : Seen(n)' = Seen(n),
           \A i \in 1 .. Len(history) : history'[i] = history[i]
    PROVE  SeenFromTheStart'
<1> SUFFICES ASSUME reconnects = 0, NEW n \in Peers,
                    NEW i \in 1 .. Len(Seen(n))
             PROVE  Seen(n)[i] = history'[i]
  BY DEF SeenFromTheStart
<1>1. Len(Seen(n)) = last_rev[n] /\ last_rev[n] <= Len(history)
      /\ Seen(n)[i] = history[i]
  BY DEF SeenFromTheStart, EpochLogInv, WatchPositions
<1>2. Len(history) \in Nat /\ Len(Seen(n)) \in Nat
  BY Lengths, SeenType DEF EpochLogInv
<1>3. i \in 1 .. Len(history)
  BY <1>1, <1>2
<1>. QED BY <1>1, <1>3

\* A commit only appends to the history.
LEMMA CommitAppends ==
    ASSUME EpochLogTypeOK, NEW n \in Peers,
           CommitSucceeds(n) \/ CommitAnswerLost(n)
    PROVE  /\ request[n] \in Epoch
           /\ history' = Append(history, request[n])
           /\ UNCHANGED <<appVars, watchVars, updates>>
           /\ \A i \in 1 .. Len(history) : history'[i] = history[i]
<1>1. /\ request[n] \in Epoch
      /\ history' = Append(history, request[n])
      /\ UNCHANGED <<appVars, watchVars, updates>>
  BY DEF CommitSucceeds, CommitAnswerLost, TakeRequest, EpochLogTypeOK
<1>2. history \in Seq(Epoch)
  BY DEF EpochLogTypeOK
<1>. QED BY <1>1, <1>2, AppendProperties

LEMMA SeenStep ==
    ASSUME EpochLogInv, SeenFromTheStart, [EpochLogNext]_epochLogVars
    PROVE  SeenFromTheStart'
<1> SUFFICES ASSUME reconnects' = 0
             PROVE  SeenFromTheStart'
  BY DEF SeenFromTheStart
<1>1. EpochLogTypeOK /\ EpochLogTypeOK' /\ reconnects = 0
      /\ UNCHANGED <<reconnects, joined_at>>
  BY ReconnectsGrow, TypeStep DEF EpochLogInv
<1>2. CASE UNCHANGED <<watched, last_rev, epochs, updates, history>>
  BY <1>1, <1>2, SeenKept DEF Seen
<1>3. ASSUME NEW n \in Peers, CommitSucceeds(n) \/ CommitAnswerLost(n)
      PROVE  SeenFromTheStart'
  BY <1>1, <1>3, CommitAppends, SeenKept DEF Seen, appVars, watchVars
<1>4. ASSUME NEW n \in Peers, NEW held, HandleEpochCoordinatorUpdates(n, held)
      PROVE  SeenFromTheStart'
  <2>1. /\ updates[n] # <<>>
        /\ epochs' = [epochs EXCEPT ![n] = Append(epochs[n], Head(updates[n]))]
        /\ updates' = [updates EXCEPT ![n] = Tail(updates[n])]
        /\ UNCHANGED <<watched, last_rev, history>>
    BY <1>4 DEF HandleEpochCoordinatorUpdates, watchVars
  <2>2. epochs \in [Peers -> Seq(Epoch)] /\ updates \in [Peers -> Seq(Epoch)]
    BY <1>1 DEF EpochLogTypeOK
  <2>3. Append(epochs[n], Head(updates[n])) \o Tail(updates[n]) = Seen(n)
    BY <2>1, <2>2, SeenMove DEF Seen
  <2>4. \A m \in Peers : Seen(m)' = Seen(m)
    BY <2>1, <2>2, <2>3 DEF Seen
  <2>. QED BY <1>1, <2>1, <2>4, SeenKept
<1>5. ASSUME NEW n \in Peers, WatchMessage(n)
      PROVE  SeenFromTheStart'
  <2> DEFINE w == watched[n]
  <2>1. /\ w < Len(history)
        /\ watched' = [watched EXCEPT ![n] = w + 1]
        /\ last_rev' = [last_rev EXCEPT ![n] = w + 1]
        /\ updates' = [updates EXCEPT ![n] = Append(updates[n], history[w + 1])]
        /\ UNCHANGED <<epochs, history>>
    BY <1>5 DEF WatchMessage, appVars
  <2>2. /\ epochs \in [Peers -> Seq(Epoch)] /\ updates \in [Peers -> Seq(Epoch)]
        /\ watched \in [Peers -> Nat] /\ last_rev \in [Peers -> Nat]
        /\ Len(history) \in Nat
    BY <1>1, Lengths DEF EpochLogTypeOK
  <2>3. w \in Nat /\ w + 1 \in 1 .. Len(history)
    BY <2>1, <2>2
  <2>4. history[w + 1] \in Epoch
    BY <1>1, <2>3, Lengths
  <2>5. Seen(n)' = Append(Seen(n), history[w + 1])
    BY <2>1, <2>2, <2>4, SeenAppend DEF Seen
  <2>6. /\ Seen(n) \in Seq(Epoch) /\ Len(Seen(n)) = w
        /\ \A i \in 1 .. w : Seen(n)[i] = history[i]
    BY <1>1, SeenType DEF SeenFromTheStart
  <2>7. /\ Len(Seen(n)') = w + 1 /\ Seen(n)'[w + 1] = history[w + 1]
        /\ \A i \in 1 .. w : Seen(n)'[i] = history[i]
    BY <2>4, <2>5, <2>6, AppendProperties
  <2>8. \A i \in 1 .. w + 1 : Seen(n)'[i] = history[i]
    BY <2>3, <2>7
  <2>9. \A m \in Peers \ {n} : Seen(m)' = Seen(m) /\ watched'[m] = watched[m]
                               /\ last_rev'[m] = last_rev[m]
    BY <2>1, <2>2 DEF Seen
  <2>10. watched'[n] = w + 1 /\ last_rev'[n] = w + 1
    BY <2>1, <2>2
  <2>11. ASSUME NEW m \in Peers
         PROVE  /\ joined_at'[m] = 0 /\ watched'[m] = last_rev'[m]
                /\ Len(Seen(m)') = watched'[m]
                /\ \A i \in 1 .. Len(Seen(m)') : Seen(m)'[i] = history'[i]
    <3>1. CASE m = n
      BY <1>1, <2>1, <2>7, <2>8, <2>10, <3>1 DEF SeenFromTheStart
    <3>2. CASE m # n
      BY <1>1, <2>1, <2>9, <3>2 DEF SeenFromTheStart
    <3>. QED BY <3>1, <3>2
  <2>. QED BY <2>11 DEF SeenFromTheStart
<1>6. ASSUME NEW n \in Peers, Reconnect(n)
      PROVE  FALSE
  BY <1>1, <1>6 DEF Reconnect, EpochLogTypeOK
<1>7. ASSUME NEW n \in Peers, SkipCommitted(n) \/ CommitFails(n)
      PROVE  SeenFromTheStart'
  BY <1>2, <1>7 DEF SkipCommitted, CommitFails, TakeRequest, appVars, watchVars
<1>8. ASSUME NEW n \in Peers, NEW consensus, CommitEpochIfNeeded(n, consensus)
      PROVE  SeenFromTheStart'
  BY <1>2, <1>8 DEF CommitEpochIfNeeded, appVars, watchVars
<1>9. CASE UNCHANGED epochLogVars
  BY <1>2, <1>9 DEF epochLogVars, appVars, watchVars
<1>. QED
  BY <1>3, <1>4, <1>5, <1>6, <1>7, <1>8, <1>9 DEF EpochLogNext, CoordinatorStep

-----------------------------------------------------------------------------
(***************************************************************************)
(* The mapping: every step is a step of TotalOrder or changes nothing.     *)
(***************************************************************************)

\* The batches of a longer list.
LEMMA BatchesAppend ==
    ASSUME NEW s \in Seq(Epoch), NEW e \in Epoch
    PROVE  Batches(Append(s, e)) = Append(Batches(s), IdsOf(e))
<1>1. /\ Len(s) \in Nat
      /\ Append(s, e) \in Seq(Epoch)
      /\ Len(Append(s, e)) = Len(s) + 1
      /\ \A i \in 1 .. Len(s) : Append(s, e)[i] = s[i]
      /\ Append(s, e)[Len(s) + 1] = e
  BY AppendProperties, LenProperties
<1>2. Batches(s) \in Seq(SUBSET Tx) /\ Len(Batches(s)) = Len(s)
  BY <1>1, IdsOfType DEF Batches
<1>3. Batches(Append(s, e)) \in Seq(SUBSET Tx)
      /\ Len(Batches(Append(s, e))) = Len(s) + 1
  BY <1>1, IdsOfType DEF Batches
<1>4. IdsOf(e) \in SUBSET Tx
  BY IdsOfType
<1>5. /\ Append(Batches(s), IdsOf(e)) \in Seq(SUBSET Tx)
      /\ Len(Append(Batches(s), IdsOf(e))) = Len(s) + 1
      /\ \A i \in 1 .. Len(s) :
            Append(Batches(s), IdsOf(e))[i] = Batches(s)[i]
      /\ Append(Batches(s), IdsOf(e))[Len(s) + 1] = IdsOf(e)
  BY <1>2, <1>4, AppendProperties
<1>6. ASSUME NEW i \in 1 .. Len(s) + 1
      PROVE  Batches(Append(s, e))[i] = Append(Batches(s), IdsOf(e))[i]
  <2>1. Batches(Append(s, e))[i] = IdsOf(Append(s, e)[i])
    BY <1>1 DEF Batches
  <2>2. CASE i \in 1 .. Len(s)
    BY <1>1, <1>5, <2>1, <2>2 DEF Batches
  <2>3. CASE i = Len(s) + 1
    BY <1>1, <1>5, <2>1, <2>3
  <2>4. Len(s) \in Nat
    BY <1>1
  <2>5. i \in 1 .. Len(s) \/ i = Len(s) + 1
    BY <2>4
  <2>. QED BY <2>2, <2>3, <2>5
<1>. QED BY <1>3, <1>5, <1>6, SeqEqual

\* A committed epoch has no transaction of an earlier one.
LEMMA NewBatch ==
    ASSUME EpochLogInv, EpochLogInv', EveryoneFromTheStart', NEW e \in Epoch,
           history' = Append(history, e), NEW i \in 1 .. Len(history)
    PROVE  IdsOf(history[i]) \cap IdsOf(e) = {}
<1>1. history \in Seq(Epoch) /\ Len(history) \in Nat
  BY Lengths DEF EpochLogInv, EpochLogTypeOK
<1>2. /\ Len(history') = Len(history) + 1
      /\ history'[Len(history) + 1] = e
      /\ \A j \in 1 .. Len(history) : history'[j] = history[j]
  BY <1>1, AppendProperties
<1>3. Len(history) + 1 \in 1 .. Len(history')
  BY <1>1, <1>2
<1>4. \A a \in e.increments : \A b \in history[i].increments :
         b.range = a.range => b.right < a.left
  BY <1>1, <1>2, <1>3 DEF EpochLogInv, EpochsTile, HistoryTilesRanges, Follows
<1>5. e.increments \subseteq Interval /\ history[i].increments \subseteq Interval
  BY <1>1, Lengths DEF Epoch, EpochLogInv
<1> SUFFICES ASSUME NEW t \in Tx, t \in IdsOf(history[i]), t \in IdsOf(e)
             PROVE  FALSE
  BY DEF IdsOf
<1>6. PICK a \in e.increments : a.range = t[1] /\ t[2] \in a.left .. a.right
  BY DEF IdsOf
<1>7. PICK b \in history[i].increments :
         b.range = t[1] /\ t[2] \in b.left .. b.right
  BY DEF IdsOf
<1>8. b.right < a.left
  BY <1>4, <1>6, <1>7
<1>9. a.left \in Nat /\ b.right \in Nat /\ a.right \in Nat /\ b.left \in Nat
  BY <1>5, MaxOffsetAssumption DEF Interval, Offsets
<1>. QED BY <1>6, <1>7, <1>8, <1>9

\* A commit puts a batch behind the others.
LEMMA CommitOrders ==
    ASSUME EpochLogInv, EpochLogInv', EveryoneFromTheStart', NEW n \in Peers,
           CommitSucceeds(n) \/ CommitAnswerLost(n)
    PROVE  Abstract!Order(IdsOf(request[n]))
<1> DEFINE e == request[n]
<1>1. e \in Epoch /\ history' = Append(history, e) /\ UNCHANGED epochs
  BY CommitAppends DEF EpochLogInv, appVars
<1>2. history \in Seq(Epoch) /\ Len(history) \in Nat
  BY Lengths DEF EpochLogInv, EpochLogTypeOK
<1>3. Batches(history)' = Append(Batches(history), IdsOf(e))
  BY <1>1, <1>2, BatchesAppend
<1>4. Len(Batches(history)) = Len(history)
      /\ \A i \in 1 .. Len(history) : Batches(history)[i] = IdsOf(history[i])
  BY <1>2 DEF Batches
<1>5. \A i \in 1 .. Len(Batches(history)) :
         Batches(history)[i] \cap IdsOf(e) = {}
  BY <1>1, <1>4, NewBatch
<1>6. UNCHANGED [m \in Peers |-> Batches(epochs[m])]
  BY <1>1 DEF Batches
<1>. QED BY <1>3, <1>5, <1>6 DEF Abstract!Order

\* Applying an epoch is observing the next batch.
LEMMA HandleObserves ==
    ASSUME EpochLogInv, SeenFromTheStart, reconnects = 0,
           NEW n \in Peers, NEW held, HandleEpochCoordinatorUpdates(n, held)
    PROVE  Abstract!Observe(n)
<1> DEFINE e == Head(updates[n])
<1> DEFINE p == Len(epochs[n])
<1> DEFINE observed == [m \in Peers |-> Batches(epochs[m])]
<1>1. /\ updates[n] # <<>>
      /\ epochs' = [epochs EXCEPT ![n] = Append(epochs[n], e)]
      /\ UNCHANGED history
  BY DEF HandleEpochCoordinatorUpdates
<1>2. /\ epochs \in [Peers -> Seq(Epoch)] /\ epochs[n] \in Seq(Epoch)
      /\ updates[n] \in Seq(Epoch) /\ p \in Nat /\ Len(updates[n]) \in Nat
      /\ Len(history) \in Nat
  BY Lengths DEF EpochLogInv, EpochLogTypeOK
<1>3. e \in Epoch /\ e = updates[n][1] /\ Len(updates[n]) # 0
  BY <1>1, <1>2, EmptySeq, HeadTailProperties
<1>4. /\ Len(Seen(n)) = p + Len(updates[n])
      /\ \A i \in 1 .. (p + Len(updates[n])) :
            Seen(n)[i] = IF i <= p THEN epochs[n][i] ELSE updates[n][i - p]
  BY <1>2, ConcatProperties DEF Seen
<1>5. p + 1 \in 1 .. (p + Len(updates[n])) /\ ~ (p + 1 <= p)
      /\ (p + 1) - p = 1
  BY <1>2, <1>3
<1>6. Seen(n)[p + 1] = e
  BY <1>3, <1>4, <1>5
<1>7. /\ Len(Seen(n)) = last_rev[n] /\ last_rev[n] <= Len(history)
      /\ \A i \in 1 .. Len(Seen(n)) : Seen(n)[i] = history[i]
  BY DEF SeenFromTheStart, EpochLogInv, WatchPositions
<1>8. e = history[p + 1] /\ p + 1 \in 1 .. Len(history) /\ p < Len(history)
  BY <1>2, <1>4, <1>5, <1>6, <1>7
<1>9. /\ Len(Batches(history)) = Len(history)
      /\ Batches(history)[p + 1] = IdsOf(e)
      /\ Len(Batches(epochs[n])) = p
  BY <1>2, <1>8 DEF Batches
<1>10. observed[n] = Batches(epochs[n])
  OBVIOUS
<1>11. Batches(Append(epochs[n], e)) = Append(Batches(epochs[n]), IdsOf(e))
  BY <1>2, <1>3, BatchesAppend
<1>12. observed' = [observed EXCEPT
                      ![n] = Append(observed[n], Batches(history)[p + 1])]
  <2>1. \A m \in Peers : observed'[m] =
           IF m = n THEN Append(observed[n], IdsOf(e)) ELSE observed[m]
    BY <1>1, <1>2, <1>11
  <2>. QED BY <1>9, <2>1
<1>13. UNCHANGED Batches(history)
  BY <1>1 DEF Batches
<1>. QED BY <1>8, <1>9, <1>10, <1>12, <1>13 DEF Abstract!Observe

\* The epoch log implements the total order: as long as no watch stream breaks,
\* the compare-and-put commits, lost answers, late proposals and the watch
\* messages of all nodes amount to one append-only sequence of disjoint batches
\* that every node applies batch by batch from the first one.
THEOREM ImplementsOrder == EpochLogSpec => ImplementsTotalOrder
<1> DEFINE mapped == <<Batches(history), [n \in Peers |-> Batches(epochs[n])]>>
<1>1. EpochLogInit => SeenFromTheStart /\ Abstract!TotalOrderInit
  <2> SUFFICES ASSUME EpochLogInit
               PROVE  SeenFromTheStart /\ Abstract!TotalOrderInit
    OBVIOUS
  <2>1. <<>> \o <<>> = <<>> /\ Len(<<>>) = 0
    BY EmptySeq, ConcatEmptySeq
  <2>2. \A n \in Peers : Seen(n) = <<>>
    BY <2>1 DEF Seen, EpochLogInit
  <2>3. SeenFromTheStart
    BY <2>1, <2>2 DEF SeenFromTheStart, EpochLogInit
  <2>4. Batches(<<>>) = <<>>
    BY <2>1 DEF Batches
  <2>. QED BY <2>3, <2>4 DEF EpochLogInit, Abstract!TotalOrderInit
<1>2. EpochLogInv /\ SeenFromTheStart /\ [EpochLogNext]_epochLogVars
        => [reconnects' = 0 => Abstract!TotalOrderNext]_mapped
  <2> SUFFICES ASSUME EpochLogInv, SeenFromTheStart,
                      [EpochLogNext]_epochLogVars, reconnects' = 0
               PROVE  Abstract!TotalOrderNext \/ UNCHANGED mapped
    OBVIOUS
  <2>1. /\ EpochLogInv' /\ SeenFromTheStart'
        /\ reconnects = 0 /\ EveryoneFromTheStart'
    BY InvStep, SeenStep, ReconnectsGrow
       DEF EveryoneFromTheStart, SeenFromTheStart, EpochLogInv
  <2>2. CASE UNCHANGED <<history, epochs>>
    BY <2>2 DEF Batches
  <2>3. ASSUME NEW n \in Peers, CommitSucceeds(n) \/ CommitAnswerLost(n)
        PROVE  Abstract!TotalOrderNext
    BY <2>1, <2>3, CommitOrders, IdsOfType DEF Abstract!TotalOrderNext
  <2>4. ASSUME NEW n \in Peers, NEW held,
               HandleEpochCoordinatorUpdates(n, held)
        PROVE  Abstract!TotalOrderNext
    BY <2>1, <2>4, HandleObserves DEF Abstract!TotalOrderNext
  <2>5. ASSUME NEW n \in Peers,
               SkipCommitted(n) \/ CommitFails(n) \/ WatchMessage(n)
                  \/ Reconnect(n)
        PROVE  UNCHANGED <<history, epochs>>
    BY <2>5 DEF SkipCommitted, CommitFails, TakeRequest, WatchMessage,
                Reconnect, appVars
  <2>6. ASSUME NEW n \in Peers, NEW consensus, CommitEpochIfNeeded(n, consensus)
        PROVE  UNCHANGED <<history, epochs>>
    BY <2>6 DEF CommitEpochIfNeeded, appVars
  <2>7. CASE UNCHANGED epochLogVars
    BY <2>2, <2>7 DEF epochLogVars, appVars
  <2>. QED
    BY <2>2, <2>3, <2>4, <2>5, <2>6, <2>7 DEF EpochLogNext, CoordinatorStep
<1>3. EpochLogInv /\ SeenFromTheStart /\ [EpochLogNext]_epochLogVars
        => SeenFromTheStart'
  BY SeenStep
<1>. QED
  BY <1>1, <1>2, <1>3, EpochLogInvariant, PTL
     DEF EpochLogSpec, ImplementsTotalOrder

=============================================================================
