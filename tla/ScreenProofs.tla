---------------------------- MODULE ScreenProofs ----------------------------
(***************************************************************************)
(* The order of the log's file and of its buffer, and what a screen shows  *)
(* of them, for any finite number of threads that log, any size of the     *)
(* buffer, of the window and of the charts.  The facts about LogBuffer     *)
(* come first: the log has no specification of its own.                    *)
(***************************************************************************)
EXTENDS Screen, SequenceTheorems, FiniteSetTheorems, TLAPS

LogEntries == Writers \X Nat

LogTyped ==
    /\ writer \in [Writers -> {"idle", "adding"}]
    /\ made \in [Writers -> Nat]
    /\ entries \in Seq(LogEntries)
    /\ sent \in Seq(LogEntries) /\ pushed \in Seq(LogEntries)

Distinct(s) == \A i, j \in DOMAIN s : s[i] = s[j] => i = j

Adding == {w \in Writers : writer[w] = "adding"}

\* What each thread has handed to the file but not yet put in the buffer.
Pending == {<<w, made[w]>> : w \in Adding}

\* What the two histories hold.
Histories ==
    /\ Distinct(sent) /\ Distinct(pushed)
    /\ \A w \in Adding : made[w] > 0
    /\ \A w \in Writers, n \in Nat : <<w, n>> \in Range(sent) <=> n \in 1..made[w]
    /\ Range(pushed) = Range(sent) \ Pending

LogInv == LogTyped /\ Histories /\ BufferFollowsFile

-----------------------------------------------------------------------------
(* Sequences that only grow.                                               *)

LEMMA AppendFacts ==
  ASSUME NEW S, NEW s \in Seq(S), NEW e \in S
  PROVE  /\ Append(s, e) \in Seq(S)
         /\ Len(Append(s, e)) = Len(s) + 1 /\ Len(s) \in Nat
         /\ DOMAIN s = 1..Len(s) /\ DOMAIN Append(s, e) = 1..(Len(s) + 1)
         /\ \A i \in 1..Len(s) : Append(s, e)[i] = s[i]
         /\ Append(s, e)[Len(s) + 1] = e
         /\ Range(Append(s, e)) = Range(s) \cup {e}
  <1>1. /\ Append(s, e) \in Seq(S)
        /\ Len(Append(s, e)) = Len(s) + 1 /\ Len(s) \in Nat
        /\ DOMAIN s = 1..Len(s) /\ DOMAIN Append(s, e) = 1..(Len(s) + 1)
        /\ \A i \in 1..Len(s) : Append(s, e)[i] = s[i]
        /\ Append(s, e)[Len(s) + 1] = e
    OBVIOUS
  <1>2. Range(Append(s, e)) = Range(s) \cup {e}
    <2> DEFINE t == Append(s, e)
    <2>0. DOMAIN t = DOMAIN s \cup {Len(s) + 1} /\ \A i \in DOMAIN s : t[i] = s[i]
      BY <1>1
    <2>1. t[Len(s) + 1] = e
      BY <1>1
    <2> HIDE DEF t
    <2>2. Range(t) = Range(s) \cup {e}
      BY <2>0, <2>1 DEF Range
    <2> QED BY <2>2 DEF t
  <1> QED BY <1>1, <1>2

LEMMA DistinctGrows ==
  ASSUME NEW S, NEW s \in Seq(S), NEW e \in S, Distinct(s), e \notin Range(s)
  PROVE  Distinct(Append(s, e))
  BY AppendFacts DEF Distinct, Range

\* In a sequence without repetition an element has one position, which stays.
LEMMA PositionFacts ==
  ASSUME NEW S, NEW s \in Seq(S), Distinct(s), NEW i \in DOMAIN s
  PROVE  Position(s, s[i]) = i
  BY DEF Distinct, Position

LEMMA PositionStays ==
  ASSUME NEW S, NEW s \in Seq(S), Distinct(s), NEW x \in Range(s),
         NEW e \in S, e \notin Range(s)
  PROVE  /\ Position(s, x) \in 1..Len(s) /\ s[Position(s, x)] = x
         /\ Position(Append(s, e), x) = Position(s, x)
  <1>1. PICK i \in DOMAIN s : x = s[i]
    BY DEF Range
  <1>2. Position(s, x) = i /\ i \in 1..Len(s)
    BY <1>1, PositionFacts
  <1>3. i \in DOMAIN Append(s, e) /\ Append(s, e)[i] = x
    BY <1>1, <1>2, AppendFacts
  <1>4. Position(Append(s, e), x) = i
    BY <1>3, DistinctGrows, AppendFacts, PositionFacts
  <1> QED BY <1>1, <1>2, <1>4

LEMMA LogInitHolds == LogInit => LogInv
  <1> SUFFICES ASSUME LogInit PROVE LogInv
    OBVIOUS
  <1>1. sent = <<>> /\ pushed = <<>> /\ entries = <<>> /\ Adding = {} /\ Pending = {}
    BY DEF LogInit, Adding, Pending
  <1>2. Range(sent) = {} /\ Range(pushed) = {}
    BY <1>1 DEF Range
  <1>3. LogTyped
    BY DEF LogInit, LogTyped, LogEntries
  <1>4. Histories
    BY <1>1, <1>2 DEF LogInit, Histories, Distinct
  <1>5. BufferFollowsFile
    BY <1>1, <1>2, SizesAssumption DEF BufferFollowsFile
  <1> QED BY <1>3, <1>4, <1>5 DEF LogInv

LEMMA LogUntouched ==
  ASSUME LogInv, UNCHANGED <<writer, made, entries, sent, pushed>>
  PROVE  LogInv'
  <1>1. LogTyped' /\ Histories'
    BY DEF LogInv, LogTyped, Histories, Pending, Adding
  <1>2. ASSUME NEW x PROVE Overtaken(x)' = Overtaken(x)
    BY DEF Overtaken, CameBy
  <1>3. \A x \in Range(pushed') : Cardinality(Overtaken(x)') < Cardinality(Writers)
    BY <1>2 DEF LogInv, BufferFollowsFile
  <1>4. BufferFollowsFile'
    BY <1>3 DEF LogInv, BufferFollowsFile
  <1> QED BY <1>1, <1>4 DEF LogInv

-----------------------------------------------------------------------------
(* The first half of add_entry.                                            *)

LEMMA SendKeeps ==
  ASSUME LogInv, NEW w \in Writers, SendToFile(w) PROVE LogInv'
  <1> DEFINE e == <<w, made[w] + 1>>
  <1>1. /\ writer[w] = "idle" /\ writer' = [writer EXCEPT ![w] = "adding"]
        /\ made' = [made EXCEPT ![w] = @ + 1]
        /\ sent' = Append(sent, e) /\ UNCHANGED <<entries, pushed>>
    BY DEF SendToFile
  <1>2. LogTyped /\ made[w] \in Nat /\ e \in LogEntries
    BY DEF LogInv, LogTyped, LogEntries
  <1>3. e \notin Range(sent)
    BY <1>2 DEF LogInv, Histories
  <1>4. LogTyped'
    BY <1>1, <1>2, AppendFacts DEF LogTyped
  <1>5. Range(sent') = Range(sent) \cup {e} /\ Distinct(sent')
    <2>1. sent \in Seq(LogEntries) /\ Distinct(sent)
      BY DEF LogInv, LogTyped, Histories
    <2> HIDE DEF e
    <2> QED BY <1>1, <1>2, <1>3, <2>1, AppendFacts, DistinctGrows
  <1>6. Adding' = Adding \cup {w} /\ w \notin Adding
    BY <1>1, <1>2 DEF Adding, LogTyped
  <1>7. Pending' = Pending \cup {e}
    BY <1>1, <1>2, <1>6 DEF Pending, Adding, LogTyped
  <1>8. Histories'
    <2>1. \A v \in Adding' : made'[v] > 0
      BY <1>1, <1>2, <1>6 DEF LogInv, Histories, LogTyped, Adding
    <2>2. ASSUME NEW v \in Writers, NEW n \in Nat
          PROVE  <<v, n>> \in Range(sent') <=> n \in 1..made'[v]
      <3>1. <<v, n>> \in Range(sent) <=> n \in 1..made[v]
        BY DEF LogInv, Histories
      <3>2. CASE v = w
        <4>1. made'[v] = made[w] + 1
          BY <1>1, <1>2, <3>2 DEF LogTyped
        <4> QED BY <1>2, <1>5, <3>1, <3>2, <4>1
      <3>3. CASE v # w
        <4>1. made'[v] = made[v]
          BY <1>1, <1>2, <3>3 DEF LogTyped
        <4> QED BY <1>5, <3>1, <3>3, <4>1
      <3> QED BY <3>2, <3>3
    <2>3. Range(pushed') = Range(sent') \ Pending'
      BY <1>1, <1>3, <1>5, <1>7 DEF LogInv, Histories
    <2>4. Distinct(pushed')
      BY <1>1 DEF LogInv, Histories
    <2> QED BY <1>5, <2>1, <2>2, <2>3, <2>4 DEF Histories
  <1>9. BufferFollowsFile'
    <2>1. ASSUME NEW x \in Range(pushed)
          PROVE  Overtaken(x)' = Overtaken(x)
      <3>1. x \in Range(sent)
        BY DEF LogInv, Histories
      <3>2. /\ Position(sent, x) \in 1..Len(sent)
            /\ Position(sent', x) = Position(sent, x)
        BY <1>1, <1>2, <1>3, <3>1, PositionStays DEF LogInv, Histories, LogTyped
      <3>3. \A j \in 1..Position(sent, x) : sent'[j] = sent[j]
        BY <1>1, <1>2, <3>2, AppendFacts DEF LogTyped
      <3>4. CameBy(x)' = CameBy(x)
        BY <1>1 DEF CameBy
      <3> QED BY <3>2, <3>3, <3>4 DEF Overtaken
    <2>2. Range(pushed') \subseteq Range(sent')
      BY <1>1, <1>5 DEF LogInv, BufferFollowsFile
    <2>3. \A x \in Range(pushed') : Cardinality(Overtaken(x)') < Cardinality(Writers)
      BY <1>1, <2>1 DEF LogInv, BufferFollowsFile
    <2> QED BY <1>1, <2>2, <2>3 DEF LogInv, BufferFollowsFile
  <1> QED BY <1>4, <1>8, <1>9 DEF LogInv

-----------------------------------------------------------------------------
(* The second half.                                                        *)

LEMMA Shift ==
  ASSUME NEW a \in Nat, NEW b \in Nat, NEW i \in Nat
  PROVE  /\ (a + 1) - (b + 1) + i = a - b + i
         /\ a - (b + 1) + (i + 1) = a - b + i
         /\ b <= a /\ i \in 1..b => a - b + i \in 1..a
  OBVIOUS

\* The buffer is the end of what came to it.
LEMMA BufferIsEnd ==
  ASSUME LogInv, NEW e \in LogEntries
  PROVE  LET pushed2 == Append(pushed, e)
             entries2 == Append(IF Len(entries) >= MaxSize THEN Tail(entries)
                                ELSE entries, e)
         IN  /\ entries2 \in Seq(LogEntries)
             /\ Len(entries2) = IF Len(pushed2) < MaxSize THEN Len(pushed2)
                                ELSE MaxSize
             /\ \A i \in DOMAIN entries2 :
                    entries2[i] = pushed2[Len(pushed2) - Len(entries2) + i]
  <1> DEFINE kept == IF Len(entries) >= MaxSize THEN Tail(entries) ELSE entries
             pushed2 == Append(pushed, e)
             entries2 == Append(kept, e)
  <1>1. /\ entries \in Seq(LogEntries) /\ pushed \in Seq(LogEntries)
        /\ Len(entries) \in Nat /\ Len(pushed) \in Nat
        /\ Len(entries) = IF Len(pushed) < MaxSize THEN Len(pushed) ELSE MaxSize
        /\ \A i \in 1..Len(entries) :
                entries[i] = pushed[Len(pushed) - Len(entries) + i]
    BY DEF LogInv, LogTyped, BufferFollowsFile
  <1>2. /\ kept \in Seq(LogEntries) /\ Len(kept) \in Nat
        /\ Len(kept) = IF Len(pushed) < MaxSize THEN Len(pushed) ELSE MaxSize - 1
        /\ \A i \in 1..Len(kept) : kept[i] = pushed[Len(pushed) - Len(kept) + i]
    <2>1. CASE Len(entries) >= MaxSize
      <3>1. /\ kept = Tail(entries) /\ entries # <<>>
            /\ kept \in Seq(LogEntries) /\ Len(kept) = Len(entries) - 1
            /\ \A i \in 1..Len(kept) : kept[i] = entries[i + 1]
        BY <1>1, <2>1, SizesAssumption
      <3>2. Len(entries) = MaxSize /\ Len(kept) = MaxSize - 1
        BY <1>1, <2>1, <3>1, SizesAssumption
      <3>3. ~(Len(pushed) < MaxSize)
        BY <1>1, <3>2, SizesAssumption
      <3>4. ASSUME NEW i \in 1..Len(kept)
            PROVE  kept[i] = pushed[Len(pushed) - Len(kept) + i]
        <4>1. i + 1 \in 1..Len(entries)
          BY <3>1, <3>2, SizesAssumption
        <4>2. Len(pushed) - Len(entries) + (i + 1) = Len(pushed) - Len(kept) + i
          <5>1. Len(entries) = Len(kept) + 1
            BY <3>2, SizesAssumption
          <5>2. Len(kept) \in Nat /\ Len(pushed) \in Nat /\ i \in Nat
            BY <1>1, <3>2, SizesAssumption
          <5> HIDE DEF kept
          <5> QED BY <5>1, <5>2, Shift
        <4> HIDE DEF kept
        <4> QED BY <1>1, <3>1, <4>1, <4>2
      <3>5. Len(kept) \in Nat
        BY <3>2, SizesAssumption
      <3> QED BY <3>1, <3>2, <3>3, <3>4, <3>5
    <2>2. CASE ~(Len(entries) >= MaxSize)
      <3>1. kept = entries /\ Len(entries) = Len(pushed) /\ Len(pushed) < MaxSize
        BY <1>1, <2>2, SizesAssumption
      <3> HIDE DEF kept
      <3> QED BY <1>1, <3>1
    <2> QED BY <2>1, <2>2
  <1> HIDE DEF kept
  <1>3. /\ entries2 = Append(kept, e) /\ entries2 \in Seq(LogEntries)
        /\ Len(entries2) = Len(kept) + 1 /\ DOMAIN entries2 = 1..(Len(kept) + 1)
        /\ \A i \in 1..Len(kept) : entries2[i] = kept[i]
        /\ entries2[Len(kept) + 1] = e
    BY <1>2, AppendFacts DEF kept
  <1>4. /\ Len(pushed2) = Len(pushed) + 1
        /\ \A i \in 1..Len(pushed) : pushed2[i] = pushed[i]
        /\ pushed2[Len(pushed) + 1] = e
    BY <1>1, AppendFacts
  <1> HIDE DEF pushed2, entries2
  <1>5. ASSUME NEW i \in 1..(Len(kept) + 1)
        PROVE  entries2[i] = pushed2[Len(pushed2) - Len(entries2) + i]
    <2>0. Len(pushed) \in Nat /\ Len(kept) \in Nat /\ i \in Nat
      BY <1>1, <1>2
    <2>1. Len(pushed2) - Len(entries2) + i = Len(pushed) - Len(kept) + i
      <3>1. Len(pushed2) = Len(pushed) + 1 /\ Len(entries2) = Len(kept) + 1
        BY <1>3, <1>4
      <3> QED BY <2>0, <3>1, Shift
    <2>2. Len(kept) <= Len(pushed)
      BY <1>1, <1>2, SizesAssumption
    <2>3. CASE i \in 1..Len(kept)
      <3>1. Len(pushed) - Len(kept) + i \in 1..Len(pushed)
        BY <2>0, <2>2, <2>3, Shift
      <3> QED BY <1>2, <1>3, <1>4, <2>1, <2>3, <3>1
    <2>4. CASE i = Len(kept) + 1
      <3>1. Len(pushed) - Len(kept) + i = Len(pushed) + 1
        BY <2>0, <2>4
      <3>2. entries2[i] = e
        BY <1>3, <2>4
      <3> QED BY <1>4, <2>1, <3>1, <3>2
    <2> QED BY <1>2, <2>3, <2>4
  <1>6. Len(entries2) = IF Len(pushed2) < MaxSize THEN Len(pushed2) ELSE MaxSize
    BY <1>1, <1>2, <1>3, <1>4, SizesAssumption
  <1>7. /\ entries2 \in Seq(LogEntries)
        /\ Len(entries2) = IF Len(pushed2) < MaxSize THEN Len(pushed2) ELSE MaxSize
        /\ \A i \in DOMAIN entries2 :
                entries2[i] = pushed2[Len(pushed2) - Len(entries2) + i]
    BY <1>3, <1>5, <1>6
  <1> QED BY <1>7 DEF pushed2, entries2, kept

LEMMA PushKeeps ==
  ASSUME LogInv, NEW w \in Writers, PushBack(w) PROVE LogInv'
  <1>0. PICK e \in LogEntries : e = <<w, made[w]>>
    BY DEF LogInv, LogTyped, LogEntries
  <1>1. /\ writer[w] = "adding" /\ writer' = [writer EXCEPT ![w] = "idle"]
        /\ pushed' = Append(pushed, e)
        /\ entries' = Append(IF Len(entries) >= MaxSize THEN Tail(entries) ELSE entries, e)
        /\ UNCHANGED <<made, sent>>
    BY <1>0 DEF PushBack
  <1>2. LogTyped /\ made[w] \in Nat /\ e \in LogEntries /\ w \in Adding
    BY <1>1 DEF LogInv, LogTyped, LogEntries, Adding
  <1>3. e \in Pending
    BY <1>0, <1>2 DEF Pending
  <1>4. e \in Range(sent) /\ e \notin Range(pushed)
    <2>1. made[w] > 0 /\ made[w] \in 1..made[w]
      BY <1>2 DEF LogInv, Histories
    <2> QED BY <1>0, <1>2, <1>3, <2>1 DEF LogInv, Histories
  <1>5. Range(pushed') = Range(pushed) \cup {e} /\ Distinct(pushed')
    <2>1. pushed \in Seq(LogEntries) /\ Distinct(pushed)
      BY DEF LogInv, LogTyped, Histories
    <2> QED BY <1>1, <1>2, <1>4, <2>1, AppendFacts, DistinctGrows
  <1>6. Adding' = Adding \ {w}
    BY <1>1, <1>2 DEF Adding, LogTyped
  <1>7. Pending' = Pending \ {e}
    BY <1>0, <1>1, <1>6 DEF Pending, Adding
  <1>8. LogTyped'
    <2>1. pushed' \in Seq(LogEntries) /\ entries' \in Seq(LogEntries)
      BY <1>1, <1>2, AppendFacts, BufferIsEnd DEF LogTyped
    <2> QED BY <1>1, <1>2, <2>1 DEF LogTyped
  <1>9. Histories'
    <2>1. \A v \in Adding' : made'[v] > 0
      BY <1>1, <1>6 DEF LogInv, Histories
    <2>2. Range(pushed') = Range(sent') \ Pending'
      BY <1>1, <1>4, <1>5, <1>7 DEF LogInv, Histories
    <2>3. /\ Distinct(sent')
          /\ \A v \in Writers, n \in Nat : <<v, n>> \in Range(sent') <=> n \in 1..made'[v]
      BY <1>1 DEF LogInv, Histories
    <2> QED BY <1>5, <2>1, <2>2, <2>3 DEF Histories
  <1>10. ASSUME NEW x \in Range(pushed) PROVE Overtaken(x)' = Overtaken(x)
    <2>1. /\ Position(pushed, x) \in 1..Len(pushed)
          /\ Position(pushed', x) = Position(pushed, x)
      BY <1>1, <1>2, <1>4, PositionStays DEF LogInv, Histories, LogTyped
    <2>2. \A i \in 1..Position(pushed, x) : pushed'[i] = pushed[i]
      BY <1>1, <1>2, <2>1, AppendFacts DEF LogTyped
    <2>3. CameBy(x)' = CameBy(x)
      BY <2>1, <2>2 DEF CameBy
    <2> QED BY <1>1, <2>3 DEF Overtaken
  <1>11. Cardinality(Overtaken(e)') < Cardinality(Writers)
    <2>1. CameBy(e)' = Range(pushed')
      <3>1. /\ Len(pushed) + 1 \in DOMAIN pushed' /\ pushed'[Len(pushed) + 1] = e
            /\ DOMAIN pushed' = 1..(Len(pushed) + 1)
        BY <1>1, <1>2, AppendFacts DEF LogTyped
      <3>2. Position(pushed', e) = Len(pushed) + 1
        <4>1. pushed' \in Seq(LogEntries)
          BY <1>8 DEF LogTyped
        <4> QED BY <1>5, <3>1, <4>1, PositionFacts
      <3>3. CameBy(e)' = {pushed'[i] : i \in 1..Position(pushed', e)}
        BY <1>1 DEF CameBy
      <3> QED BY <3>1, <3>2, <3>3 DEF Range
    <2>2. PICK k \in DOMAIN sent : sent[k] = e
      BY <1>4 DEF Range
    <2>3. Position(sent', e) = k /\ k \in 1..Len(sent)
      <3>1. sent \in Seq(LogEntries) /\ Distinct(sent) /\ sent' = sent
        BY <1>1 DEF LogInv, Histories, LogTyped
      <3> QED BY <2>2, <3>1, PositionFacts
    <2> DEFINE O == Overtaken(e)'
               f == [j \in O |-> sent[j][1]]
    <2>4. \A j \in O : j \in DOMAIN sent /\ sent[j] \in Pending \ {e}
      <3>1. O = {j \in 1..k : sent[j] \notin Range(pushed')}
        BY <1>1, <2>1, <2>3 DEF Overtaken
      <3>2. \A j \in 1..k : j \in DOMAIN sent /\ sent[j] \in Range(sent)
        BY <1>2, <2>3 DEF LogTyped, Range
      <3> QED BY <1>5, <3>1, <3>2 DEF LogInv, Histories
    <2>5. \A p \in Pending \ {e} : p[1] \in Writers \ {w} /\ p = <<p[1], made[p[1]]>>
      BY <1>0 DEF Pending, Adding
    <2> HIDE DEF O
    <2>6. f \in Injection(O, Writers \ {w})
      <3>1. f \in [O -> Writers \ {w}]
        BY <2>4, <2>5
      <3>2. ASSUME NEW i \in O, NEW j \in O, f[i] = f[j] PROVE i = j
        <4>1. sent[i] = sent[j]
          BY <2>4, <2>5, <3>2
        <4> QED BY <2>4, <4>1 DEF LogInv, Histories, Distinct
      <3> QED BY <3>1, <3>2 DEF Injection, IsInjective
    <2>7. /\ IsFiniteSet(Writers \ {w})
          /\ Cardinality(Writers \ {w}) = Cardinality(Writers) - 1
      BY WritersAssumption, FS_RemoveElement
    <2>8. Cardinality(Writers) \in Nat
      BY WritersAssumption, FS_CardinalityType
    <2>9. IsFiniteSet(O) /\ Cardinality(O) <= Cardinality(Writers \ {w})
      BY <2>6, <2>7, FS_Injection
    <2>10. Cardinality(O) \in Nat
      BY <2>9, FS_CardinalityType
    <2> QED BY <2>7, <2>8, <2>9, <2>10 DEF O
  <1>12. BufferFollowsFile'
    <2>1. Range(pushed') \subseteq Range(sent')
      BY <1>1, <1>4, <1>5 DEF LogInv, BufferFollowsFile
    <2>2. \A x \in Range(pushed') : Cardinality(Overtaken(x)') < Cardinality(Writers)
      <3>1. ASSUME NEW x \in Range(pushed')
            PROVE  Cardinality(Overtaken(x)') < Cardinality(Writers)
        <4>1. CASE x \in Range(pushed)
          BY <1>10, <4>1 DEF LogInv, BufferFollowsFile
        <4>2. CASE x = e
          BY <1>11, <4>2
        <4> QED BY <1>5, <4>1, <4>2
      <3> QED BY <3>1
    <2>3. /\ Len(entries') = IF Len(pushed') < MaxSize THEN Len(pushed') ELSE MaxSize
          /\ \A i \in DOMAIN entries' :
                entries'[i] = pushed'[Len(pushed') - Len(entries') + i]
      BY <1>1, BufferIsEnd, Zenon
    <2> QED BY <2>1, <2>2, <2>3 DEF BufferFollowsFile
  <1> QED BY <1>8, <1>9, <1>12 DEF LogInv

LEMMA LogKeeps == ASSUME LogInv, LogNext PROVE LogInv'
  <1>1. CASE FilerStep
    BY <1>1, LogUntouched DEF FilerStep, OpenFile, OpenFails, WriteEntry
  <1>2. CASE \E w \in Writers : WriterStep(w)
    BY <1>2, SendKeeps, PushKeeps DEF WriterStep
  <1> QED BY <1>1, <1>2 DEF LogNext

-----------------------------------------------------------------------------
(* The screens over the log.                                               *)

ScreenTyped ==
    /\ show_logs \in BOOLEAN /\ force_render \in BOOLEAN /\ log_scroll \in Nat
    /\ view \in [shown : BOOLEAN, scroll : Nat, total : Nat, start : Nat]

\* No key scrolls beyond what the log had then, and the log never shrinks.
ScrollInLog == log_scroll <= Max(0, Len(entries) - Margin)

\* A drawing that nothing has asked for would show the same.
Shown == ~force_render => view.shown = show_logs /\ view.scroll = log_scroll

WindowExact ==
    view.shown => view.start + Min(Visible, view.total) = view.total - view.scroll

Inv == LogInv /\ ScreenTyped /\ ScrollInLog /\ Shown /\ WindowExact

LEMMA InvInit == Init => Inv
  <1> SUFFICES ASSUME Init PROVE Inv
    OBVIOUS
  <1>1. LogInv
    BY LogInitHolds DEF Init
  <1>2. ScreenTyped /\ Shown /\ WindowExact
    BY DEF Init, ScreenTyped, Shown, WindowExact
  <1>3. ScrollInLog
    BY WindowAssumption DEF Init, LogInit, ScrollInLog, Max
  <1> QED BY <1>1, <1>2, <1>3 DEF Inv

\* The buffer never becomes shorter.
LEMMA LogGrows ==
  ASSUME LogInv, LogNext
  PROVE  Len(entries) \in Nat /\ Len(entries') \in Nat /\ Len(entries') >= Len(entries)
  <1>1. entries \in Seq(LogEntries) /\ made \in [Writers -> Nat]
    BY DEF LogInv, LogTyped
  <1>2. CASE entries' = entries
    BY <1>1, <1>2
  <1>3. CASE \E w \in Writers : PushBack(w)
    <2>1. PICK w \in Writers : PushBack(w)
      BY <1>3
    <2> DEFINE kept == IF Len(entries) >= MaxSize THEN Tail(entries) ELSE entries
    <2>2. entries' = Append(kept, <<w, made[w]>>) /\ <<w, made[w]>> \in LogEntries
      BY <1>1, <2>1 DEF PushBack, LogEntries
    <2>3. kept \in Seq(LogEntries) /\ Len(kept) \in Nat /\ Len(kept) >= Len(entries) - 1
      BY <1>1, SizesAssumption
    <2> HIDE DEF kept
    <2>4. Len(entries') = Len(kept) + 1
      BY <2>2, <2>3, AppendFacts
    <2> QED BY <1>1, <2>3, <2>4
  <1> QED
    BY <1>2, <1>3
    DEF LogNext, WriterStep, SendToFile, FilerStep, OpenFile, OpenFails, WriteEntry

LEMMA LogStepKeeps ==
  ASSUME Inv, LogNext, UNCHANGED <<kind, screenVars, restVars>> PROVE Inv'
  <1>1. LogInv'
    BY LogKeeps DEF Inv
  <1>2. Len(entries) \in Nat /\ Len(entries') \in Nat /\ Len(entries') >= Len(entries)
    BY LogGrows DEF Inv
  <1>3. UNCHANGED <<show_logs, force_render, log_scroll, view>>
    BY DEF screenVars
  <1>4. ScrollInLog'
    BY <1>2, <1>3, WindowAssumption DEF Inv, ScreenTyped, ScrollInLog, Max
  <1> QED
    BY <1>1, <1>3, <1>4 DEF Inv, ScreenTyped, Shown, WindowExact

\* A key that changes what is to be seen asks for a drawing.
LEMMA KeyKeeps ==
  ASSUME Inv, Toggle \/ Up \/ Down PROVE Inv'
  <1>1. /\ force_render' = TRUE /\ UNCHANGED <<logVars, view>>
        /\ show_logs' \in BOOLEAN
    BY DEF Toggle, Up, Down, Inv, ScreenTyped
  <1>2. log_scroll' \in Nat /\ log_scroll' <= Max(0, Len(entries) - Margin)
    <2>1. Len(entries) \in Nat
      BY DEF Inv, LogInv, LogTyped
    <2> QED BY <2>1, WindowAssumption
            DEF Toggle, Up, Down, Inv, ScreenTyped, ScrollInLog, Max
  <1>3. LogInv' /\ entries' = entries
    BY <1>1, LogUntouched DEF Inv, logVars
  <1> QED
    BY <1>1, <1>2, <1>3 DEF Inv, ScreenTyped, ScrollInLog, Shown, WindowExact

\* The window as it is drawn.
LEMMA RenderKeeps == ASSUME Inv, Render PROVE Inv'
  <1> DEFINE total == IF show_logs THEN Len(entries) ELSE 0
  <1>1. /\ view' = [shown |-> show_logs, scroll |-> log_scroll,
                    total |-> total, start |-> StartIndex(total)]
        /\ UNCHANGED <<logVars, show_logs, log_scroll>>
        /\ force_render' = FALSE
    BY DEF Render
  <1>2. total \in Nat /\ Len(entries) \in Nat
    BY DEF Inv, LogInv, LogTyped
  <1> HIDE DEF total
  <1>3. StartIndex(total) \in Nat
    BY <1>2, WindowAssumption DEF StartIndex, Max, Min, Inv, ScreenTyped
  <1>4. show_logs => StartIndex(total) + Min(Visible, total) = total - log_scroll
    <2> SUFFICES ASSUME show_logs
                 PROVE  StartIndex(total) + Min(Visible, total) = total - log_scroll
      OBVIOUS
    <2>1. log_scroll <= Max(0, total - Margin) /\ log_scroll \in Nat
      BY DEF Inv, ScreenTyped, ScrollInLog, total
    <2>2. CASE total > Visible
      BY <1>2, <2>1, <2>2, WindowAssumption DEF StartIndex, Max, Min
    <2>3. CASE ~(total > Visible)
      BY <1>2, <2>1, <2>3, WindowAssumption DEF StartIndex, Max, Min
    <2> QED BY <2>2, <2>3
  <1>5. ScreenTyped'
    BY <1>1, <1>2, <1>3 DEF Inv, ScreenTyped
  <1>6. Shown' /\ WindowExact'
    BY <1>1, <1>4 DEF Shown, WindowExact
  <1>7. LogInv' /\ entries' = entries
    BY <1>1, LogUntouched DEF Inv, logVars
  <1> QED BY <1>1, <1>5, <1>6, <1>7 DEF Inv, ScrollInLog

\* Steps that leave the log and what is seen of it, and may ask for a drawing.
LEMMA SeenUntouched ==
  ASSUME Inv, UNCHANGED <<logVars, show_logs, log_scroll, view>>,
         force_render' \in {force_render, TRUE}
  PROVE  Inv'
  <1>1. LogInv' /\ entries' = entries
    BY LogUntouched DEF Inv, logVars
  <1> QED BY <1>1 DEF Inv, ScreenTyped, ScrollInLog, Shown, WindowExact

LEMMA ScreenStepKeeps == ASSUME Inv, ScreenStep PROVE Inv'
  <1>1. CASE Toggle \/ Up \/ Down
    BY <1>1, KeyKeeps
  <1>2. CASE Start \/ Quit \/ NoKey \/ SkipUpdate \/ UpdateMetrics \/ SkipRender
    BY <1>2, SeenUntouched
    DEF Start, Quit, NoKey, SkipUpdate, UpdateMetrics, SkipRender
  <1>3. CASE Render
    BY <1>3, RenderKeeps
  <1> QED BY <1>1, <1>2, <1>3 DEF ScreenStep, Key

LEMMA StepKeeps == ASSUME Inv, [Next]_vars PROVE Inv'
  <1>1. CASE ScreenStep
    BY <1>1, ScreenStepKeeps
  <1>2. CASE LogStep
    BY <1>2, LogStepKeeps DEF LogStep
  <1>3. CASE ScreenFails \/ Sample \/ WorkEnds \/ MainStep \/ UNCHANGED vars
    <2>1. UNCHANGED <<logVars, show_logs, log_scroll, view, force_render>>
      BY <1>3 DEF ScreenFails, Sample, WorkEnds, MainStep, LeaveSelect, Report, Exit,
                  vars, screenVars
    <2> QED BY <2>1, SeenUntouched
  <1> QED BY <1>1, <1>2, <1>3 DEF Next

\* What a key changed is drawn before the next key is read, and the window ends
\* exactly where the keys have put it, although the log grows between the
\* handler's look at it and the drawing's (client tui.rs:111, 757).
THEOREM KeysAlwaysShow == Spec => []KeysShow
  <1>1. Inv => KeysShow
    BY DEF Inv, Shown, WindowExact, KeysShow
  <1> QED BY <1>1, InvInit, StepKeeps, PTL DEF Spec

\* The buffer is the end of what came to it, and an entry overtakes at most one
\* of every other thread on its way to the file (log_buffer.rs:111-120).
THEOREM BufferAlwaysFollowsFile == Spec => []BufferFollowsFile
  <1>1. Inv => BufferFollowsFile
    BY DEF Inv, LogInv
  <1> QED BY <1>1, InvInit, StepKeeps, PTL DEF Spec

-----------------------------------------------------------------------------
\* The charts' data, and the client's cache of it.
ChartsInv ==
    /\ kind \in {"client", "server"}
    /\ history \in [Sources -> Seq(Nat)]
    /\ latest \in [Sources -> Nat]
    /\ CacheFresh

LEMMA ChartsInit == Init => ChartsInv
  BY WindowAssumption DEF Init, ChartsInv, CacheFresh, Sources

\* One history: it stays within its limit, stays as it is when there is no
\* sample, and is not empty when there is one.
LEMMA ExtendedFacts ==
  ASSUME ChartsInv, NEW s \in Sources
  PROVE  /\ Extended(s) \in Seq(Nat) /\ Len(Extended(s)) <= MaxHistory
         /\ latest[s] = 0 => Extended(s) = history[s]
         /\ latest[s] > 0 => Extended(s) # <<>>
  <1> DEFINE grown == IF latest[s] > 0 THEN Append(history[s], latest[s])
                      ELSE history[s]
  <1>1. history[s] \in Seq(Nat) /\ Len(history[s]) <= MaxHistory /\ latest[s] \in Nat
    BY DEF ChartsInv, CacheFresh
  <1>2. /\ grown \in Seq(Nat) /\ Len(grown) <= MaxHistory + 1
        /\ latest[s] > 0 => Len(grown) >= 1
    BY <1>1, WindowAssumption
  <1>3. Extended(s) = IF Len(grown) > MaxHistory THEN Tail(grown) ELSE grown
    BY DEF Extended
  <1>4. CASE Len(grown) > MaxHistory
    <2>1. Tail(grown) \in Seq(Nat) /\ Len(Tail(grown)) = Len(grown) - 1
      BY <1>2, <1>4, WindowAssumption
    <2>2. latest[s] # 0
      BY <1>1, <1>4, WindowAssumption
    <2>3. Len(Tail(grown)) = MaxHistory
      BY <1>2, <1>4, <2>1, WindowAssumption
    <2>4. Tail(grown) # <<>>
      BY <2>3, WindowAssumption, Len(<<>>) = 0
    <2> QED BY <1>3, <1>4, <2>1, <2>2, <2>3, <2>4
  <1>5. CASE ~(Len(grown) > MaxHistory)
    BY <1>1, <1>2, <1>3, <1>5, WindowAssumption
  <1> QED BY <1>4, <1>5

LEMMA UpdateKeeps == ASSUME ChartsInv, UpdateMetrics PROVE ChartsInv'
  <1>1. /\ history' = [s \in Sources |-> Extended(s)]
        /\ UNCHANGED <<kind, latest>>
    BY DEF UpdateMetrics, restVars
  <1>2. /\ history' \in [Sources -> Seq(Nat)]
        /\ \A s \in Sources : Len(history'[s]) <= MaxHistory
    BY <1>1, ExtendedFacts
  <1>3. ASSUME kind = "client"
        PROVE  cached' = IF \A s \in Sources : history'[s] = <<>> THEN {}
                         ELSE {history'}
    <2>1. CASE \E s \in Sources : latest[s] > 0
      <3>1. cached' = {history'}
        BY <1>3, <2>1 DEF UpdateMetrics
      <3>2. \E s \in Sources : history'[s] # <<>>
        BY <1>1, <2>1, ExtendedFacts
      <3> QED BY <3>1, <3>2
    <2>2. CASE ~\E s \in Sources : latest[s] > 0
      <3>1. cached' = cached
        BY <1>3, <2>2 DEF UpdateMetrics
      <3>2. \A s \in Sources : latest[s] = 0
        BY <2>2 DEF ChartsInv
      <3>3. history' = history
        BY <1>1, <3>2, ExtendedFacts DEF ChartsInv
      <3> QED BY <1>3, <3>1, <3>3 DEF ChartsInv, CacheFresh
    <2> QED BY <2>1, <2>2
  <1> QED BY <1>1, <1>2, <1>3 DEF ChartsInv, CacheFresh

LEMMA ChartsUntouched ==
  ASSUME ChartsInv, UNCHANGED <<kind, history, cached>>,
         latest' \in [Sources -> Nat]
  PROVE  ChartsInv'
  BY DEF ChartsInv, CacheFresh

\* The lines the client's charts draw are those its bounds are taken from, and
\* neither grows beyond its limit (client tui.rs:195-214).
THEOREM CacheAlwaysFresh == Spec => []CacheFresh
  <1>1. Init => ChartsInv
    BY ChartsInit
  <1>2. ChartsInv /\ [Next]_vars => ChartsInv'
    <2> SUFFICES ASSUME ChartsInv, [Next]_vars PROVE ChartsInv'
      OBVIOUS
    <2> USE DEF screenVars, restVars
    <2>1. CASE UpdateMetrics
      BY <2>1, UpdateKeeps
    <2>2. CASE Sample
      <3>1. latest' \in [Sources -> Nat]
        BY <2>2 DEF Sample, ChartsInv
      <3> QED BY <2>2, <3>1, ChartsUntouched DEF Sample
    <2>3. CASE ScreenStep /\ ~UpdateMetrics
      <3>1. UNCHANGED <<kind, history, cached, latest>>
        BY <2>3 DEF ScreenStep, Key, Start, Quit, Toggle, Up, Down, NoKey,
                    SkipUpdate, Render, SkipRender
      <3> QED BY <3>1, ChartsUntouched DEF ChartsInv
    <2>4. CASE ScreenFails \/ LogStep \/ WorkEnds \/ MainStep \/ UNCHANGED vars
      <3>1. UNCHANGED <<kind, history, cached, latest>>
        BY <2>4 DEF ScreenFails, LogStep, WorkEnds, MainStep, LeaveSelect, Report,
                    Exit, vars
      <3> QED BY <3>1, ChartsUntouched DEF ChartsInv
    <2> QED BY <2>1, <2>2, <2>3, <2>4 DEF Next
  <1>3. ChartsInv => CacheFresh
    BY DEF ChartsInv
  <1> QED BY <1>1, <1>2, <1>3, PTL DEF Spec
=============================================================================
