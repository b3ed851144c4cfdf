---------------------------- MODULE ThreadProofs ----------------------------
(***************************************************************************)
(* Theorems of the two components that all threads share: LogQueue, for    *)
(* any handlers and any number of units, and Memory, for any threads,      *)
(* classes, sizes and limits.                                              *)
(*                                                                         *)
(* Memory's count is compared with sums over the threads and the classes,  *)
(* so the first part about it is about sums: that one changes by what one  *)
(* of its terms changes.  It rests on induction on the cardinality of a    *)
(* set, by the minimum principle of WellFoundedInduction.                  *)
(***************************************************************************)
EXTENDS LogQueue, Memory, SequenceTheorems, FiniteSetTheorems, WellFoundedInduction, TLAPS

-----------------------------------------------------------------------------
(* The invariant of LogQueue.                                              *)

Holders == {w \in Writer : unit[w] # NoUnit}

\* A handler has a unit exactly when it formats, and finitely many do.
Holding ==
    /\ \A w \in Writer : logPc[w] = "formatting" <=> unit[w] # NoUnit
    /\ IsFiniteSet(Holders)

\* The writing thread has a batch only while it writes.
Batched == runPc # "writing" => batch = <<>>

LogInv == LogTypeOK /\ Holding /\ Batched /\ UnitsConserved

-----------------------------------------------------------------------------
(* Sequences of units.                                                     *)

\* A sequence that is not empty, and what is in it.
LEMMA TailUnits ==
    ASSUME NEW S, NEW s \in Seq(S), s # <<>>
    PROVE  /\ Tail(s) \in Seq(S) /\ Head(s) \in S
           /\ Len(Tail(s)) = Len(s) - 1
           /\ Units(s) = Units(Tail(s)) \cup {Head(s)}
<1>1. Len(s) \in Nat \ {0} /\ Tail(s) \in Seq(S) /\ Head(s) \in S /\ Head(s) = s[1]
  BY EmptySeq, HeadTailProperties, LenProperties
<1>2. Len(Tail(s)) = Len(s) - 1 /\ \A i \in 1..Len(Tail(s)) : Tail(s)[i] = s[i + 1]
  BY HeadTailProperties
<1>3. DOMAIN s = 1..Len(s) /\ DOMAIN Tail(s) = 1..Len(s) - 1
  BY <1>1, <1>2, LenProperties
<1>4. \A i \in 1..Len(s) : s[i] = Head(s) \/ (i - 1 \in DOMAIN Tail(s) /\ s[i] = Tail(s)[i - 1])
  BY <1>1, <1>2, <1>3
<1>5. Units(s) \subseteq Units(Tail(s)) \cup {Head(s)}
  BY <1>3, <1>4 DEF Units
<1>6. \A i \in DOMAIN Tail(s) : i + 1 \in DOMAIN s /\ Tail(s)[i] = s[i + 1]
  BY <1>1, <1>2, <1>3
<1>7. Units(Tail(s)) \cup {Head(s)} \subseteq Units(s)
  BY <1>1, <1>3, <1>6 DEF Units
<1> QED BY <1>1, <1>2, <1>5, <1>7

\* The same for a sequence without its last unit.
LEMMA FrontUnits ==
    ASSUME NEW S, NEW s \in Seq(S), s # <<>>
    PROVE  /\ Front(s) \in Seq(S) /\ Last(s) \in S
           /\ Len(Front(s)) = Len(s) - 1
           /\ Units(s) = Units(Front(s)) \cup {Last(s)}
<1>1. Len(s) \in Nat \ {0} /\ DOMAIN s = 1..Len(s) /\ \A i \in 1..Len(s) : s[i] \in S
  BY EmptySeq, LenProperties, ElementOfSeq
<1>2. /\ Front(s) \in Seq(S)
      /\ Len(Front(s)) = Len(s) - 1
      /\ \A i \in 1..Len(s) - 1 : Front(s)[i] = s[i]
  <2>1. \A i \in 1..Len(s) - 1 : s[i] \in S
    BY <1>1
  <2> QED BY <1>1, <2>1, SubSeqProperties DEF Front
<1>3. DOMAIN Front(s) = 1..Len(s) - 1
  BY <1>2, LenProperties
<1>4. Last(s) = s[Len(s)] /\ Len(s) \in DOMAIN s
  BY <1>1 DEF Last
<1>5. \A i \in DOMAIN s : i = Len(s) \/ i \in DOMAIN Front(s)
  BY <1>1, <1>3
<1>6. DOMAIN Front(s) \subseteq DOMAIN s
  BY <1>1, <1>3
<1> QED BY <1>1, <1>2, <1>3, <1>4, <1>5, <1>6 DEF Units

\* And for a sequence with one more.
LEMMA AppendUnits ==
    ASSUME NEW S, NEW s \in Seq(S), NEW u \in S
    PROVE  /\ Append(s, u) \in Seq(S)
           /\ Len(Append(s, u)) = Len(s) + 1
           /\ Units(Append(s, u)) = Units(s) \cup {u}
<1>1. Len(s) \in Nat /\ DOMAIN s = 1..Len(s)
  BY LenProperties
<1>2. /\ Append(s, u) \in Seq(S)
      /\ Len(Append(s, u)) = Len(s) + 1
      /\ \A i \in 1..Len(s) : Append(s, u)[i] = s[i]
      /\ Append(s, u)[Len(s) + 1] = u
  BY AppendProperties
<1>3. DOMAIN Append(s, u) = 1..Len(s) + 1
  BY <1>2, LenProperties
<1>4. \A i \in DOMAIN Append(s, u) : i = Len(s) + 1 \/ i \in DOMAIN s
  BY <1>1, <1>3
<1>5. Len(s) + 1 \in DOMAIN Append(s, u) /\ DOMAIN s \subseteq DOMAIN Append(s, u)
  BY <1>1, <1>3
<1> QED BY <1>1, <1>2, <1>4, <1>5 DEF Units

\* The empty sequence has none.
LEMMA EmptyUnits == Units(<<>>) = {} /\ Len(<<>>) = 0 /\ \A S : <<>> \in Seq(S)
<1>1. Len(<<>>) = 0 /\ DOMAIN <<>> = {} /\ \A S : <<>> \in Seq(S)
  BY EmptySeq
<1> QED BY <1>1 DEF Units

-----------------------------------------------------------------------------
(* The steps.                                                              *)

\* Who is woken by a notification has no unit, and gets none by it.
LEMMA NotifyPc ==
    ASSUME LogTypeOK, NEW next \in [Writer -> {"idle", "waiting", "woken", "formatting"}],
           NotifyOne(next)
    PROVE  /\ logPc' \in [Writer -> {"idle", "waiting", "woken", "formatting"}]
           /\ \A w \in Writer : logPc'[w] = "formatting" <=> next[w] = "formatting"
           /\ runPc' = runPc \/ (runPc = "waiting" /\ runPc' = "check")
BY DEF NotifyOne, LogTypeOK

\* A handler that takes a unit holds it from then on, and it is nowhere else.
LEMMA TakeUnitKeeps ==
    ASSUME LogInv, NEW w \in Writer, TakeUnit(w), logPc[w] \in {"idle", "woken"},
           UNCHANGED <<runPc, batch, logs, allowMiss, stopped>>
    PROVE  LogInv'
<1>. USE LogAssumption
<1>1. unit[w] = NoUnit /\ w \notin Holders
  BY DEF LogInv, Holding, Holders
<1>2. free \in Seq(Unit) /\ unitCnt \in 0..Capacity /\ logs \in Seq(Unit) /\ batch \in Seq(Unit)
  BY DEF LogInv, LogTypeOK
<1>3. PICK u \in Unit :
         /\ unit' = [unit EXCEPT ![w] = u]
         /\ \/ /\ free # <<>> /\ u = Last(free)
               /\ free' = Front(free) /\ unitCnt' = unitCnt
            \/ /\ free = <<>> /\ unitCnt < Capacity /\ u = unitCnt + 1
               /\ free' = free /\ unitCnt' = unitCnt + 1
  <2>1. CASE free # <<>>
    BY <2>1, <1>2, FrontUnits DEF TakeUnit
  <2>2. CASE free = <<>>
    BY <2>2, <1>2 DEF TakeUnit, Unit
  <2> QED BY <2>1, <2>2
<1>4. u # NoUnit
  BY DEF Unit
<1>5. /\ Holders' = Holders \cup {w}
      /\ \A x \in Writer : unit'[x] = IF x = w THEN u ELSE unit[x]
  BY <1>3, <1>4 DEF LogInv, LogTypeOK, Holders
<1>6. {unit'[x] : x \in Holders'} = {unit[x] : x \in Holders} \cup {u}
  BY <1>1, <1>5 DEF Holders
<1>7. /\ IsFiniteSet(Holders) /\ IsFiniteSet(Holders')
      /\ Cardinality(Holders) \in Nat
      /\ Cardinality(Holders') = Cardinality(Holders) + 1
  BY <1>1, <1>5, FS_AddElement, FS_CardinalityType DEF LogInv, Holding
<1>8. /\ free' \in Seq(Unit) /\ unitCnt' \in 0..Capacity
      /\ Len(free') - unitCnt' = Len(free) - unitCnt - 1
      /\ Units(free') \cup {u} \cup 1..unitCnt = Units(free) \cup 1..unitCnt'
  <2>1. CASE free # <<>>
    <3>1. free' = Front(free) /\ u = Last(free) /\ unitCnt' = unitCnt
      BY <1>3, <2>1
    <3>2. Len(free) \in Nat
      BY <1>2, LenProperties
    <3> QED BY <1>2, <2>1, <3>1, <3>2, FrontUnits
  <2>2. CASE free = <<>>
    <3>1. free' = free /\ u = unitCnt + 1 /\ unitCnt' = unitCnt + 1 /\ unitCnt < Capacity
      BY <1>3, <2>2
    <3>2. 1..unitCnt + 1 = 1..unitCnt \cup {unitCnt + 1} /\ Len(free) \in Nat
      BY <1>2, LenProperties
    <3> QED BY <1>2, <3>1, <3>2
  <2> QED BY <2>1, <2>2
<1>9. LogTypeOK'
  BY <1>3, <1>8 DEF TakeUnit, LogInv, LogTypeOK
<1>10. Holding' /\ Batched'
  BY <1>4, <1>5, <1>7 DEF TakeUnit, LogInv, LogTypeOK, Holding, Batched
<1>11. UnitsConserved'
  <2>1. /\ Len(free) + Len(logs) + Len(batch) + Cardinality(Holders) = unitCnt
        /\ Units(free) \cup Units(logs) \cup Units(batch) \cup {unit[x] : x \in Holders}
             = 1..unitCnt
    BY DEF LogInv, UnitsConserved, Holders
  <2>2. Len(free) \in Nat /\ Len(free') \in Nat /\ Len(logs) \in Nat /\ Len(batch) \in Nat
    BY <1>2, <1>8, LenProperties
  <2>3. Len(free') + Len(logs) + Len(batch) + Cardinality(Holders') = unitCnt'
    <3>1. unitCnt \in Int /\ unitCnt' \in Int /\ Cardinality(Holders) \in Int
      BY <1>2, <1>7, <1>8
    <3>2. Len(free') - unitCnt' = Len(free) - unitCnt - 1
      BY <1>8
    <3>3. Cardinality(Holders') = Cardinality(Holders) + 1
      BY <1>7
    <3>4. Len(free) + Len(logs) + Len(batch) + Cardinality(Holders) = unitCnt
      BY <2>1
    <3> QED BY <2>2, <3>1, <3>2, <3>3, <3>4
  <2>4. Units(free') \cup Units(logs) \cup Units(batch) \cup {unit'[x] : x \in Holders'}
           = 1..unitCnt'
    <3>1. CASE free # <<>>
      BY <1>2, <1>3, <1>6, <2>1, <3>1, FrontUnits
    <3>2. CASE free = <<>>
      <4>1. 1..unitCnt' = 1..unitCnt \cup {u}
        BY <1>2, <1>3, <3>2
      <4> QED BY <1>3, <1>6, <2>1, <3>2, <4>1
    <3> QED BY <3>1, <3>2
  <2>5. Holders' = {x \in Writer : unit'[x] # NoUnit}
    BY DEF Holders
  <2>6. logs' = logs /\ batch' = batch
    OBVIOUS
  <2> QED BY <2>3, <2>4, <2>5, <2>6 DEF UnitsConserved, Units
<1> QED BY <1>9, <1>10, <1>11 DEF LogInv

\* A unit that is queued leaves the handler's hands.
LEMMA PutKeeps ==
    ASSUME LogInv, NEW w \in Writer, Put(w)
    PROVE  LogInv'
<1>. USE LogAssumption
<1>1. unit[w] # NoUnit /\ unit[w] \in Unit /\ w \in Holders
  BY DEF Put, LogInv, LogTypeOK, Holding, Holders
<1>2. /\ logs' \in Seq(Unit) /\ Len(logs') = Len(logs) + 1
      /\ Units(logs') = Units(logs) \cup {unit[w]}
  BY <1>1, AppendUnits DEF Put, LogInv, LogTypeOK
<1>3. /\ Holders' = Holders \ {w}
      /\ \A x \in Writer : unit'[x] = IF x = w THEN NoUnit ELSE unit[x]
  BY DEF Put, LogInv, LogTypeOK, Holders
<1>4. {unit[x] : x \in Holders} = {unit'[x] : x \in Holders'} \cup {unit[w]}
  BY <1>1, <1>3 DEF Holders
<1>5. /\ IsFiniteSet(Holders) /\ IsFiniteSet(Holders') /\ Cardinality(Holders) \in Nat
      /\ Cardinality(Holders') = Cardinality(Holders) - 1
  BY <1>1, <1>3, FS_RemoveElement, FS_CardinalityType DEF LogInv, Holding
<1>6. /\ logPc' \in [Writer -> {"idle", "waiting", "woken", "formatting"}]
      /\ \A x \in Writer : logPc'[x] = "formatting" <=> x # w /\ logPc[x] = "formatting"
      /\ runPc' = runPc \/ (runPc = "waiting" /\ runPc' = "check")
  <2>1. [logPc EXCEPT ![w] = "idle"] \in [Writer -> {"idle", "waiting", "woken", "formatting"}]
    BY DEF LogInv, LogTypeOK
  <2> QED BY <2>1, NotifyPc DEF Put, LogInv, LogTypeOK
<1>7. LogTypeOK'
  BY <1>2, <1>3, <1>6 DEF Put, LogInv, LogTypeOK
<1>8. Holding' /\ Batched'
  BY <1>3, <1>5, <1>6 DEF Put, LogInv, Holding, Batched
<1>9. UnitsConserved'
  <2>1. /\ Len(free) + Len(logs) + Len(batch) + Cardinality(Holders) = unitCnt
        /\ Units(free) \cup Units(logs) \cup Units(batch) \cup {unit[x] : x \in Holders}
             = 1..unitCnt
    BY DEF LogInv, UnitsConserved, Holders
  <2>2. Len(free) \in Nat /\ Len(logs) \in Nat /\ Len(batch) \in Nat
    BY LenProperties DEF LogInv, LogTypeOK
  <2>3. free' = free /\ batch' = batch /\ unitCnt' = unitCnt
    BY DEF Put
  <2>4. Len(free) + Len(logs') + Len(batch) + Cardinality(Holders') = unitCnt
    BY <1>2, <1>5, <2>1, <2>2
  <2>5. Units(free) \cup Units(logs') \cup Units(batch) \cup {unit'[x] : x \in Holders'}
           = 1..unitCnt
    BY <1>2, <1>4, <2>1
  <2> QED BY <2>3, <2>4, <2>5 DEF UnitsConserved, Holders, Units
<1> QED BY <1>7, <1>8, <1>9 DEF LogInv

\* The writing thread moves what was queued, and then frees it one by one.
LEMMA RunKeeps ==
    ASSUME LogInv, RunStep
    PROVE  LogInv'
<1>1. /\ Len(free) + Len(logs) + Len(batch) + Cardinality(Holders) = unitCnt
      /\ Units(free) \cup Units(logs) \cup Units(batch) \cup {unit[x] : x \in Holders}
           = 1..unitCnt
  BY DEF LogInv, UnitsConserved, Holders
<1>2. Len(free) \in Nat /\ Len(logs) \in Nat /\ Len(batch) \in Nat /\ Cardinality(Holders) \in Nat
  BY LenProperties, FS_CardinalityType DEF LogInv, LogTypeOK, Holding
<1>3. CASE Collect
  <2>1. CASE logs = <<>> /\ ~stopped
    BY <1>3, <2>1 DEF Collect, LogInv, LogTypeOK, Holding, Batched, UnitsConserved, Holders, Units
  <2>2. CASE ~(logs = <<>> /\ ~stopped)
    <3>1. /\ batch = <<>> /\ batch' = logs /\ logs' = <<>> /\ runPc' = "writing"
          /\ UNCHANGED <<logPc, unit, free, unitCnt, allowMiss, stopped>>
          /\ miss' = FALSE
      BY <1>3, <2>2 DEF Collect, LogInv, Batched
    <3>2. LogTypeOK' /\ Holding' /\ Batched'
      BY <3>1, EmptyUnits DEF LogInv, LogTypeOK, Holding, Batched, Holders
    <3>3. UnitsConserved'
      <4>1. Len(batch) = 0 /\ Len(logs') = 0 /\ Units(batch) = {} /\ Units(logs') = {}
        BY <3>1, EmptyUnits
      <4>2. /\ Len(free) + Len(logs') + Len(batch') + Cardinality(Holders) = unitCnt
            /\ Units(free) \cup Units(logs') \cup Units(batch') \cup {unit[x] : x \in Holders}
                  = 1..unitCnt
        BY <1>1, <1>2, <3>1, <4>1
      <4> QED BY <3>1, <4>2 DEF UnitsConserved, Holders, Units
    <3> QED BY <3>2, <3>3 DEF LogInv
  <2> QED BY <2>1, <2>2
<1>4. CASE WriteLog
  <2>1. /\ batch # <<>> /\ batch' = Tail(batch) /\ free' = Append(free, Head(batch))
        /\ runPc = "writing"
        /\ UNCHANGED <<unit, logs, unitCnt, miss, allowMiss, stopped>>
    BY <1>4 DEF WriteLog
  <2>2. /\ logPc' \in [Writer -> {"idle", "waiting", "woken", "formatting"}]
        /\ \A x \in Writer : logPc'[x] = "formatting" <=> logPc[x] = "formatting"
        /\ runPc' = runPc
    BY <1>4, <2>1, NotifyPc DEF WriteLog, LogInv, LogTypeOK
  <2>3. /\ Tail(batch) \in Seq(Unit) /\ Head(batch) \in Unit
        /\ Len(Tail(batch)) = Len(batch) - 1
        /\ Units(batch) = Units(Tail(batch)) \cup {Head(batch)}
    BY <2>1, TailUnits DEF LogInv, LogTypeOK
  <2>4. /\ Append(free, Head(batch)) \in Seq(Unit)
        /\ Len(Append(free, Head(batch))) = Len(free) + 1
        /\ Units(Append(free, Head(batch))) = Units(free) \cup {Head(batch)}
    BY <2>3, AppendUnits DEF LogInv, LogTypeOK
  <2>5. LogTypeOK' /\ Holding' /\ Batched'
    BY <2>1, <2>2, <2>3, <2>4 DEF LogInv, LogTypeOK, Holding, Batched, Holders
  <2>6. UnitsConserved'
    <3>1. /\ Len(free') + Len(logs) + Len(batch') + Cardinality(Holders) = unitCnt
          /\ Units(free') \cup Units(logs) \cup Units(batch') \cup {unit[x] : x \in Holders}
                = 1..unitCnt
      BY <1>1, <1>2, <2>1, <2>3, <2>4
    <3> QED BY <2>1, <3>1 DEF UnitsConserved, Holders, Units
  <2> QED BY <2>5, <2>6 DEF LogInv
<1>5. CASE EndBatch
  BY <1>5 DEF EndBatch, LogInv, LogTypeOK, Holding, Batched, UnitsConserved, Holders, Units
<1> QED BY <1>3, <1>4, <1>5 DEF RunStep

\* What neither takes nor moves a unit.
LEMMA OthersKeep ==
    ASSUME LogInv, UNCHANGED <<unit, batch, logs, free, unitCnt>>, LogTypeOK',
           \A w \in Writer : logPc'[w] = "formatting" <=> logPc[w] = "formatting",
           runPc' # "writing" => runPc # "writing"
    PROVE  LogInv'
BY DEF LogInv, Holding, Batched, UnitsConserved, Holders, Units

\* So the invariant is inductive.
LEMMA NextKeeps ==
    ASSUME LogInv, [LogNext]_logVars
    PROVE  LogInv'
<1>1. ASSUME NEW w \in Writer, GetLogUnitOrMiss(w) PROVE LogInv'
  <2>1. CASE TakeUnit(w)
    BY <1>1, <2>1, TakeUnitKeeps DEF GetLogUnitOrMiss
  <2>2. CASE MissLog
    BY <1>1, <2>2, OthersKeep DEF GetLogUnitOrMiss, MissLog, LogInv, LogTypeOK
  <2> QED BY <1>1, <2>1, <2>2 DEF GetLogUnitOrMiss
<1>2. ASSUME NEW w \in Writer, GetLogUnit(w) PROVE LogInv'
  <2>1. CASE TakeUnit(w)
    BY <1>2, <2>1, TakeUnitKeeps DEF GetLogUnit
  <2>2. CASE ~TakeUnit(w)
    BY <1>2, <2>2, OthersKeep DEF GetLogUnit, LogInv, LogTypeOK
  <2> QED BY <2>1, <2>2
<1>3. ASSUME NEW w \in Writer, WakeUp(w) PROVE LogInv'
  <2>1. CASE TakeUnit(w)
    BY <1>3, <2>1, TakeUnitKeeps DEF WakeUp
  <2>2. CASE ~TakeUnit(w)
    BY <1>3, <2>2, OthersKeep DEF WakeUp, LogInv, LogTypeOK
  <2> QED BY <2>1, <2>2
<1>4. ASSUME NEW w \in Writer, Put(w) PROVE LogInv'
  BY <1>4, PutKeeps
<1>5. CASE RunStep
  BY <1>5, RunKeeps
<1>6. CASE Stop
  <2>1. /\ logPc' \in [Writer -> {"idle", "waiting", "woken", "formatting"}]
        /\ \A w \in Writer : logPc'[w] = "formatting" <=> logPc[w] = "formatting"
        /\ runPc' = runPc \/ (runPc = "waiting" /\ runPc' = "check")
    BY <1>6, NotifyPc DEF Stop, LogInv, LogTypeOK
  <2> QED BY <1>6, <2>1, OthersKeep DEF Stop, LogInv, LogTypeOK
<1>7. CASE SetAllowMissLog
  BY <1>7, OthersKeep DEF SetAllowMissLog, LogInv, LogTypeOK
<1>8. CASE UNCHANGED logVars
  BY <1>8, OthersKeep DEF logVars, LogInv, LogTypeOK
<1> QED BY <1>1, <1>2, <1>3, <1>4, <1>5, <1>6, <1>7, <1>8 DEF LogNext

-----------------------------------------------------------------------------
\* It holds at the start, when all units are free.
LEMMA InitInv == LogInit => LogInv
<1> SUFFICES ASSUME LogInit PROVE LogInv
  OBVIOUS
<1>1. LogTypeOK
  <2>1. 0 \in 0..Capacity /\ <<>> \in Seq(Unit)
    BY LogAssumption, EmptyUnits
  <2> QED BY <2>1 DEF LogInit, LogTypeOK
<1>2. Holders = {}
  BY DEF LogInit, Holders
<1>3. IsFiniteSet(Holders) /\ Cardinality(Holders) = 0 /\ {unit[x] : x \in Holders} = {}
  BY <1>2, FS_EmptySet
<1>4. Holding /\ Batched
  BY <1>3 DEF LogInit, Holding, Batched
<1>5. Len(free) + Len(logs) + Len(batch) + Cardinality(Holders) = unitCnt
  BY <1>3, EmptyUnits DEF LogInit
<1>6. Units(free) \cup Units(logs) \cup Units(batch) \cup {unit[x] : x \in Holders} = 1..unitCnt
  <2>1. 1..0 = {} /\ Units(<<>>) = {}
    BY EmptyUnits
  <2> QED BY <1>3, <2>1 DEF LogInit
<1> QED BY <1>1, <1>4, <1>5, <1>6 DEF LogInv, UnitsConserved, Holders

\* No unit of the log is ever in two places, nor lost: free, queued, being written
\* or in the hands of one handler (Logger::getLogUnit, put, run).
THEOREM UnitsConservedAlways == LogSpec => []UnitsConserved
<1>1. LogInv /\ [LogNext]_logVars => LogInv'
  BY NextKeeps
<1>2. LogInv => UnitsConserved
  BY DEF LogInv
<1> QED BY InitInv, <1>1, <1>2, PTL DEF LogSpec

\* While the writing thread sleeps on queued logs, some handler is about to act.
THEOREM SinkNotAsleepAlways == LogSpec => []SinkNotAsleep
<1>1. LogInit => SinkNotAsleep
  BY DEF LogInit, SinkNotAsleep
<1>2. LogInv /\ SinkNotAsleep /\ [LogNext]_logVars => SinkNotAsleep'
  <2> SUFFICES ASSUME LogInv, SinkNotAsleep, [LogNext]_logVars,
                      runPc' = "waiting", logs' # <<>>, ~stopped'
               PROVE  \E w \in Writer : logPc'[w] \in {"waiting", "woken", "formatting"}
    BY DEF SinkNotAsleep
  <2>1. ASSUME NEW w \in Writer, GetLogUnitOrMiss(w)
        PROVE  \E x \in Writer : logPc'[x] \in {"waiting", "woken", "formatting"}
    BY <2>1 DEF GetLogUnitOrMiss, TakeUnit, MissLog, SinkNotAsleep, LogInv, LogTypeOK
  <2>2. ASSUME NEW w \in Writer, GetLogUnit(w)
        PROVE  \E x \in Writer : logPc'[x] \in {"waiting", "woken", "formatting"}
    BY <2>2 DEF GetLogUnit, TakeUnit, LogInv, LogTypeOK
  <2>3. ASSUME NEW w \in Writer, WakeUp(w)
        PROVE  \E x \in Writer : logPc'[x] \in {"waiting", "woken", "formatting"}
    BY <2>3 DEF WakeUp, TakeUnit, LogInv, LogTypeOK
  <2>4. ASSUME NEW w \in Writer, Put(w)
        PROVE  \E x \in Writer : logPc'[x] \in {"waiting", "woken", "formatting"}
    BY <2>4 DEF Put, NotifyOne, LogInv, LogTypeOK
  <2>5. CASE RunStep
    <3>1. CASE Collect
      BY <2>5, <3>1 DEF Collect
    <3>2. CASE WriteLog
      BY <3>2 DEF WriteLog, NotifyOne
    <3>3. CASE EndBatch
      BY <3>3 DEF EndBatch
    <3> QED BY <2>5, <3>1, <3>2, <3>3 DEF RunStep
  <2>6. CASE Stop
    BY <2>6 DEF Stop
  <2>7. CASE SetAllowMissLog
    BY <2>7 DEF SetAllowMissLog, SinkNotAsleep
  <2>8. CASE UNCHANGED logVars
    BY <2>8 DEF logVars, SinkNotAsleep
  <2> QED BY <2>1, <2>2, <2>3, <2>4, <2>5, <2>6, <2>7, <2>8 DEF LogNext
<1>3. LogInv /\ [LogNext]_logVars => LogInv'
  BY NextKeeps
<1> QED BY InitInv, <1>1, <1>2, <1>3, PTL DEF LogSpec

-----------------------------------------------------------------------------
(* Memory: sums.                                                           *)

\* A set that has 0, and with a number the next, has all numbers.
LEMMA AllNumbers ==
    ASSUME NEW T, 0 \in T, \A n \in Nat : n \in T => n + 1 \in T
    PROVE  Nat \subseteq T
<1> SUFFICES ASSUME Nat \ T # {} PROVE FALSE
  OBVIOUS
<1>1. PICK x \in Nat \ T : \A y \in Nat \ T : ~(<<y, x>> \in OpToRel(<, Nat))
  BY NatLessThanWellFounded, WFMin
<1>2. \A y \in Nat \ T : ~(y < x)
  BY <1>1 DEF OpToRel
<1>3. x # 0 /\ x - 1 \in Nat /\ x - 1 < x
  OBVIOUS
<1>4. x - 1 \in T
  BY <1>2, <1>3
<1> QED BY <1>3, <1>4

Some(s) == CHOOSE x \in s : TRUE

\* The function on the subsets of S by which the sum of f is defined.
Sums(g, f, S) ==
    g = [s \in SUBSET S |-> IF s = {} THEN 0 ELSE f[Some(s)] + g[s \ {Some(s)}]]

\* The part of it for sets of up to n elements.
SumsUpTo(g, f, S, n) ==
    g = [s \in {t \in SUBSET S : Cardinality(t) <= n} |->
           IF s = {} THEN 0 ELSE f[Some(s)] + g[s \ {Some(s)}]]

\* Without one of its elements a set is smaller.
LEMMA Smaller ==
    ASSUME NEW S, IsFiniteSet(S), NEW s \in SUBSET S, s # {}
    PROVE  /\ Some(s) \in s /\ s \ {Some(s)} \in SUBSET S
           /\ Cardinality(s) \in Nat \ {0}
           /\ Cardinality(s \ {Some(s)}) = Cardinality(s) - 1
<1>1. Some(s) \in s
  BY DEF Some
<1>2. IsFiniteSet(s)
  BY FS_Subset
<1>3. Cardinality(s \ {Some(s)}) = Cardinality(s) - 1
  BY <1>1, <1>2, FS_RemoveElement
<1>4. Cardinality(s) \in Nat /\ Cardinality(s) # 0
  BY <1>2, FS_CardinalityType, FS_EmptySet
<1> QED BY <1>1, <1>3, <1>4

\* There is such a function.
LEMMA SumsExist ==
    ASSUME NEW f, NEW S, IsFiniteSet(S)
    PROVE  \E g : Sums(g, f, S)
<1> DEFINE T == {n \in Nat : \E g : SumsUpTo(g, f, S, n)}
<1>1. 0 \in T
  <2> DEFINE g == [s \in {t \in SUBSET S : Cardinality(t) <= 0} |-> 0]
  <2>1. \A s \in {t \in SUBSET S : Cardinality(t) <= 0} : s = {}
    <3> SUFFICES ASSUME NEW s \in SUBSET S, Cardinality(s) <= 0, s # {} PROVE FALSE
      OBVIOUS
    <3>1. Cardinality(s) \in Nat \ {0}
      BY Smaller
    <3> QED BY <3>1
  <2>2. SumsUpTo(g, f, S, 0)
    BY <2>1 DEF SumsUpTo
  <2> QED BY <2>2
<1>2. ASSUME NEW n \in Nat, n \in T PROVE n + 1 \in T
  <2>1. PICK g : SumsUpTo(g, f, S, n)
    BY <1>2
  <2> DEFINE D(m) == {t \in SUBSET S : Cardinality(t) <= m}
             h == [s \in D(n + 1) |-> IF s = {} THEN 0 ELSE f[Some(s)] + g[s \ {Some(s)}]]
  <2>2. ASSUME NEW s \in D(n + 1), s # {}
        PROVE  h[s \ {Some(s)}] = g[s \ {Some(s)}]
    <3> DEFINE r == s \ {Some(s)}
    <3>1. r \in D(n)
      BY <2>2, Smaller
    <3>2. r \in D(n + 1)
      <4>1. Cardinality(r) \in Nat
        BY <2>2, Smaller
      <4> QED BY <3>1, <4>1
    <3> HIDE DEF r
    <3>3. g[r] = IF r = {} THEN 0 ELSE f[Some(r)] + g[r \ {Some(r)}]
      BY <2>1, <3>1 DEF SumsUpTo
    <3> QED BY <3>2, <3>3 DEF r
  <2>3. h = [s \in D(n + 1) |-> IF s = {} THEN 0 ELSE f[Some(s)] + h[s \ {Some(s)}]]
    <3> DEFINE u(s) == IF s = {} THEN 0 ELSE f[Some(s)] + g[s \ {Some(s)}]
               v(s) == IF s = {} THEN 0 ELSE f[Some(s)] + h[s \ {Some(s)}]
    <3>1. \A s \in D(n + 1) : u(s) = v(s)
      BY <2>2
    <3>2. h = [s \in D(n + 1) |-> u(s)]
      OBVIOUS
    <3> HIDE DEF u, v, D, h
    <3>3. h = [s \in D(n + 1) |-> v(s)]
      BY <3>1, <3>2
    <3> QED BY <3>3 DEF v
  <2>4. SumsUpTo(h, f, S, n + 1)
    BY <2>3 DEF SumsUpTo
  <2> QED BY <2>4
<1> HIDE DEF T
<1>3. Cardinality(S) \in T
  BY <1>1, <1>2, AllNumbers, FS_CardinalityType
<1>4. PICK g : SumsUpTo(g, f, S, Cardinality(S))
  BY <1>3 DEF T
<1>5. {t \in SUBSET S : Cardinality(t) <= Cardinality(S)} = SUBSET S
  BY FS_Subset
<1>6. Sums(g, f, S)
  BY <1>4, <1>5 DEF Sums, SumsUpTo
<1> QED BY <1>6

\* The sum of f is the value of such a function.
LEMMA SumIs ==
    ASSUME NEW f, IsFiniteSet(DOMAIN f)
    PROVE  \E g : Sums(g, f, DOMAIN f) /\ SumFunction(f) = g[DOMAIN f]
<1> DEFINE S == DOMAIN f
           g == CHOOSE g : g = [s \in SUBSET S |->
                  IF s = {} THEN 0 ELSE f[CHOOSE x \in s : TRUE] + g[s \ {CHOOSE x \in s : TRUE}]]
<1>1. SumFunction(f) = g[S]
  BY DEF SumFunction, SumFunctionOnSet, FoldFunctionOnSet, MapThenFoldSet
<1>2. \E h : Sums(h, f, S)
  BY SumsExist
<1>3. Sums(g, f, S)
  BY <1>2 DEF Sums, Some
<1> QED BY <1>1, <1>3

\* What holds of no terms, and is kept when a term is added, holds of the sum.
LEMMA SubsetInduction ==
    ASSUME NEW S, IsFiniteSet(S), NEW P, {} \in P,
           \A s \in SUBSET S : s # {} /\ s \ {Some(s)} \in P => s \in P
    PROVE  SUBSET S \subseteq P
<1> DEFINE T == {n \in Nat : \A s \in SUBSET S : Cardinality(s) <= n => s \in P}
<1>1. 0 \in T
  <2> SUFFICES ASSUME NEW s \in SUBSET S, Cardinality(s) <= 0, s # {} PROVE FALSE
    OBVIOUS
  <2>1. Cardinality(s) \in Nat \ {0}
    BY Smaller
  <2> QED BY <2>1
<1>2. ASSUME NEW n \in Nat, n \in T PROVE n + 1 \in T
  <2>1. ASSUME NEW s \in SUBSET S, Cardinality(s) <= n + 1 PROVE s \in P
    <3>1. CASE s = {}
      BY <3>1
    <3>2. CASE s # {}
      <4>1. /\ s \ {Some(s)} \in SUBSET S
            /\ Cardinality(s) \in Nat \ {0}
            /\ Cardinality(s \ {Some(s)}) = Cardinality(s) - 1
        BY <3>2, Smaller
      <4>2. Cardinality(s \ {Some(s)}) <= n
        BY <2>1, <4>1
      <4>3. s \ {Some(s)} \in P
        BY <1>2, <4>1, <4>2
      <4> QED BY <3>2, <4>3
    <3> QED BY <3>1, <3>2
  <2>2. n + 1 \in Nat
    OBVIOUS
  <2> QED BY <2>1, <2>2
<1> HIDE DEF T
<1>3. \A s \in SUBSET S : Cardinality(s) \in T
  <2>1. \A s \in SUBSET S : Cardinality(s) \in Nat
    BY FS_Subset, FS_CardinalityType
  <2> QED BY <1>1, <1>2, <2>1, AllNumbers
<1> SUFFICES ASSUME NEW s \in SUBSET S PROVE s \in P
  OBVIOUS
<1>4. Cardinality(s) \in T /\ Cardinality(s) \in Nat
  BY <1>3, FS_Subset, FS_CardinalityType
<1> QED BY <1>4 DEF T

\* A sum of natural numbers is one, and at least as great as each of them.
LEMMA SumOfNat ==
    ASSUME NEW S, IsFiniteSet(S), NEW f \in [S -> Nat]
    PROVE  /\ SumFunction(f) \in Nat
           /\ \A a \in S : SumFunction(f) >= f[a]
<1>1. DOMAIN f = S
  OBVIOUS
<1>2. PICK g : Sums(g, f, S) /\ SumFunction(f) = g[S]
  BY <1>1, SumIs
<1> DEFINE P == {s \in SUBSET S : g[s] \in Nat /\ \A a \in s : g[s] >= f[a]}
<1>3. {} \in P
  BY <1>2 DEF Sums
<1>4. ASSUME NEW s \in SUBSET S, s # {}, s \ {Some(s)} \in P
      PROVE  s \in P
  <2>1. Some(s) \in s
    BY <1>4, Smaller
  <2>2. g[s] = f[Some(s)] + g[s \ {Some(s)}]
    BY <1>2, <1>4 DEF Sums
  <2>3. f[Some(s)] \in Nat
    BY <2>1
  <2>4. g[s] \in Nat /\ g[s] >= f[Some(s)] /\ g[s] >= g[s \ {Some(s)}]
    BY <1>4, <2>2, <2>3
  <2>5. \A a \in s \ {Some(s)} : f[a] \in Nat /\ g[s] >= f[a]
    BY <1>4, <2>4
  <2> QED BY <2>4, <2>5
<1> HIDE DEF P
<1>5. S \in P
  BY <1>3, <1>4, SubsetInduction
<1> QED BY <1>2, <1>5 DEF P

\* A sum without terms other than zero.
LEMMA SumOfZeros ==
    ASSUME NEW S, IsFiniteSet(S), NEW f \in [S -> {0}]
    PROVE  SumFunction(f) = 0
<1>1. DOMAIN f = S
  OBVIOUS
<1>2. PICK g : Sums(g, f, S) /\ SumFunction(f) = g[S]
  BY <1>1, SumIs
<1> DEFINE P == {s \in SUBSET S : g[s] = 0}
<1>3. {} \in P
  BY <1>2 DEF Sums
<1>4. ASSUME NEW s \in SUBSET S, s # {}, s \ {Some(s)} \in P
      PROVE  s \in P
  <2>1. f[Some(s)] = 0
    BY <1>4, Smaller
  <2>2. g[s] = f[Some(s)] + g[s \ {Some(s)}]
    BY <1>2, <1>4 DEF Sums
  <2> QED BY <1>4, <2>1, <2>2
<1> HIDE DEF P
<1>5. S \in P
  BY <1>3, <1>4, SubsetInduction
<1> QED BY <1>2, <1>5 DEF P

\* When one term changes, the sum changes by as much.
LEMMA SumChanges ==
    ASSUME NEW S, IsFiniteSet(S), NEW f \in [S -> Int], NEW h \in [S -> Int],
           NEW a \in S, \A x \in S \ {a} : h[x] = f[x]
    PROVE  SumFunction(h) = SumFunction(f) + (h[a] - f[a])
<1>1. DOMAIN f = S /\ DOMAIN h = S
  OBVIOUS
<1>2. PICK g : Sums(g, f, S) /\ SumFunction(f) = g[S]
  BY <1>1, SumIs
<1>3. PICK k : Sums(k, h, S) /\ SumFunction(h) = k[S]
  BY <1>1, SumIs
<1> DEFINE d(s) == IF a \in s THEN h[a] - f[a] ELSE 0
           P == {s \in SUBSET S : g[s] \in Int /\ k[s] = g[s] + d(s)}
<1>4. {} \in P
  BY <1>2, <1>3 DEF Sums
<1>5. ASSUME NEW s \in SUBSET S, s # {}, s \ {Some(s)} \in P
      PROVE  s \in P
  <2> DEFINE x == Some(s)
             r == s \ {x}
  <2>1. x \in s /\ x \in S /\ r \in SUBSET S
    BY <1>5, Smaller
  <2> HIDE DEF x
  <2>2. g[s] = f[x] + g[r] /\ k[s] = h[x] + k[r]
    BY <1>2, <1>3, <1>5 DEF Sums, x
  <2>3. f[x] \in Int /\ h[x] \in Int /\ h[a] \in Int /\ f[a] \in Int
    BY <2>1
  <2>4. g[r] \in Int /\ k[r] = g[r] + d(r)
    BY <1>5 DEF x
  <2> HIDE DEF r
  <2>5. CASE x = a
    <3>1. a \in s /\ a \notin r
      BY <2>1, <2>5 DEF r
    <3> QED BY <2>2, <2>3, <2>4, <2>5, <3>1
  <2>6. CASE x # a
    <3>1. h[x] = f[x] /\ (a \in s <=> a \in r)
      BY <2>1, <2>6 DEF r
    <3>2. d(s) = d(r) /\ d(r) \in Int
      BY <2>3, <3>1
    <3> HIDE DEF d
    <3> QED BY <2>2, <2>3, <2>4, <3>1, <3>2
  <2> QED BY <2>5, <2>6
<1> HIDE DEF P
<1>6. S \in P
  BY <1>4, <1>5, SubsetInduction
<1> QED BY <1>2, <1>3, <1>6 DEF P

-----------------------------------------------------------------------------
(* The count.                                                              *)

\* The types.
MemoryType ==
    /\ maxMemory \in Nat /\ used \in Int /\ highest \in Nat
    /\ cached \in [Thread -> [Class -> Nat]]
    /\ live \in [Class -> Nat]
    /\ creating \in [Thread -> Class \cup {Idle}]

\* There is a highest limit only while there is a limit, which is not above it.
HighestIs == highest = 0 \/ (maxMemory # 0 /\ maxMemory <= highest)

MemoryInv == MemoryType /\ HighestIs /\ MemoryLimited

\* What a class has from the system, and by how much a thread has raised the count.
Held(c) == SizeOf[c] * (live[c] + Spare(c))

RaisedBy(t) == IF creating[t] = Idle THEN 0 ELSE SizeOf[creating[t]]

SumsOfNat ==
    /\ \A c \in Class : Spare(c) \in Nat /\ Held(c) \in Nat
    /\ \A t \in Thread : RaisedBy(t) \in Nat
    /\ Taken \in Nat /\ Raised \in Nat
    /\ \A t \in Thread : Raised >= RaisedBy(t)

\* The sums have values, ...
LEMMA SumsAreNat == MemoryType => SumsOfNat
<1> SUFFICES ASSUME MemoryType PROVE SumsOfNat
  OBVIOUS
<1> USE MemoryAssumption
<1>1. ASSUME NEW c \in Class PROVE Spare(c) \in Nat /\ Held(c) \in Nat
  <2>1. Spare(c) \in Nat
    <3>1. [t \in Thread |-> cached[t][c]] \in [Thread -> Nat]
      BY DEF MemoryType
    <3> QED BY <3>1, SumOfNat DEF Spare
  <2>2. live[c] + Spare(c) \in Nat /\ SizeOf[c] \in Nat
    BY <2>1 DEF MemoryType
  <2>3. \A m, n \in Nat : m * n \in Nat
    OBVIOUS
  <2> QED BY <2>1, <2>2, <2>3 DEF Held
<1>2. ASSUME NEW t \in Thread PROVE RaisedBy(t) \in Nat
  BY DEF RaisedBy, MemoryType
<1>3. Taken \in Nat
  <2>1. [c \in Class |-> Held(c)] \in [Class -> Nat]
    BY <1>1
  <2> QED BY <2>1, SumOfNat DEF Taken, Held
<1>4. Raised \in Nat /\ \A t \in Thread : Raised >= RaisedBy(t)
  <2> DEFINE f == [t \in Thread |-> RaisedBy(t)]
  <2>1. f \in [Thread -> Nat]
    BY <1>2
  <2>2. Raised = SumFunction(f)
    BY DEF Raised, RaisedBy
  <2>3. SumFunction(f) \in Nat /\ \A t \in Thread : SumFunction(f) >= f[t]
    <3> HIDE DEF f
    <3> QED BY <2>1, SumOfNat
  <2> QED BY <2>2, <2>3
<1> QED BY <1>1, <1>2, <1>3, <1>4 DEF SumsOfNat

\* ... after a step, too.
LEMMA SumsAreNatAfter == MemoryType' => SumsOfNat'
BY SumsAreNat, PTL

\* A thread keeps more or fewer objects of a class.
LEMMA SpareChanges ==
    ASSUME MemoryType, NEW t \in Thread, NEW a \in Class, NEW n \in Nat,
           cached' = [cached EXCEPT ![t][a] = n]
    PROVE  /\ Spare(a)' = Spare(a) + (n - cached[t][a])
           /\ \A c \in Class \ {a} : Spare(c)' = Spare(c)
<1> USE MemoryAssumption
<1>1. ASSUME NEW c \in Class
      PROVE  /\ Spare(c) = SumFunction([u \in Thread |-> cached[u][c]])
             /\ Spare(c)' = SumFunction([u \in Thread |-> cached'[u][c]])
  BY DEF Spare
<1>2. \A u \in Thread, c \in Class :
         cached'[u][c] = IF u = t /\ c = a THEN n ELSE cached[u][c]
  BY DEF MemoryType
<1>3. Spare(a)' = Spare(a) + (n - cached[t][a])
  <2> DEFINE f == [u \in Thread |-> cached[u][a]]
             h == [u \in Thread |-> cached'[u][a]]
  <2>1. f \in [Thread -> Int] /\ h \in [Thread -> Int]
    BY <1>2 DEF MemoryType
  <2>2. h[t] = n /\ f[t] = cached[t][a] /\ \A u \in Thread \ {t} : h[u] = f[u]
    BY <1>2
  <2>3. SumFunction(h) = SumFunction(f) + (h[t] - f[t])
    <3> HIDE DEF f, h
    <3> QED BY <2>1, <2>2, SumChanges
  <2> QED BY <1>1, <2>2, <2>3
<1>4. ASSUME NEW c \in Class \ {a} PROVE Spare(c)' = Spare(c)
  <2>1. [u \in Thread |-> cached'[u][c]] = [u \in Thread |-> cached[u][c]]
    BY <1>2
  <2> QED BY <1>1, <2>1
<1> QED BY <1>3, <1>4

\* A class has n objects more or fewer from the system.
LEMMA TakenChanges ==
    ASSUME MemoryType, MemoryType', NEW a \in Class, NEW n \in Int,
           live'[a] + Spare(a)' = live[a] + Spare(a) + n,
           \A c \in Class \ {a} : live'[c] = live[c] /\ Spare(c)' = Spare(c)
    PROVE  Taken' = Taken + SizeOf[a] * n
<1> USE MemoryAssumption
<1> DEFINE f == [c \in Class |-> Held(c)]
           h == [c \in Class |-> Held(c)']
<1>1. Taken = SumFunction(f) /\ Taken' = SumFunction(h)
  BY DEF Taken, Held
<1>2. \A c \in Class : Spare(c) \in Nat /\ Held(c) \in Nat
  BY SumsAreNat DEF SumsOfNat
<1>3. \A c \in Class : Held(c)' \in Nat
  BY SumsAreNatAfter DEF SumsOfNat
<1>4. \A c \in Class \ {a} : h[c] = f[c]
  BY DEF Held
<1>5. h[a] - f[a] = SizeOf[a] * n
  <2>1. live[a] + Spare(a) \in Int /\ SizeOf[a] \in Int
    BY <1>2 DEF MemoryType
  <2>2. \A x, y, z \in Int : x * (y + z) = x * y + x * z
    OBVIOUS
  <2>3. h[a] = SizeOf[a] * (live[a] + Spare(a)) + SizeOf[a] * n
    BY <2>1, <2>2 DEF Held
  <2>4. f[a] = SizeOf[a] * (live[a] + Spare(a))
    BY DEF Held
  <2>5. SizeOf[a] * (live[a] + Spare(a)) \in Int /\ SizeOf[a] * n \in Int
    BY <2>1
  <2> QED BY <2>3, <2>4, <2>5
<1>6. f \in [Class -> Int] /\ h \in [Class -> Int]
  BY <1>2, <1>3
<1> HIDE DEF f, h
<1>7. SumFunction(h) = SumFunction(f) + (h[a] - f[a])
  BY <1>4, <1>6, SumChanges
<1> QED BY <1>1, <1>5, <1>7

\* Nothing of it changes.
LEMMA TakenSame ==
    ASSUME UNCHANGED <<live, cached>>
    PROVE  Taken' = Taken
BY DEF Taken, Spare

\* A thread raises the count, or ends to.
LEMMA RaisedChanges ==
    ASSUME MemoryType, MemoryType', NEW t \in Thread,
           \A u \in Thread \ {t} : creating'[u] = creating[u]
    PROVE  Raised' = Raised + (RaisedBy(t)' - RaisedBy(t))
<1> USE MemoryAssumption
<1> DEFINE f == [u \in Thread |-> RaisedBy(u)]
           h == [u \in Thread |-> RaisedBy(u)']
<1>1. Raised = SumFunction(f) /\ Raised' = SumFunction(h)
  BY DEF Raised, RaisedBy
<1>2. \A u \in Thread : RaisedBy(u) \in Nat
  BY SumsAreNat DEF SumsOfNat
<1>3. \A u \in Thread : RaisedBy(u)' \in Nat
  BY SumsAreNatAfter DEF SumsOfNat
<1>4. f \in [Thread -> Int] /\ h \in [Thread -> Int]
  BY <1>2, <1>3
<1>5. \A u \in Thread \ {t} : h[u] = f[u]
  BY DEF RaisedBy
<1>6. h[t] = RaisedBy(t)' /\ f[t] = RaisedBy(t)
  OBVIOUS
<1> HIDE DEF f, h
<1>7. SumFunction(h) = SumFunction(f) + (h[t] - f[t])
  BY <1>4, <1>5, SumChanges
<1> QED BY <1>1, <1>6, <1>7

-----------------------------------------------------------------------------
(* The theorems.                                                           *)

\* It holds at the start ...
LEMMA InitMemory == MemoryInit => MemoryInv
<1> SUFFICES ASSUME MemoryInit PROVE MemoryInv
  OBVIOUS
<1> USE MemoryAssumption
<1>1. Min(Limits) \in Nat
  <2>1. PICK m \in Limits : \A n \in Limits : ~(<<n, m>> \in OpToRel(<, Nat))
    BY NatLessThanWellFounded, WFMin
  <2>2. \A n \in Limits : ~(n < m)
    BY <2>1 DEF OpToRel
  <2>3. \A n \in Limits : m <= n
    BY <2>2
  <2>4. Min(Limits) \in Limits
    BY <2>3 DEF Min
  <2> QED BY <2>4
<1>2. MemoryType /\ HighestIs
  BY <1>1 DEF MemoryInit, MemoryType, HighestIs
<1>3. Taken = 0
  <2>1. ASSUME NEW c \in Class PROVE Spare(c) = 0
    <3>1. [t \in Thread |-> cached[t][c]] \in [Thread -> {0}]
      BY DEF MemoryInit
    <3> QED BY <3>1, SumOfZeros DEF Spare
  <2>2. [c \in Class |-> SizeOf[c] * (live[c] + Spare(c))] \in [Class -> {0}]
    BY <2>1 DEF MemoryInit
  <2> QED BY <2>2, SumOfZeros DEF Taken
<1>4. Raised = 0
  <2>1. [t \in Thread |-> IF creating[t] = Idle THEN 0 ELSE SizeOf[creating[t]]] \in [Thread -> {0}]
    BY DEF MemoryInit
  <2> QED BY <2>1, SumOfZeros DEF Raised
<1> QED BY <1>1, <1>2, <1>3, <1>4 DEF MemoryInv, MemoryLimited, MemoryInit

\* Creating an object, in its steps, keeps it: one that a thread has kept is used,
LEMMA CreateCachedKeeps ==
    ASSUME MemoryInv, NEW t \in Thread, NEW c \in Class, CreateCached(t, c)
    PROVE  MemoryInv'
<1>1. cached[t][c] \in Nat /\ cached[t][c] - 1 \in Nat /\ live[c] \in Nat
  BY DEF MemoryInv, MemoryType, CreateCached
<1>2. MemoryType'
  BY <1>1 DEF MemoryInv, MemoryType, CreateCached
<1>3. Raised' = Raised
  BY DEF Raised, CreateCached
<1>4. Taken' = Taken
  <2>1. /\ Spare(c)' = Spare(c) - 1
        /\ \A d \in Class \ {c} : Spare(d)' = Spare(d)
    <3>1. cached' = [cached EXCEPT ![t][c] = cached[t][c] - 1]
      BY DEF CreateCached
    <3>2. Spare(c) \in Nat
      BY SumsAreNat DEF SumsOfNat, MemoryInv
    <3>3. /\ Spare(c)' = Spare(c) + ((cached[t][c] - 1) - cached[t][c])
          /\ \A d \in Class \ {c} : Spare(d)' = Spare(d)
      BY <1>1, <3>1, SpareChanges DEF MemoryInv
    <3> QED BY <1>1, <3>2, <3>3
  <2>2. Spare(c) \in Nat /\ Taken \in Nat
    BY SumsAreNat DEF SumsOfNat, MemoryInv
  <2>3. live'[c] = live[c] + 1 /\ \A d \in Class \ {c} : live'[d] = live[d]
    BY DEF CreateCached, MemoryInv, MemoryType
  <2>4. Taken' = Taken + SizeOf[c] * 0
    <3>1. live'[c] + Spare(c)' = live[c] + Spare(c) + 0
      BY <1>1, <2>1, <2>2, <2>3
    <3> QED BY <1>2, <2>1, <2>3, <3>1, TakenChanges DEF MemoryInv
  <2> QED BY <2>2, <2>4, MemoryAssumption
<1> QED BY <1>2, <1>3, <1>4 DEF MemoryInv, HighestIs, MemoryLimited, CreateCached

\* the count is raised,
LEMMA RaiseKeeps ==
    ASSUME MemoryInv, NEW t \in Thread, NEW c \in Class, Raise(t, c)
    PROVE  MemoryInv'
<1> USE MemoryAssumption
<1>1. MemoryType'
  BY DEF MemoryInv, MemoryType, Raise
<1>2. Taken' = Taken
  BY TakenSame DEF Raise
<1>3. creating[t] = Idle /\ creating'[t] = c /\ \A u \in Thread \ {t} : creating'[u] = creating[u]
  BY DEF Raise, MemoryInv, MemoryType
<1>4. RaisedBy(t) = 0 /\ RaisedBy(t)' = SizeOf[c]
  BY <1>3 DEF RaisedBy
<1>5. Raised' = Raised + (SizeOf[c] - 0)
  BY <1>1, <1>3, <1>4, RaisedChanges DEF MemoryInv
<1>6. Taken \in Nat /\ Raised \in Nat /\ SizeOf[c] \in Nat
  BY SumsAreNat DEF SumsOfNat, MemoryInv
<1>7. used' = used + SizeOf[c] /\ UNCHANGED <<maxMemory, highest>>
  BY DEF Raise
<1> QED BY <1>1, <1>2, <1>5, <1>6, <1>7 DEF MemoryInv, HighestIs, MemoryLimited

\* and then memory is taken, if what is counted is allowed: it is as much as is taken
\* and will be,
LEMMA CreateKeeps ==
    ASSUME MemoryInv, NEW t \in Thread, Create(t)
    PROVE  MemoryInv'
<1> USE MemoryAssumption
<1>1. PICK c \in Class : c = creating[t]
  BY DEF Create, MemoryInv, MemoryType
<1>2. MemoryType'
  BY <1>1 DEF MemoryInv, MemoryType, Create
<1>3. creating'[t] = Idle /\ \A u \in Thread \ {t} : creating'[u] = creating[u]
  BY DEF Create, MemoryInv, MemoryType
<1>4. RaisedBy(t) = SizeOf[c] /\ RaisedBy(t)' = 0
  BY <1>1, <1>3 DEF RaisedBy
<1>5. Raised' = Raised + (0 - SizeOf[c])
  BY <1>2, <1>3, <1>4, RaisedChanges DEF MemoryInv
<1>6. Taken \in Nat /\ Raised \in Nat /\ Raised >= SizeOf[c] /\ SizeOf[c] \in Nat
  BY <1>1, <1>4, SumsAreNat DEF SumsOfNat, MemoryInv
<1>7. Taken' = Taken + SizeOf[c] * 1
  <2>1. /\ live'[c] = live[c] + 1 /\ live[c] \in Nat
        /\ \A d \in Class \ {c} : live'[d] = live[d]
    BY <1>1 DEF Create, MemoryInv, MemoryType
  <2>2. \A d \in Class : Spare(d)' = Spare(d) /\ Spare(d) \in Nat
    <3>1. \A d \in Class : Spare(d)' = Spare(d)
      BY DEF Spare, Create
    <3> QED BY <3>1, SumsAreNat DEF SumsOfNat, MemoryInv
  <2>3. live'[c] + Spare(c)' = live[c] + Spare(c) + 1
    <3>1. Spare(c)' = Spare(c) /\ Spare(c) \in Nat
      BY <1>1, <2>2
    <3> QED BY <2>1, <3>1
  <2> QED BY <1>1, <1>2, <2>1, <2>2, <2>3, TakenChanges DEF MemoryInv
<1>8. /\ used' = used /\ maxMemory' = maxMemory /\ highest' = highest
      /\ maxMemory = 0 \/ used <= maxMemory
  BY DEF Create, Allowed
<1>9. used = Taken + Raised /\ HighestIs /\ MemoryType
  BY DEF MemoryInv, MemoryLimited
<1>10. used = Taken' + Raised'
  BY <1>5, <1>6, <1>7, <1>9
<1>11. highest = 0 \/ Taken' <= highest
  <2> SUFFICES ASSUME highest # 0 PROVE Taken' <= highest
    OBVIOUS
  <2>1. maxMemory # 0 /\ maxMemory <= highest /\ maxMemory \in Nat /\ highest \in Nat
    BY <1>9 DEF HighestIs, MemoryType
  <2>2. Taken' <= used
    BY <1>6, <1>7, <1>9
  <2> QED BY <1>6, <1>7, <1>8, <1>9, <2>1, <2>2
<1> QED BY <1>2, <1>8, <1>9, <1>10, <1>11 DEF MemoryInv, HighestIs, MemoryLimited

\* or the count lowered.
LEMMA GiveBackKeeps ==
    ASSUME MemoryInv, NEW t \in Thread, GiveBack(t)
    PROVE  MemoryInv'
<1> USE MemoryAssumption
<1>1. PICK c \in Class : c = creating[t]
  BY DEF GiveBack, MemoryInv, MemoryType
<1>2. MemoryType'
  BY <1>1 DEF MemoryInv, MemoryType, GiveBack
<1>3. creating'[t] = Idle /\ \A u \in Thread \ {t} : creating'[u] = creating[u]
  BY DEF GiveBack, MemoryInv, MemoryType
<1>4. RaisedBy(t) = SizeOf[c] /\ RaisedBy(t)' = 0
  BY <1>1, <1>3 DEF RaisedBy
<1>5. Raised' = Raised + (0 - SizeOf[c])
  BY <1>2, <1>3, <1>4, RaisedChanges DEF MemoryInv
<1>6. Taken' = Taken
  BY TakenSame DEF GiveBack
<1>7. Taken \in Nat /\ Raised \in Nat /\ SizeOf[c] \in Nat
  BY <1>1, SumsAreNat DEF SumsOfNat, MemoryInv
<1>8. used' = used - SizeOf[c] /\ UNCHANGED <<maxMemory, highest>>
  BY <1>1 DEF GiveBack
<1> QED BY <1>2, <1>5, <1>6, <1>7, <1>8 DEF MemoryInv, HighestIs, MemoryLimited

\* An object that is destroyed is kept, or given back and no longer counted.
LEMMA DestroyKeeps ==
    ASSUME MemoryInv, NEW t \in Thread, NEW c \in Class, Destroy(t, c)
    PROVE  MemoryInv'
<1> USE MemoryAssumption
<1>1. /\ live[c] \in Nat /\ live[c] - 1 \in Nat /\ cached[t][c] \in Nat
      /\ live' = [live EXCEPT ![c] = @ - 1]
  BY DEF MemoryInv, MemoryType, Destroy
<1>2. live'[c] = live[c] - 1 /\ \A d \in Class \ {c} : live'[d] = live[d]
  BY <1>1 DEF MemoryInv, MemoryType
<1>3. Raised' = Raised /\ UNCHANGED <<maxMemory, creating, highest>>
  BY DEF Raised, Destroy
<1>4. Taken \in Nat /\ Raised \in Nat /\ SizeOf[c] \in Nat
        /\ \A d \in Class : Spare(d) \in Nat
  BY SumsAreNat DEF SumsOfNat, MemoryInv
<1>5. CASE cached[t][c] < CacheSize
  <2>1. cached' = [cached EXCEPT ![t][c] = cached[t][c] + 1] /\ used' = used
    BY <1>5 DEF Destroy
  <2>2. MemoryType'
    BY <1>1, <1>3, <2>1 DEF MemoryInv, MemoryType
  <2>3. Spare(c)' = Spare(c) + 1 /\ \A d \in Class \ {c} : Spare(d)' = Spare(d)
    <3>1. /\ Spare(c)' = Spare(c) + ((cached[t][c] + 1) - cached[t][c])
          /\ \A d \in Class \ {c} : Spare(d)' = Spare(d)
      <4>1. cached[t][c] + 1 \in Nat
        BY <1>1
      <4> QED BY <2>1, <4>1, SpareChanges DEF MemoryInv
    <3> QED BY <1>1, <1>4, <3>1
  <2>4. live'[c] + Spare(c)' = live[c] + Spare(c) + 0
    BY <1>1, <1>2, <1>4, <2>3
  <2>5. Taken' = Taken + SizeOf[c] * 0
    BY <1>2, <2>2, <2>3, <2>4, TakenChanges DEF MemoryInv
  <2>6. Taken' = Taken
    BY <1>4, <2>5
  <2> QED BY <1>3, <2>1, <2>2, <2>6 DEF MemoryInv, HighestIs, MemoryLimited
<1>6. CASE ~(cached[t][c] < CacheSize)
  <2>1. cached' = cached /\ used' = used - SizeOf[c]
    BY <1>6 DEF Destroy
  <2>2. MemoryType'
    BY <1>1, <1>3, <1>4, <2>1 DEF MemoryInv, MemoryType
  <2>3. \A d \in Class : Spare(d)' = Spare(d)
    BY <2>1 DEF Spare
  <2>4. live'[c] + Spare(c)' = live[c] + Spare(c) + (-1)
    BY <1>1, <1>2, <1>4, <2>3
  <2>5. Taken' = Taken + SizeOf[c] * (-1)
    BY <1>2, <2>2, <2>3, <2>4, TakenChanges DEF MemoryInv
  <2>6. Taken' = Taken - SizeOf[c]
    BY <1>4, <2>5
  <2>7. Taken' \in Nat
    BY <2>2, SumsAreNatAfter DEF SumsOfNat
  <2> QED BY <1>3, <1>4, <2>1, <2>2, <2>6, <2>7 DEF MemoryInv, MemoryType, HighestIs, MemoryLimited
<1> QED BY <1>5, <1>6

\* A new limit may be the highest, and then leaves room for what is taken.
LEMMA SetMaxMemoryKeeps ==
    ASSUME MemoryInv, NEW m \in Limits, SetMaxMemory(m)
    PROVE  MemoryInv'
<1>1. m \in Nat /\ highest \in Nat /\ Taken \in Nat
  BY SumsAreNat, MemoryAssumption DEF SumsOfNat, MemoryInv, MemoryType
<1>2. Max({m, highest}) \in Nat /\ Max({m, highest}) >= m /\ Max({m, highest}) >= highest
  <2>1. \E n \in {m, highest} : \A k \in {m, highest} : n >= k
    BY <1>1
  <2>2. Max({m, highest}) \in {m, highest} /\ \A k \in {m, highest} : Max({m, highest}) >= k
    BY <2>1 DEF Max
  <2> QED BY <1>1, <2>2
<1>3. MemoryType'
  BY <1>1, <1>2 DEF SetMaxMemory, MemoryInv, MemoryType
<1>4. Taken' = Taken /\ Raised' = Raised /\ used' = used
  BY TakenSame DEF SetMaxMemory, Raised
<1>5. HighestIs'
  BY <1>1, <1>2 DEF SetMaxMemory, HighestIs
<1>6. highest' = 0 \/ Taken <= highest'
  BY <1>1, <1>2 DEF SetMaxMemory, MemoryInv, MemoryLimited
<1> QED BY <1>3, <1>4, <1>5, <1>6 DEF MemoryInv, MemoryLimited

\* ... and every step keeps it.
LEMMA NextMemory == MemoryInv /\ [MemoryNext]_memoryVars => MemoryInv'
<1> SUFFICES ASSUME MemoryInv, [MemoryNext]_memoryVars PROVE MemoryInv'
  OBVIOUS
<1>1. CASE MemoryNext
  <2>1. ASSUME NEW t \in Thread, NEW c \in Class, CreateCached(t, c) PROVE MemoryInv'
    BY <2>1, CreateCachedKeeps
  <2>2. ASSUME NEW t \in Thread, NEW c \in Class, Raise(t, c) PROVE MemoryInv'
    BY <2>2, RaiseKeeps
  <2>3. ASSUME NEW t \in Thread, NEW c \in Class, Destroy(t, c) PROVE MemoryInv'
    BY <2>3, DestroyKeeps
  <2>4. ASSUME NEW t \in Thread, Create(t) PROVE MemoryInv'
    BY <2>4, CreateKeeps
  <2>5. ASSUME NEW t \in Thread, GiveBack(t) PROVE MemoryInv'
    BY <2>5, GiveBackKeeps
  <2>6. ASSUME NEW m \in Limits, SetMaxMemory(m) PROVE MemoryInv'
    BY <2>6, SetMaxMemoryKeeps
  <2> QED BY <1>1, <2>1, <2>2, <2>3, <2>4, <2>5, <2>6 DEF MemoryNext
<1>2. CASE UNCHANGED memoryVars
  BY <1>2 DEF memoryVars, MemoryInv, MemoryType, HighestIs, MemoryLimited, Taken, Spare, Raised
<1> QED BY <1>1, <1>2

\* However many threads create and destroy objects of whatever classes, and
\* whatever limits are set meanwhile, no more memory is taken than the highest
\* limit allows, and all of it is counted (Alloc::create, destroy).
THEOREM MemoryLimitedAlways == MemorySpec => []MemoryLimited
<1>1. MemoryInv => MemoryLimited
  BY DEF MemoryInv
<1> QED BY <1>1, InitMemory, NextMemory, PTL DEF MemorySpec
=============================================================================
