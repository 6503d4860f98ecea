------------------------- MODULE AlertDeliveryProofs -------------------------
(***************************************************************************)
(* Proofs about AlertDelivery for any number of alerts, producers'         *)
(* fingerprints, retries, crashes and any clock, and about Verdicts, what  *)
(* an alert is created from, for any stored data, replies and bounds.      *)
(***************************************************************************)
EXTENDS AlertDelivery, Verdicts, ScoringProofs, TLAPS

USE DEF Created, AlertId

(* The conjunction that is inductive. *)
TypeInv == TypeOK /\ RowsOK /\ IdsOK /\ DeliveryOK

(* What recover_pending reads is a sequence of alert ids. *)
LEMMA RecoveryListIsSeq ==
  ASSUME NEW n \in Nat, NEW S, NEW s \in [1..n -> S]
  PROVE  s \in Seq(S) /\ Len(s) = n
  OBVIOUS

(* Raising one counter keeps a function of counters one. *)
LEMMA BumpCounter ==
  ASSUME NEW S, NEW g \in [S -> Nat], NEW c \in S
  PROVE  [g EXCEPT ![c] = @ + 1] \in [S -> Nat]
  OBVIOUS

(* Length and elements of a queue with one id more. *)
LEMMA AppendFacts ==
  ASSUME NEW S, NEW q \in Seq(S), NEW e \in S
  PROVE  /\ Append(q, e) \in Seq(S)
         /\ Len(Append(q, e)) = Len(q) + 1
         /\ \A i \in 1..Len(q) : Append(q, e)[i] = q[i]
         /\ Append(q, e)[Len(q) + 1] = e
  OBVIOUS

(* What is left of a queue was in it. *)
LEMMA TailFacts ==
  ASSUME NEW S, NEW q \in Seq(S), q # <<>>
  PROVE  /\ Head(q) \in S /\ Head(q) = q[1] /\ 1 \in 1..Len(q)
         /\ Tail(q) \in Seq(S)
         /\ \A i \in 1..Len(Tail(q)) : i + 1 \in 1..Len(q) /\ Tail(q)[i] = q[i + 1]
  OBVIOUS

(* Everything the database, the queue and the workers hold keeps its type, *)
(* ids in memory name existing rows, and deliver_now() never works on a    *)
(* SENT row: the initial states ...                                        *)
LEMMA InitTypeInv == Init => TypeInv
  BY ConstantsOK DEF Init, TypeInv, TypeOK, ProcessTypes, RowTypes, ProducerTypes,
     QueueTypes, DeliveryTypes, GhostTypes, RowsOK, IdsOK, DeliveryOK, Status

(* ... and every step. *)
LEMMA NextTypeInv == TypeInv /\ [Next]_vars => TypeInv'
  <1> SUFFICES ASSUME ProcessTypes, RowTypes, ProducerTypes, QueueTypes, DeliveryTypes,
                      GhostTypes, RowsOK, IdsOK, DeliveryOK, [Next]_vars
               PROVE  TypeInv'
    BY DEF TypeInv, TypeOK
  <1> USE ConstantsOK DEF alertVars, producerVars, deliveryVars, ghostVars
  <1>1. ASSUME NEW p \in Path, BeginRun(p) PROVE TypeInv'
    <2>1. ProcessTypes' /\ RowTypes' /\ QueueTypes' /\ DeliveryTypes' /\ GhostTypes' /\ DeliveryOK'
      BY <1>1 DEF BeginRun, ProcessTypes, RowTypes, QueueTypes, DeliveryTypes,
         GhostTypes, DeliveryOK
    <2>2. ProducerTypes'
      BY <1>1 DEF BeginRun, ProducerTypes, ProcessTypes
    <2>3. RowsOK'
      BY <1>1 DEF BeginRun, RowsOK, ProcessTypes, ProducerTypes
    <2>4. IdsOK'
      BY <1>1 DEF BeginRun, IdsOK, ProducerTypes
    <2> QED
      BY <2>1, <2>2, <2>3, <2>4 DEF TypeInv, TypeOK
  <1>2. ASSUME NEW p \in Path, Put(p) PROVE TypeInv'
    <2>1. ProcessTypes' /\ RowTypes' /\ DeliveryTypes' /\ GhostTypes' /\ RowsOK' /\ DeliveryOK'
      BY <1>2 DEF Put, ProcessTypes, RowTypes, DeliveryTypes, GhostTypes, RowsOK,
         DeliveryOK
    <2>2. ProducerTypes'
      BY <1>2 DEF Put, ProducerTypes
    <2>3. QueueTypes'
      BY <1>2, AppendFacts, SMTT(30) DEF Put, QueueTypes, IdsOK, RowTypes
    <2>4. IdsOK'
      <3>1. held[p] \in AlertId
        BY <1>2 DEF Put, IdsOK, RowTypes
      <3>2. \A i \in 1..Len(queue') : queue'[i] \in Created
        BY <1>2, <3>1, AppendFacts DEF Put, IdsOK, QueueTypes
      <3> QED
        BY <1>2, <3>2 DEF Put, IdsOK, ProducerTypes
    <2> QED
      BY <2>1, <2>2, <2>3, <2>4 DEF TypeInv, TypeOK
  <1>3. ASSUME NEW p \in Path, NEW f \in Fingerprint, Process(p, f) PROVE TypeInv'
    <2>1. ProcessTypes' /\ QueueTypes' /\ DeliveryTypes' /\ GhostTypes'
      BY <1>3 DEF Process, ProcessTypes, QueueTypes, DeliveryTypes, GhostTypes
    <2>2. RowTypes'
      BY <1>3, SMTT(30) DEF Process, RowTypes, ProcessTypes, ProducerTypes, LogEvent,
         EventType, Status
    <2>3. ProducerTypes'
      BY <1>3 DEF Process, ProducerTypes, RowTypes
    <2>4. RowsOK'
      BY <1>3 DEF Process, RowsOK, RowTypes, ProcessTypes
    <2>5. IdsOK'
      <3>1. Created \subseteq Created' /\ lastId + 1 \in Created'
        BY <1>3 DEF Process, RowTypes
      <3>2. \A q \in Path : step'[q] = "put" => held'[q] \in Created'
        BY <1>3, <3>1 DEF Process, IdsOK, ProducerTypes
      <3> QED
        BY <1>3, <3>1, <3>2 DEF Process, IdsOK
    <2>6. DeliveryOK'
      BY <1>3 DEF Process, DeliveryOK, RowTypes, DeliveryTypes
    <2> QED
      BY <2>1, <2>2, <2>3, <2>4, <2>5, <2>6 DEF TypeInv, TypeOK
  <1>4. CASE TakeFromQueue
    <2>1. ProcessTypes' /\ RowTypes' /\ ProducerTypes' /\ GhostTypes' /\ RowsOK'
      BY <1>4 DEF TakeFromQueue, ProcessTypes, RowTypes, ProducerTypes, GhostTypes,
         RowsOK
    <2>2. QueueTypes'
      BY <1>4, TailFacts DEF TakeFromQueue, QueueTypes
    <2>3. DeliveryTypes'
      BY <1>4, TailFacts DEF TakeFromQueue, DeliveryTypes, QueueTypes, StartDelivery
    <2>4. IdsOK'
      BY <1>4, TailFacts DEF TakeFromQueue, IdsOK, QueueTypes
    <2>5. DeliveryOK'
      <3>1. Head(queue) \in Created
        BY <1>4, TailFacts DEF TakeFromQueue, QueueTypes, IdsOK
      <3>2. CASE status[Head(queue)] = "SENT"
        BY <1>4, <3>2 DEF TakeFromQueue, StartDelivery, DeliveryOK
      <3>3. CASE status[Head(queue)] # "SENT"
        BY <1>4, <3>1, <3>3 DEF TakeFromQueue, StartDelivery, DeliveryOK
      <3> QED
        BY <3>2, <3>3
    <2> QED
      BY <2>1, <2>2, <2>3, <2>4, <2>5 DEF TypeInv, TypeOK
  <1>5. CASE SendMessage
    <2>1. ProcessTypes' /\ RowTypes' /\ ProducerTypes' /\ QueueTypes' /\ RowsOK' /\ IdsOK'
      BY <1>5 DEF SendMessage, ProcessTypes, RowTypes, ProducerTypes, QueueTypes,
         RowsOK, IdsOK
    <2>2. DeliveryTypes'
      BY <1>5 DEF SendMessage, DeliveryTypes
    <2>3. GhostTypes'
      <3>1. cur \in AlertId
        BY <1>5 DEF SendMessage, DeliveryOK, RowTypes
      <3>2. /\ [received EXCEPT ![cur] = @ + 1] \in [AlertId -> Nat]
            /\ [lost EXCEPT ![cur] = @ + 1] \in [AlertId -> Nat]
        BY <3>1, BumpCounter DEF GhostTypes
      <3>3. /\ received' = received \/ received' = [received EXCEPT ![cur] = @ + 1]
            /\ lost' = lost \/ lost' = [lost EXCEPT ![cur] = @ + 1]
        BY <1>5 DEF SendMessage
      <3> QED
        BY <3>2, <3>3 DEF GhostTypes
    <2>4. DeliveryOK'
      BY <1>5 DEF SendMessage, DeliveryOK
    <2> QED
      BY <2>1, <2>2, <2>3, <2>4 DEF TypeInv, TypeOK
  <1>6. CASE RecordResult
    <2>1. ProcessTypes' /\ ProducerTypes' /\ QueueTypes' /\ GhostTypes' /\ IdsOK'
      BY <1>6 DEF RecordResult, ProcessTypes, ProducerTypes, QueueTypes, GhostTypes,
         IdsOK
    <2>2. RowTypes'
      BY <1>6 DEF RecordResult, RowTypes, LogEvent, EventType, Status, ResultStatus
    <2>3. DeliveryTypes'
      BY <1>6 DEF RecordResult, DeliveryTypes, DeliveryDone
    <2>4. RowsOK'
      BY <1>6 DEF RecordResult, RowsOK, RowTypes, DeliveryOK, DeliveryTypes
    <2>5. DeliveryOK'
      BY <1>6 DEF RecordResult, DeliveryOK, DeliveryDone, ResultStatus, DeliveryTypes,
         RowTypes
    <2> QED
      BY <2>1, <2>2, <2>3, <2>4, <2>5 DEF TypeInv, TypeOK
  <1>7. CASE DeliveryRaises
    <2>1. ProcessTypes' /\ RowTypes' /\ ProducerTypes' /\ QueueTypes' /\ RowsOK' /\ IdsOK'
      BY <1>7 DEF DeliveryRaises, ProcessTypes, RowTypes, ProducerTypes, QueueTypes,
         RowsOK, IdsOK
    <2>2. DeliveryTypes'
      BY <1>7 DEF DeliveryRaises, DeliveryTypes, DeliveryDone
    <2>3. GhostTypes'
      <3>1. cur \in AlertId
        BY <1>7 DEF DeliveryRaises, DeliveryOK, RowTypes
      <3> QED
        BY <1>7, <3>1, BumpCounter DEF DeliveryRaises, GhostTypes
    <2>4. DeliveryOK'
      BY <1>7 DEF DeliveryRaises, DeliveryOK, DeliveryDone
    <2> QED
      BY <2>1, <2>2, <2>3, <2>4 DEF TypeInv, TypeOK
  <1>8. CASE RetryAfterSleep
    <2>1. ProcessTypes' /\ RowTypes' /\ ProducerTypes' /\ QueueTypes' /\ GhostTypes' /\ RowsOK' /\ IdsOK'
      BY <1>8 DEF RetryAfterSleep, ProcessTypes, RowTypes, ProducerTypes, QueueTypes,
         GhostTypes, RowsOK, IdsOK
    <2>2. DeliveryTypes'
      BY <1>8 DEF RetryAfterSleep, DeliveryTypes, DeliveryOK
    <2>3. DeliveryOK'
      BY <1>8 DEF RetryAfterSleep, DeliveryOK, DeliveryTypes
    <2> QED
      BY <2>1, <2>2, <2>3 DEF TypeInv, TypeOK
  <1>9. CASE ExpireRead
    <2>1. ProcessTypes' /\ RowTypes' /\ ProducerTypes' /\ DeliveryTypes' /\ GhostTypes' /\ RowsOK' /\ DeliveryOK'
      BY <1>9 DEF ExpireRead, ProcessTypes, RowTypes, ProducerTypes, DeliveryTypes,
         GhostTypes, RowsOK, DeliveryOK
    <2>2. QueueTypes'
      BY <1>9 DEF ExpireRead, QueueTypes, Stale, RowTypes
    <2>3. IdsOK'
      BY <1>9 DEF ExpireRead, IdsOK, Stale
    <2> QED
      BY <2>1, <2>2, <2>3 DEF TypeInv, TypeOK
  <1>10. CASE ExpireWrite
    <2>1. ProcessTypes' /\ ProducerTypes' /\ DeliveryTypes'
      BY <1>10 DEF ExpireWrite, ProcessTypes, ProducerTypes, DeliveryTypes
    <2>2. RowTypes'
      BY <1>10 DEF ExpireWrite, RowTypes, LogEvent, EventType, Status
    <2>3. QueueTypes'
      BY <1>10 DEF ExpireWrite, QueueTypes
    <2>4. GhostTypes'
      BY <1>10 DEF ExpireWrite, GhostTypes
    <2>5. RowsOK'
      BY <1>10 DEF ExpireWrite, RowsOK, IdsOK, RowTypes
    <2>6. IdsOK'
      BY <1>10 DEF ExpireWrite, IdsOK
    <2>7. DeliveryOK'
      BY <1>10 DEF ExpireWrite, DeliveryOK, RowTypes
    <2> QED
      BY <2>1, <2>2, <2>3, <2>4, <2>5, <2>6, <2>7 DEF TypeInv, TypeOK
  <1>11. CASE Startup
    <2>1. RowTypes' /\ ProducerTypes' /\ QueueTypes' /\ DeliveryTypes' /\ GhostTypes' /\ RowsOK' /\ IdsOK' /\ DeliveryOK'
      BY <1>11 DEF Startup, RowTypes, ProducerTypes, QueueTypes, DeliveryTypes,
         GhostTypes, RowsOK, IdsOK, DeliveryOK
    <2>2. ProcessTypes'
      BY <1>11 DEF Startup, ProcessTypes
    <2> QED
      BY <2>1, <2>2 DEF TypeInv, TypeOK
  <1>12. CASE RecoverList
    <2>1. RowTypes' /\ ProducerTypes' /\ DeliveryTypes' /\ GhostTypes' /\ RowsOK' /\ DeliveryOK'
      BY <1>12 DEF RecoverList, RowTypes, ProducerTypes, DeliveryTypes, GhostTypes,
         RowsOK, DeliveryOK
    <2>2. ProcessTypes'
      BY <1>12 DEF RecoverList, ProcessTypes
    <2>3. QueueTypes'
      BY <1>12, RecoveryListIsSeq DEF RecoverList, QueueTypes
    <2>4. IdsOK'
      BY <1>12, RecoveryListIsSeq DEF RecoverList, IdsOK, IsRecoveryList, OpenRows
    <2> QED
      BY <2>1, <2>2, <2>3, <2>4 DEF TypeInv, TypeOK
  <1>13. CASE RecoverNext
    <2>1. ProcessTypes' /\ RowTypes' /\ ProducerTypes' /\ GhostTypes' /\ RowsOK'
      BY <1>13 DEF RecoverNext, ProcessTypes, RowTypes, ProducerTypes, GhostTypes,
         RowsOK
    <2>2. QueueTypes'
      BY <1>13, TailFacts DEF RecoverNext, QueueTypes
    <2>3. DeliveryTypes'
      BY <1>13, TailFacts DEF RecoverNext, DeliveryTypes, QueueTypes, StartDelivery
    <2>4. IdsOK'
      BY <1>13, TailFacts DEF RecoverNext, IdsOK, QueueTypes
    <2>5. DeliveryOK'
      <3>1. Head(recoverQ) \in Created
        BY <1>13, TailFacts DEF RecoverNext, QueueTypes, IdsOK
      <3>2. CASE status[Head(recoverQ)] = "SENT"
        BY <1>13, <3>2 DEF RecoverNext, StartDelivery, DeliveryOK
      <3>3. CASE status[Head(recoverQ)] # "SENT"
        BY <1>13, <3>1, <3>3 DEF RecoverNext, StartDelivery, DeliveryOK
      <3> QED
        BY <3>2, <3>3
    <2> QED
      BY <2>1, <2>2, <2>3, <2>4, <2>5 DEF TypeInv, TypeOK
  <1>14. CASE StartWorkers
    <2>1. RowTypes' /\ ProducerTypes' /\ QueueTypes' /\ DeliveryTypes' /\ GhostTypes' /\ RowsOK' /\ IdsOK' /\ DeliveryOK'
      BY <1>14 DEF StartWorkers, RowTypes, ProducerTypes, QueueTypes, DeliveryTypes,
         GhostTypes, RowsOK, IdsOK, DeliveryOK
    <2>2. ProcessTypes'
      BY <1>14 DEF StartWorkers, ProcessTypes
    <2> QED
      BY <2>1, <2>2 DEF TypeInv, TypeOK
  <1>15. CASE Crash
    <2>1. RowTypes'
      BY <1>15 DEF Crash, RowTypes
    <2>2. ProcessTypes'
      BY <1>15 DEF Crash, ProcessTypes
    <2>3. ProducerTypes'
      BY <1>15 DEF Crash, ProducerTypes
    <2>4. QueueTypes'
      BY <1>15 DEF Crash, QueueTypes
    <2>5. DeliveryTypes'
      BY <1>15 DEF Crash, DeliveryTypes, DeliveryDone
    <2>6. GhostTypes'
      <3>1. phase = "record" => cur \in AlertId
        BY DEF DeliveryOK, RowTypes
      <3> QED
        BY <1>15, <3>1, BumpCounter DEF Crash, GhostTypes
    <2>7. RowsOK'
      BY <1>15 DEF Crash, RowsOK, ProcessTypes
    <2>8. IdsOK'
      BY <1>15 DEF Crash, IdsOK
    <2>9. DeliveryOK'
      BY <1>15 DEF Crash, DeliveryOK, DeliveryDone
    <2> QED
      BY <2>1, <2>2, <2>3, <2>4, <2>5, <2>6, <2>7, <2>8, <2>9 DEF TypeInv, TypeOK
  <1>16. CASE Tick
    <2>1. RowTypes' /\ ProducerTypes' /\ QueueTypes' /\ DeliveryTypes' /\ GhostTypes' /\ IdsOK' /\ DeliveryOK'
      BY <1>16 DEF Tick, RowTypes, ProducerTypes, QueueTypes, DeliveryTypes,
         GhostTypes, IdsOK, DeliveryOK
    <2>2. ProcessTypes'
      BY <1>16 DEF Tick, ProcessTypes
    <2>3. RowsOK'
      BY <1>16, SMTT(30) DEF Tick, RowsOK, ProcessTypes, RowTypes, ProducerTypes
    <2> QED
      BY <2>1, <2>2, <2>3 DEF TypeInv, TypeOK
  <1>17. CASE UNCHANGED vars
    BY <1>17 DEF vars, TypeInv, TypeOK, ProcessTypes, RowTypes, ProducerTypes,
       QueueTypes, DeliveryTypes, GhostTypes, RowsOK, IdsOK, DeliveryOK
  <1> QED
    BY <1>1, <1>2, <1>3, <1>4, <1>5, <1>6, <1>7, <1>8, <1>9, <1>10, <1>11, <1>12, <1>13, <1>14, <1>15, <1>16, <1>17 DEF Next

(* Type correctness of every reachable state. *)
THEOREM TypeCorrect == Spec => []TypeOK
  <1>1. Spec => []TypeInv
    BY InitTypeInv, NextTypeInv, PTL DEF Spec
  <1> QED
    BY <1>1, PTL DEF TypeInv

(* The type invariant and its strengthening hold in every reachable state. *)
LEMMA TypeInvHolds == Spec => []TypeInv
  BY InitTypeInv, NextTypeInv, PTL DEF Spec

-----------------------------------------------------------------------------
(* Only three actions write the alerts and alert_events tables. *)
LEMMA RowWriters ==
  [Next]_vars => \/ \E p \in Path, f \in Fingerprint : Process(p, f)
                 \/ RecordResult
                 \/ ExpireWrite
                 \/ UNCHANGED alertVars
  BY DEF Next, vars, BeginRun, Put, TakeFromQueue, SendMessage, DeliveryRaises,
     RetryAfterSleep, ExpireRead, Startup, RecoverList, RecoverNext, StartWorkers,
     Crash, Tick, alertVars

TableInv == StatusHasEvent /\ ReissueOnlyAfterExpiry /\ CooldownSpacing

(* The three table invariants are inductive together with TypeInv: the     *)
(* dedup check sees the latest row only, and it is the induction           *)
(* hypothesis that makes every older row an expired one.                   *)
LEMMA NextTableInv == TypeInv /\ TableInv /\ [Next]_vars => TableInv'
  <1> SUFFICES ASSUME RowTypes, ProcessTypes, ProducerTypes, RowsOK, DeliveryOK,
                      StatusHasEvent, ReissueOnlyAfterExpiry, CooldownSpacing,
                      [Next]_vars
               PROVE  TableInv'
    BY DEF TypeInv, TypeOK, TableInv
  <1> USE ConstantsOK
  <1>1. ASSUME NEW p \in Path, NEW f \in Fingerprint, Process(p, f)
        PROVE  TableInv'
    <2> DEFINE n == lastId + 1
    <2>1. /\ lastId' = n /\ n \in AlertId /\ n \notin Created /\ fp'[n] = f
          /\ \A a \in Created : /\ a \in AlertId /\ a < n /\ fp'[a] = fp[a]
                                /\ createdAt'[a] = createdAt[a]
                                /\ status'[a] = status[a] /\ events'[a] = events[a]
          /\ createdAt'[n] = clock /\ status'[n] = "PENDING" /\ "CREATED" \in events'[n]
      BY <1>1 DEF Process, RowTypes, LogEvent
    <2>2. Created' = Created \cup {n}
      BY <2>1 DEF RowTypes
    <2>3. StatusHasEvent'
      BY <2>1, <2>2 DEF StatusHasEvent
    <2>4. ASSUME NEW a \in Created, fp[a] = f
          PROVE  "EXPIRED" \in events[a]
      <3> SUFFICES ASSUME "EXPIRED" \notin events[a] PROVE FALSE
        OBVIOUS
      <3>1. \A b \in Created : fp[b] = f => b <= a
        BY <2>4 DEF ReissueOnlyAfterExpiry, RowTypes
      <3>2. a \in LatestFor(f)
        BY <2>4, <3>1 DEF LatestFor
      <3>3. status[a] = "EXPIRED"
        BY <1>1, <3>2 DEF Process, DuplicateOf
      <3> QED
        BY <3>3 DEF StatusHasEvent
    <2>5. ReissueOnlyAfterExpiry'
      <3> SUFFICES ASSUME NEW a \in Created', NEW b \in Created', a < b, fp'[a] = fp'[b]
                   PROVE  "EXPIRED" \in events'[a]
        BY DEF ReissueOnlyAfterExpiry
      <3>1. a \in Created /\ (b \in Created \/ b = n)
        BY <2>1, <2>2 DEF RowTypes
      <3>2. CASE b \in Created
        BY <2>1, <3>1, <3>2 DEF ReissueOnlyAfterExpiry
      <3>3. CASE b = n
        BY <2>1, <2>4, <3>1, <3>3
      <3> QED
        BY <3>1, <3>2, <3>3
    <2>6. ASSUME NEW a \in Created, SignalOf[fp[a]] = SignalOf[f]
          PROVE  createdAt[a] + Cooldown < clock
      <3>1. ~(createdAt[a] + Cooldown >= moment[p])
        BY <1>1, <2>6 DEF Process, CoolingDown
      <3>2. createdAt[a] \in Nat /\ moment[p] \in Nat /\ clock \in Nat
        <4>1. a \in AlertId
          BY <2>1
        <4>2. createdAt[a] \in 0..MaxTime
          BY <4>1 DEF RowTypes
        <4>3. moment[p] \in 0..MaxTime
          BY DEF ProducerTypes
        <4>4. clock \in 0..MaxTime
          BY DEF ProcessTypes
        <4> QED
          BY <4>2, <4>3, <4>4
      <3> QED
        BY <3>1, <3>2 DEF RowsOK
    <2>7. CooldownSpacing'
      <3> SUFFICES ASSUME NEW a \in Created', NEW b \in Created', a < b,
                          SignalOf[fp'[a]] = SignalOf[fp'[b]]
                   PROVE  createdAt'[a] + Cooldown < createdAt'[b]
        BY DEF CooldownSpacing
      <3>1. a \in Created /\ (b \in Created \/ b = n)
        BY <2>1, <2>2 DEF RowTypes
      <3>2. CASE b \in Created
        BY <2>1, <3>1, <3>2 DEF CooldownSpacing
      <3>3. CASE b = n
        BY <2>1, <2>6, <3>1, <3>3
      <3> QED
        BY <3>1, <3>2, <3>3
    <2> QED
      BY <2>3, <2>5, <2>7 DEF TableInv
  <1>2. CASE RecordResult
    <2>1. /\ lastId' = lastId /\ fp' = fp /\ createdAt' = createdAt
          /\ \A a \in AlertId : events[a] \subseteq events'[a]
          /\ \A a \in AlertId : a # cur => status'[a] = status[a]
          /\ cur \in AlertId => /\ status'[cur] = ResultStatus
                               /\ ResultStatus \in events'[cur]
      BY <1>2 DEF RecordResult, LogEvent, RowTypes
    <2>2. Created \subseteq AlertId
      BY DEF RowTypes
    <2>3. StatusHasEvent'
      BY <2>1, <2>2 DEF StatusHasEvent
    <2> QED
      BY <2>1, <2>2, <2>3 DEF TableInv, ReissueOnlyAfterExpiry, CooldownSpacing
  <1>3. CASE ExpireWrite
    <2>1. /\ lastId' = lastId /\ fp' = fp /\ createdAt' = createdAt
          /\ \A a \in AlertId : events[a] \subseteq events'[a]
          /\ \A a \in AlertId \ expiring : status'[a] = status[a]
          /\ \A a \in AlertId \cap expiring :
               status'[a] = "EXPIRED" /\ "EXPIRED" \in events'[a]
      BY <1>3 DEF ExpireWrite, LogEvent, RowTypes
    <2>2. Created \subseteq AlertId
      BY DEF RowTypes
    <2>3. StatusHasEvent'
      BY <2>1, <2>2 DEF StatusHasEvent
    <2> QED
      BY <2>1, <2>2, <2>3 DEF TableInv, ReissueOnlyAfterExpiry, CooldownSpacing
  <1>4. CASE UNCHANGED alertVars
    BY <1>4 DEF alertVars, TableInv, StatusHasEvent, ReissueOnlyAfterExpiry, CooldownSpacing
  <1> QED
    BY <1>1, <1>2, <1>3, <1>4, RowWriters

(* The invariant of the two tables holds in every reachable state. *)
LEMMA TableInvHolds == Spec => []TableInv
  <1>1. Init => TableInv
    BY DEF Init, TableInv, StatusHasEvent, ReissueOnlyAfterExpiry, CooldownSpacing
  <1> QED
    BY <1>1, NextTableInv, TypeInvHolds, PTL DEF Spec

(* A fingerprint is reused only after every earlier alert that had it was  *)
(* expired, for any interleaving of producers, deliveries, expiry runs and *)
(* crashes (AlertDeduplicator.check).                                      *)
THEOREM ReissueTheorem == Spec => []ReissueOnlyAfterExpiry
  BY TableInvHolds, PTL DEF TableInv

(* Alerts of one symbol and signal type are more than the cooldown apart   *)
(* (AlertThrottler.check), whatever the delay between a run's start and    *)
(* the insert.                                                             *)
THEOREM CooldownTheorem == Spec => []CooldownSpacing
  BY TableInvHolds, PTL DEF TableInv

(* The status column is always backed by its audit event. *)
THEOREM AuditTheorem == Spec => []StatusHasEvent
  BY TableInvHolds, PTL DEF TableInv
-----------------------------------------------------------------------------
(* Copies and acknowledgements: every action that sends, records, loses or *)
(* overwrites an acknowledgement keeps received within lost, plus one for  *)
(* an alert that is SENT or whose ok answer is about to be recorded.       *)
LEMMA NextAcksOK == TypeInv /\ AcksOK /\ [Next]_vars => AcksOK'
  <1> SUFFICES ASSUME RowTypes, QueueTypes, DeliveryTypes, GhostTypes, RowsOK, IdsOK,
                      DeliveryOK, AcksOK, [Next]_vars,
                      NEW a \in AlertId
               PROVE  /\ received'[a] <= lost'[a] + 1
                      /\ ~Acknowledged(a)' => received'[a] <= lost'[a]
    BY DEF TypeInv, TypeOK, AcksOK
  <1> USE DEF alertVars, producerVars, deliveryVars, ghostVars, Acknowledged
  <1>a. /\ received[a] \in Nat /\ lost[a] \in Nat
        /\ received[a] <= lost[a] + 1
        /\ ~Acknowledged(a) => received[a] <= lost[a]
        /\ phase # "idle" => cur \in AlertId /\ status[cur] # "SENT"
    <2>1. received[a] \in Nat /\ lost[a] \in Nat
      BY DEF GhostTypes
    <2>2. phase # "idle" => cur \in AlertId /\ status[cur] # "SENT"
      BY ConstantsOK DEF DeliveryOK, RowTypes
    <2> QED
      BY <2>1, <2>2 DEF AcksOK
  <1>1. ASSUME NEW p \in Path, NEW f \in Fingerprint, Process(p, f)
        PROVE  received' = received /\ lost' = lost /\ (Acknowledged(a) => Acknowledged(a)')
    BY <1>1 DEF Process, RowTypes, RowsOK
  <1>2. ASSUME TakeFromQueue \/ RecoverNext
        PROVE  received' = received /\ lost' = lost /\ (Acknowledged(a) => Acknowledged(a)')
    <2>1. cur = 0 => phase = "idle"
      BY DEF DeliveryOK, RowTypes
    <2>2. cur = 0 /\ received' = received /\ lost' = lost /\ status' = status
      BY <1>2 DEF TakeFromQueue, RecoverNext
    <2> QED
      BY <2>1, <2>2
  <1>3. CASE SendMessage
    <2>1. CASE a # cur
      BY <1>3, <1>a, <2>1 DEF SendMessage, GhostTypes
    <2>2. CASE a = cur
      <3>1. received[a] <= lost[a]
        BY <1>3, <1>a, <2>2 DEF SendMessage
      <3>2. \/ received' = received /\ lost' = lost
            \/ /\ received' = [received EXCEPT ![cur] = @ + 1] /\ lost' = lost
               /\ Acknowledged(a)'
            \/ /\ received' = [received EXCEPT ![cur] = @ + 1]
               /\ lost' = [lost EXCEPT ![cur] = @ + 1]
        BY <1>3, <2>2 DEF SendMessage
      <3>3. /\ [received EXCEPT ![cur] = @ + 1][a] = received[a] + 1
            /\ [lost EXCEPT ![cur] = @ + 1][a] = lost[a] + 1
        BY <2>2 DEF GhostTypes
      <3> HIDE DEF Acknowledged
      <3> QED
        BY <1>a, <3>1, <3>2, <3>3
    <2> QED
      BY <2>1, <2>2
  <1>4. ASSUME RecordResult
        PROVE  received' = received /\ lost' = lost /\ (Acknowledged(a) => Acknowledged(a)')
    BY <1>4, <1>a DEF RecordResult, ResultStatus, DeliveryDone, RowTypes
  <1>5. ASSUME DeliveryRaises \/ Crash
        PROVE  /\ received' = received
               /\ \/ lost' = lost /\ (Acknowledged(a) => Acknowledged(a)')
                  \/ lost' = [lost EXCEPT ![cur] = @ + 1]
                     /\ (a # cur => (Acknowledged(a) => Acknowledged(a)'))
    BY <1>5 DEF DeliveryRaises, Crash, DeliveryDone
  <1>6. CASE ExpireWrite
    <2>1. CASE a \in expiring /\ status[a] = "SENT"
      BY <1>6, <1>a, <2>1 DEF ExpireWrite
    <2>2. CASE ~(a \in expiring /\ status[a] = "SENT")
      BY <1>6, <1>a, <2>2 DEF ExpireWrite
    <2> QED
      BY <2>1, <2>2
  <1>7. ASSUME RetryAfterSleep
        PROVE  received' = received /\ lost' = lost /\ (Acknowledged(a) => Acknowledged(a)')
    BY <1>7 DEF RetryAfterSleep
  <1>8. ASSUME \/ \E p \in Path : BeginRun(p) \/ Put(p)
               \/ ExpireRead \/ Startup \/ RecoverList \/ StartWorkers \/ Tick
               \/ UNCHANGED vars
        PROVE  received' = received /\ lost' = lost /\ (Acknowledged(a) => Acknowledged(a)')
    BY <1>8 DEF BeginRun, Put, ExpireRead, Startup, RecoverList, StartWorkers, Tick, vars
  <1>9. CASE DeliveryRaises \/ Crash
    <2>1. [lost EXCEPT ![cur] = @ + 1][a] = IF a = cur THEN lost[a] + 1 ELSE lost[a]
      BY DEF GhostTypes
    <2> HIDE DEF Acknowledged
    <2>2. received' = received
      BY <1>5, <1>9
    <2>3. CASE lost' = lost /\ (Acknowledged(a) => Acknowledged(a)')
      BY <1>a, <2>2, <2>3
    <2>4. CASE lost' = [lost EXCEPT ![cur] = @ + 1] /\ a = cur
      BY <1>a, <2>1, <2>2, <2>4
    <2>5. CASE /\ lost' = [lost EXCEPT ![cur] = @ + 1] /\ a # cur
               /\ Acknowledged(a) => Acknowledged(a)'
      BY <1>a, <2>1, <2>2, <2>5
    <2> QED
      BY <1>5, <1>9, <2>3, <2>4, <2>5
  <1> QED
    BY <1>1, <1>2, <1>3, <1>4, <1>6, <1>7, <1>8, <1>9, <1>a DEF Next

(* The accounting of copies and lost answers holds in every reachable state. *)
LEMMA AcksHold == Spec => []AcksOK
  <1>1. Init => AcksOK
    BY DEF Init, AcksOK
  <1> QED
    BY <1>1, NextAcksOK, TypeInvHolds, PTL DEF Spec

(* An extra copy of an alert in the chat is always explained by an         *)
(* acknowledgement that was lost on the way into the database.             *)
THEOREM DuplicatesTheorem == Spec => []DuplicatesAreLostAcks
  <1>1. TypeInv /\ AcksOK => DuplicatesAreLostAcks
    BY ConstantsOK DEF TypeInv, TypeOK, RowTypes, AcksOK, DuplicatesAreLostAcks
  <1> QED
    BY <1>1, AcksHold, TypeInvHolds, PTL

(* deliver_now() sends no copy of a row while it is SENT. *)
THEOREM SentTheorem == Spec => SentIsNotResent
  <1>1. TypeInv /\ [Next]_vars
          => [\A a \in AlertId : status[a] = "SENT" => received'[a] = received[a]]_vars
    <2> SUFFICES ASSUME DeliveryOK, GhostTypes, [Next]_vars,
                        NEW a \in AlertId, status[a] = "SENT"
                 PROVE  received'[a] = received[a]
      BY DEF TypeInv, TypeOK
    <2>1. SendMessage => cur # a /\ received' \in {received, [received EXCEPT ![cur] = @ + 1]}
      BY DEF SendMessage, DeliveryOK, ghostVars
    <2>2. ~SendMessage => received' = received
      BY DEF Next, vars, BeginRun, Put, Process, TakeFromQueue, RecordResult, DeliveryRaises,
         RetryAfterSleep, ExpireRead, ExpireWrite, Startup, RecoverList, RecoverNext,
         StartWorkers, Crash, Tick, ghostVars
    <2> QED
      BY <2>1, <2>2 DEF GhostTypes
  <1> QED
    BY <1>1, TypeInvHolds, PTL DEF Spec, SentIsNotResent

HIDE DEF Created, AlertId

-----------------------------------------------------------------------------
(* The verdicts on a symbol: snapshots                                     *)

(* What a merged row holds. *)
LEMMA MergedGet ==
  ASSUME NEW f, NEW g, NEW k
  PROVE  Get(Merged(f, g), k) = IF k \in DOMAIN f THEN f[k] ELSE Get(g, k)
  BY DEF Merged, Get, Value

LEMMA MergedDomain ==
  ASSUME NEW f, NEW g
  PROVE  DOMAIN Merged(f, g) = DOMAIN f \cup DOMAIN g
  BY DEF Merged

(* The levels the compounding assessment reads, each a number or unknown, and *)
(* a fundamental score that is a score or unknown.                            *)
Levels == LevelFields \cup {"price", "swing_low"}
LevelsOK(snap) ==
  /\ \A k \in Levels : Get(snap, k) \in Stored
  /\ Get(snap, "fundamental_score") = None \/ Get(snap, "fundamental_score") \in FullScore

(* What a candidate's snapshot says of the candidate itself. *)
CandidateFields ==
  {"universe", "setup_state", "feature_date", "technical_factors", "technical_score",
   "fundamental_score", "fundamental_status", "overall_score", "quality", "price"}

(* A candidate's row was built from features of the day it names, and its    *)
(* score is the one its snapshot shows.                                      *)
CandidateOK(r) ==
  r.scanner \in Candidate =>
    /\ CandidateFields \subseteq DOMAIN r.snap
    /\ r.seen \in Nat /\ Get(r.snap, "feature_date") = r.seen
    /\ Get(r.snap, "technical_score") \in FullScore
    /\ r.score \in FullScore /\ Get(r.snap, "overall_score") = r.score

(* The date of a listed row is that of its features, and nothing else says   *)
(* how old they are.                                                         *)
ListedOK(r) ==
  r.scanner \in Listed \ {"orb_v1"} =>
    r.seen \in Nat /\ r.date = r.seen /\ Get(r.snap, "feature_date") = None

(* What the scanner validated is what the rules require.                     *)
RequiredOK(r) ==
  r.status = "qualified" =>
    \/ HasRequired(r)
    \/ r.scanner \in {"vcp_v1", "momentum_v1", "orb_v1"}
    \/ r.scanner \in Candidate /\ Get(r.snap, "universe") = "IPO"

RowShape(r) ==
  /\ r = [scanner |-> r.scanner, date |-> r.date, status |-> r.status, score |-> r.score,
          snap |-> r.snap, seen |-> r.seen]
  /\ r.snap = [k \in DOMAIN r.snap |-> r.snap[k]]
  /\ r.scanner \in Scanner
RowOK(r) == RowShape(r) /\ LevelsOK(r.snap) /\ CandidateOK(r) /\ ListedOK(r) /\ RequiredOK(r)

LEMMA Fields ==
  /\ BreakoutFields \subseteq FeatureFields /\ LevelFields \subseteq FeatureFields
  /\ {"feature_date", "fundamental_score", "price", "session_vwap"} \cap FeatureFields = {}
  BY DEF BreakoutFields, LevelFields, FeatureFields

(* A candidate's snapshot: its own entries, and the features for the rest.   *)
LEMMA BuildLemma ==
  ASSUME NEW s, NEW d, NEW m
  PROVE  /\ DOMAIN BuildCandidate(s, d, m) = CandidateFields
         /\ BuildCandidate(s, d, m).price = Price(d)
         /\ BuildCandidate(s, d, m).universe = UniverseOf(s, m)
         /\ BuildCandidate(s, d, m).feature_date = d.daily.date
         /\ BuildCandidate(s, d, m).fundamental_score = None
         /\ BuildCandidate(s, d, m).technical_score =
              TechnicalScore(TechnicalFactors(Price(d), d.daily, Vwap(d)))
         /\ BuildCandidate(s, d, m).overall_score =
              TechnicalScore(TechnicalFactors(Price(d), d.daily, Vwap(d)))
<1>1. FundamentalScore(None) = None
  BY DEF FundamentalScore
<1>2. \A t : CombineScores(None, t) = t
  BY DEF CombineScores
<1> QED BY <1>1, <1>2 DEF BuildCandidate, CandidateFields

LEMMA CandidateGet ==
  ASSUME NEW s, NEW d, FeaturesOK(d.daily), NEW m, NEW c
  PROVE  LET snap == Merged([alert_category |-> c], CandidateSnapshot(s, d, m)) IN
         /\ \A k \in CandidateFields : Get(snap, k) = BuildCandidate(s, d, m)[k]
         /\ \A k \in FeatureFields : Get(snap, k) = d.daily[k]
         /\ CandidateFields \subseteq DOMAIN snap
<1> DEFINE b == BuildCandidate(s, d, m)
           e == [session_vwap |-> Vwap(d)]
           a == [alert_category |-> c]
<1>1. DOMAIN b = CandidateFields /\ DOMAIN d.daily = FeatureFields
  BY BuildLemma DEF FeaturesOK
<1>2. /\ DOMAIN a = {"alert_category"} /\ "alert_category" \notin CandidateFields \cup FeatureFields
      /\ CandidateFields \cap FeatureFields = {}
  BY DEF CandidateFields, FeatureFields
<1> HIDE DEF a, b, e
<1>3. \A k \in CandidateFields \cup FeatureFields :
        Get(Merged(a, Merged(b, Merged(d.daily, e))), k) = IF k \in CandidateFields THEN b[k] ELSE d.daily[k]
  BY <1>1, <1>2, MergedGet
<1>4. CandidateFields \subseteq DOMAIN Merged(a, Merged(b, Merged(d.daily, e)))
  <2>1. /\ DOMAIN Merged(a, Merged(b, Merged(d.daily, e)))
             = DOMAIN a \cup DOMAIN Merged(b, Merged(d.daily, e))
        /\ DOMAIN Merged(b, Merged(d.daily, e)) = DOMAIN b \cup DOMAIN Merged(d.daily, e)
    BY MergedDomain
  <2> QED BY <1>1, <2>1
<1> QED BY <1>2, <1>3, <1>4 DEF CandidateSnapshot, a, b, e

(* A listed scanner's snapshot is the price and the features, an opening-    *)
(* range one the price and the session.                                      *)
LEMMA ListedGet ==
  ASSUME NEW d, FeaturesOK(d.daily), NEW k
  PROVE  Get(ListedSnapshot(d), k) =
           IF k = "price" THEN Price(d) ELSE IF k \in FeatureFields THEN d.daily[k] ELSE None
<1>1. DOMAIN d.daily = FeatureFields
  BY DEF FeaturesOK
<1>2. Get(d.daily, k) = IF k \in FeatureFields THEN d.daily[k] ELSE None
  BY <1>1 DEF Get, Value
<1> QED BY <1>2, MergedGet DEF ListedSnapshot
LEMMA OrbGet ==
  ASSUME NEW d, d.session \in SessionRows, NEW k \in LevelFields \cup {"price", "fundamental_score"}
  PROVE  Get(OrbSnapshot(d), k) = IF k = "price" THEN Price(d) ELSE None
<1>1. DOMAIN d.session = {"date", "opening_range_high", "opening_range_low", "session_vwap"}
  BY DEF SessionRows
<1>2. k = "price" \/ k \notin DOMAIN d.session \cup {"price", "price_date"}
  BY <1>1 DEF LevelFields
<1>3. k # "price" => Get(d.session, k) = None
  BY <1>2 DEF Get, Value
<1> QED BY <1>2, <1>3, MergedGet DEF OrbSnapshot

(* What a scanner that may scan has to read. *)
LEMMA ContextLemma ==
  ASSUME NEW s \in Scanner, NEW d, HasContext(s, d)
  PROVE  /\ s = "orb_v1" => d.session # None
         /\ s \in Candidate => d.daily # None /\ d.bar # None
         /\ s \in Listed \ {"orb_v1"} => d.daily # None
<1>1. "orb_v1" \notin Candidate /\ Listed \cap Candidate = {}
  BY DEF Listed, Candidate
<1>2. CASE s = "orb_v1"
  BY <1>1, <1>2 DEF HasContext
<1>3. CASE s \in Candidate
  <2>1. s # "orb_v1"
    BY <1>1, <1>3
  <2>2. d.daily # None /\ d.bar # None
    BY <1>3, <2>1, Zenon DEF HasContext
  <2> QED BY <1>1, <1>3, <2>1, <2>2
<1>4. CASE s \in Listed \ {"orb_v1"}
  <2>1. s # "orb_v1" /\ s \notin Candidate
    BY <1>1, <1>4
  <2>2. d.daily # None
    BY <2>1, Zenon DEF HasContext
  <2> QED BY <2>1, <2>2
<1> QED BY <1>2, <1>3, <1>4 DEF Scanner

LEMMA DataShape ==
  ASSUME NEW d, StoredOK(d)
  PROVE  /\ d.daily # None => FeaturesOK(d.daily)
         /\ Price(d) \in Stored /\ (d.bar # None => Price(d) # None)
<1>1. d.bar # None => d.bar.close \in Nat
  BY DEF StoredOK, BarRows
<1>2. None \notin Nat
  BY DataOK
<1> QED BY <1>1, <1>2 DEF StoredOK, Price, Stored

(* Which snapshot, date and validation a scanner has. *)
LEMMA ScannerLemma ==
  ASSUME NEW s \in Scanner, NEW d, NEW m, NEW today
  PROVE  /\ s = "orb_v1" => Snapshot(s, d, m) = OrbSnapshot(d)
         /\ s \in Candidate => /\ Snapshot(s, d, m) = CandidateSnapshot(s, d, m)
                               /\ Valid(s, d, m) => CandidateValid(s, d, m)
                               /\ s \notin Listed
         /\ s \in Listed \ {"orb_v1"} => /\ Snapshot(s, d, m) = ListedSnapshot(d)
                                         /\ ScanDate(s, d, today) = d.daily.date
                                         /\ s \notin Candidate
         /\ s = "breakout_v1" /\ Valid(s, d, m) =>
              Price(d) # None /\ \A k \in BreakoutFields : d.daily[k] # None
<1>1. /\ "orb_v1" \notin Candidate /\ Listed \cap Candidate = {}
      /\ Candidate \cap {"breakout_v1", "vcp_v1", "momentum_v1", "orb_v1"} = {}
  BY DEF Listed, Candidate
<1>2. CASE s = "orb_v1"
  BY <1>1, <1>2 DEF Snapshot
<1>3. CASE s \in Candidate
  <2>1. s \notin {"breakout_v1", "vcp_v1", "momentum_v1", "orb_v1"}
    BY <1>1, <1>3
  <2>2. Snapshot(s, d, m) = CandidateSnapshot(s, d, m)
    BY <1>3, <2>1, Zenon DEF Snapshot
  <2>3. Valid(s, d, m) => CandidateValid(s, d, m)
    BY <2>1, Zenon DEF Valid
  <2> QED BY <1>1, <1>3, <2>1, <2>2, <2>3
<1>4. CASE s \in Listed \ {"orb_v1"}
  <2>1. s # "orb_v1" /\ s \notin Candidate
    BY <1>1, <1>4
  <2>2. Snapshot(s, d, m) = ListedSnapshot(d) /\ ScanDate(s, d, today) = d.daily.date
    BY <2>1, Zenon DEF Snapshot, ScanDate
  <2>3. ASSUME s = "breakout_v1", Valid(s, d, m)
        PROVE  Price(d) # None /\ \A k \in BreakoutFields : d.daily[k] # None
    <3>1. Price(d) # None /\ Missing(d.daily, BreakoutFields) = {}
      BY <2>3, Zenon DEF Valid
    <3> QED BY <3>1 DEF Missing
  <2> QED BY <2>1, <2>2, <2>3
<1> QED BY <1>2, <1>3, <1>4 DEF Scanner

(* A snapshot whose levels are those of the stored features. *)
LEMMA LevelsLemma ==
  ASSUME NEW d, StoredOK(d), NEW snap, Get(snap, "price") = Price(d),
         \A k \in LevelFields : Get(snap, k) \in Stored, Get(snap, "fundamental_score") = None
  PROVE  LevelsOK(snap)
  BY DataShape DEF LevelsOK, Levels, LevelFields

LEMMA ScoreFacts ==
  ASSUME NEW s, NEW d, FeaturesOK(d.daily), NEW m
  PROVE  /\ BuildCandidate(s, d, m).technical_score \in FullScore
         /\ BuildCandidate(s, d, m).overall_score \in FullScore
<1>1. d.daily.trend_direction \in Direction
  BY DEF FeaturesOK, Direction
<1>2. TechnicalScore(TechnicalFactors(Price(d), d.daily, Vwap(d))) \in FullScore
  BY <1>1, TechnicalLemma
<1>3. /\ BuildCandidate(s, d, m).technical_score = TechnicalScore(TechnicalFactors(Price(d), d.daily, Vwap(d)))
      /\ BuildCandidate(s, d, m).overall_score = TechnicalScore(TechnicalFactors(Price(d), d.daily, Vwap(d)))
  BY BuildLemma
<1>4. BuildCandidate(s, d, m).technical_score \in FullScore
  BY <1>2, <1>3
<1>5. BuildCandidate(s, d, m).overall_score \in FullScore
  BY <1>2, <1>3
<1> QED BY <1>4, <1>5

(* The row a scan saves. *)
LEMMA RowForOK ==
  ASSUME StoredOK(data), NEW s \in Scanned
  PROVE  RowOK(RowFor(s))
<1> DEFINE q == Qualifies(s, data, member)
           snap == Annotated(s, q)
           r == RowFor(s)
<1> SUFFICES RowOK(r)
  OBVIOUS
<1>1. s \in Scanner /\ HasContext(s, data) /\ Valid(s, data, member)
  BY DEF Scanned
<1>2. /\ r.scanner = s /\ r.date = ScanDate(s, data, day) /\ r.score = ScoreOf(s, data, member)
      /\ r.snap = snap /\ r.seen = IF data.daily = None THEN None ELSE data.daily.date
      /\ r.status = IF q THEN "qualified" ELSE "rejected"
  BY DEF RowFor
<1>3. r = [scanner |-> r.scanner, date |-> r.date, status |-> r.status, score |-> r.score,
           snap |-> r.snap, seen |-> r.seen]
  BY DEF RowFor
<1>4. data.daily # None => FeaturesOK(data.daily) /\ data.daily.date \in Nat
  BY DataShape DEF FeaturesOK
<1>5. Price(data) \in Stored
  BY DataShape
<1> HIDE DEF r
<1>6. CASE s \in Candidate
  <2>1. data.daily # None /\ data.bar # None /\ FeaturesOK(data.daily) /\ Price(data) # None
    BY <1>1, <1>4, <1>6, ContextLemma, DataShape
  <2> DEFINE c == IF q THEN AlertCategory(s, CandidateSnapshot(s, data, member)) ELSE None
             b == BuildCandidate(s, data, member)
  <2>2. snap = Merged([alert_category |-> c], CandidateSnapshot(s, data, member))
    BY <1>1, <1>6, ScannerLemma, Zenon DEF Annotated
  <2> HIDE DEF c, q
  <2>3. /\ \A k \in CandidateFields : Get(snap, k) = b[k]
        /\ \A k \in FeatureFields : Get(snap, k) = data.daily[k]
        /\ CandidateFields \subseteq DOMAIN snap
    BY <2>1, <2>2, CandidateGet
  <2>4. snap = [k \in DOMAIN snap |-> snap[k]]
    BY <2>2 DEF Merged
  <2> HIDE DEF snap, b
  <2>5. /\ Get(snap, "price") = Price(data) /\ Get(snap, "feature_date") = data.daily.date
        /\ Get(snap, "fundamental_score") = None /\ Get(snap, "universe") = UniverseOf(s, member)
        /\ Get(snap, "technical_score") = b.technical_score
        /\ Get(snap, "overall_score") = b.overall_score
    BY <2>3, BuildLemma DEF CandidateFields, b
  <2>6. LevelsOK(snap)
    BY <2>1, <2>3, <2>5, Fields, LevelsLemma DEF FeaturesOK
  <2>7. b.technical_score \in FullScore /\ b.overall_score \in FullScore
    BY <2>1, ScoreFacts, Zenon DEF b
  <2>8. CandidateOK(r)
    <3>1. r.score = b.overall_score
      BY <1>2, <1>6 DEF ScoreOf, b
    <3>2. r.seen = data.daily.date /\ r.seen \in Nat /\ r.snap = snap
      BY <1>2, <1>4, <2>1
    <3> QED BY <2>3, <2>5, <2>7, <3>1, <3>2 DEF CandidateOK
  <2>9. ListedOK(r)
    BY <1>1, <1>2, <1>6, ScannerLemma DEF ListedOK
  <2>10. RequiredOK(r)
    <3>1. SUFFICES ASSUME UniverseOf(s, member) # "IPO" PROVE HasRequired(r)
      BY <1>2, <1>6, <2>5 DEF RequiredOK
    <3>2. Missing(data.daily, {"adx14", "relative_volume"}) = {}
      BY <1>1, <1>6, <3>1, ScannerLemma DEF CandidateValid
    <3>3. data.daily["adx14"] # None /\ data.daily["relative_volume"] # None
      BY <3>2 DEF Missing
    <3>4. {"adx14", "relative_volume"} \subseteq FeatureFields
      BY DEF FeatureFields
    <3>5. \A k \in {"price", "adx14", "relative_volume"} : Get(r.snap, k) # None
      BY <1>2, <2>1, <2>3, <2>5, <3>3, <3>4
    <3>6. s # "breakout_v1"
      BY <1>6 DEF Candidate
    <3> QED BY <1>2, <3>5, <3>6 DEF HasRequired, RequiredFeatures
  <2> QED BY <1>1, <1>2, <1>3, <2>4, <2>6, <2>8, <2>9, <2>10 DEF RowOK, RowShape
<1>7. CASE s = "orb_v1"
  <2>1. s \notin Candidate /\ data.session # None /\ data.session \in SessionRows
    BY <1>1, <1>7, ContextLemma DEF Candidate, StoredOK
  <2>2. snap = OrbSnapshot(data)
    BY <1>1, <1>7, <2>1, ScannerLemma, Zenon DEF Annotated
  <2>3. \A k \in LevelFields \cup {"price", "fundamental_score"} :
          Get(snap, k) = IF k = "price" THEN Price(data) ELSE None
    BY <2>1, <2>2, OrbGet
  <2>4. snap = [k \in DOMAIN snap |-> snap[k]]
    BY <2>2 DEF OrbSnapshot, Merged
  <2> HIDE DEF snap, q
  <2>5. LevelsOK(snap)
    <3>1. Get(snap, "price") = Price(data) /\ Get(snap, "fundamental_score") = None
      BY <2>3 DEF LevelFields
    <3>2. \A k \in LevelFields : Get(snap, k) \in Stored
      BY <2>3 DEF LevelFields, Stored
    <3> QED BY <3>1, <3>2, LevelsLemma
  <2>6. CandidateOK(r) /\ ListedOK(r) /\ RequiredOK(r)
    BY <1>2, <1>7, <2>1 DEF CandidateOK, ListedOK, RequiredOK
  <2> QED BY <1>1, <1>2, <1>3, <2>4, <2>5, <2>6 DEF RowOK, RowShape
<1>8. CASE s \in Listed \ {"orb_v1"}
  <2>1. s \notin Candidate /\ data.daily # None /\ FeaturesOK(data.daily)
    BY <1>1, <1>4, <1>8, ContextLemma, ScannerLemma
  <2>2. snap = ListedSnapshot(data) /\ ScanDate(s, data, day) = data.daily.date
    <3>1. Snapshot(s, data, member) = ListedSnapshot(data) /\ ScanDate(s, data, day) = data.daily.date
      BY <1>1, <1>8, ScannerLemma
    <3> QED BY <2>1, <3>1 DEF Annotated
  <2>3. \A k : Get(snap, k) =
                 IF k = "price" THEN Price(data) ELSE IF k \in FeatureFields THEN data.daily[k] ELSE None
    BY <2>1, <2>2, ListedGet
  <2>4. snap = [k \in DOMAIN snap |-> snap[k]]
    BY <2>2 DEF ListedSnapshot, Merged
  <2> HIDE DEF snap, q
  <2>5. LevelsOK(snap)
    <3>1. Get(snap, "price") = Price(data) /\ Get(snap, "fundamental_score") = None
      BY <2>3, Fields
    <3>2. \A k \in LevelFields : Get(snap, k) \in Stored
      BY <2>1, <2>3, Fields DEF FeaturesOK
    <3> QED BY <3>1, <3>2, LevelsLemma
  <2>6. CandidateOK(r) /\ ListedOK(r)
    BY <1>2, <1>4, <1>8, <2>1, <2>2, <2>3, Fields DEF CandidateOK, ListedOK
  <2>7. RequiredOK(r)
    <3>1. CASE s = "breakout_v1"
      <4>1. Price(data) # None /\ \A k \in BreakoutFields : data.daily[k] # None
        BY <1>1, <3>1, ScannerLemma
      <4>2. \A k \in BreakoutFields \cup {"price"} : Get(snap, k) # None
        BY <2>3, <4>1, Fields
      <4> QED BY <1>2, <3>1, <4>2 DEF RequiredOK, HasRequired, RequiredFeatures
    <3>2. CASE s # "breakout_v1"
      BY <1>2, <1>8, <3>2 DEF RequiredOK, Listed
    <3> QED BY <3>1, <3>2
  <2> QED BY <1>1, <1>2, <1>3, <2>4, <2>5, <2>6, <2>7 DEF RowOK, RowShape
<1> QED BY <1>1, <1>6, <1>7, <1>8 DEF Scanner

-----------------------------------------------------------------------------
(* The rules and the assessment *)

(* What a row passes when its verdict is an alert. *)
LEMMA AlertLemma ==
  ASSUME NEW row, NEW today, NEW open, Decision(row, today, open) = "ALERT"
  PROVE  open /\ GoodScore(row) /\ Fresh(row, today)
<1>1. /\ "ALERT" # "REJECT" /\ "ALERT" # "WATCH"
      /\ "data_freshness" # "required_features"
      /\ "minimum_score" \notin {"required_features", "data_freshness"}
  OBVIOUS
<1>2. Failed(row, today) = {} /\ open
  BY <1>1, Zenon DEF Decision
<1>3. "data_freshness" \in DataRules \cup CoreRules /\ "minimum_score" \in DataRules \cup CoreRules
  BY DEF DataRules, CoreRules
<1>4. Passes("data_freshness", row, today) /\ Passes("minimum_score", row, today)
  BY <1>2, <1>3 DEF Failed
<1>5. Passes("data_freshness", row, today) = Fresh(row, today)
  BY <1>1, Zenon DEF Passes
<1>6. Passes("minimum_score", row, today) = GoodScore(row)
  BY <1>1, Zenon DEF Passes
<1> QED BY <1>2, <1>4, <1>5, <1>6
LEMMA RequiredLemma ==
  ASSUME NEW row, NEW today, "required_features" \in Failed(row, today)
  PROVE  ~HasRequired(row)
<1>1. ~Passes("required_features", row, today)
  BY DEF Failed
<1> QED BY <1>1, Zenon DEF Passes

(* A value a snapshot is read to have is the one it holds. *)
LEMMA HeldLemma ==
  ASSUME NEW snap, NEW k, Get(snap, k) # None
  PROVE  snap[k] = Get(snap, k)
  BY DEF Get, Value

LEMMA MaxOfTwo ==
  ASSUME NEW x \in Int, NEW y \in Int, NEW S \in SUBSET {x, y}, S # {}
  PROVE  Max(S) \in S
<1>1. CASE x \notin S \/ y \notin S
  <2>1. S = {x} \/ S = {y}
    BY <1>1
  <2>2. PICK m \in Int : S = {m}
    BY <2>1
  <2>3. m \in S /\ \A n \in S : m >= n
    BY <2>2
  <2> QED BY <2>3 DEF Max
<1>2. CASE x \in S /\ y \in S
  <2>1. \A n \in S : n = x \/ n = y
    OBVIOUS
  <2>2. \E m \in S : \A n \in S : m >= n
    <3>1. CASE x >= y
      BY <1>2, <2>1, <3>1
    <3>2. CASE y >= x
      BY <1>2, <2>1, <3>2
    <3> QED BY <3>1, <3>2
  <2> QED BY <2>2 DEF Max
<1> QED BY <1>1, <1>2

(* Every stop candidate lies below the price. *)
LEMMA StopLemma ==
  ASSUME NEW snap, LevelsOK(snap), DeriveStop(snap) # None
  PROVE  snap.price \in Int /\ DeriveStop(snap) \in Int /\ DeriveStop(snap) < 2 * snap.price
<1> DEFINE p == snap.price
           s == Get(snap, "support_level")
           a == Get(snap, "atr14")
           w == Get(snap, "swing_low")
           C == StopCandidates(snap)
<1>1. /\ Get(snap, "price") # None /\ C # {}
      /\ DeriveStop(snap) = Max(C)
  BY DEF DeriveStop
<1>2. p = Get(snap, "price") /\ p \in Int
  BY <1>1, HeldLemma DEF LevelsOK, Levels, Stored
<1>3. s \in Stored /\ a \in Stored /\ w \in Stored
  BY DEF LevelsOK, Levels, LevelFields
<1>4. /\ \A v \in C : v \in Int /\ v < 2 * p
      /\ \E x, y \in Int : C \subseteq {x, y}
  <2> DEFINE near == {2 * v : v \in {v1 \in {s} : Below(v1, p)}}
                       \cup {2 * p - 3 * v : v \in {v2 \in {a} : Above(v2, 0)}}
             far == {2 * v : v \in {v3 \in {w} : Below(v3, p)}}
  <2>1. C = IF near # {} THEN near ELSE far
    BY DEF StopCandidates
  <2>2. /\ \A v \in near : v \in Int /\ v < 2 * p
        /\ near \subseteq {2 * s, 2 * p - 3 * a}
    BY <1>2, <1>3 DEF Below, Above, Stored
  <2>3. /\ \A v \in far : v \in Int /\ v < 2 * p
        /\ far \subseteq {2 * w}
    BY <1>2, <1>3 DEF Below, Stored
  <2> HIDE DEF near, far, C
  <2>4. CASE near # {}
    <3>1. C = near
      BY <2>1, <2>4
    <3>2. CASE 2 * s \in near /\ 2 * p - 3 * a \in near
      BY <2>2, <3>1, <3>2
    <3>3. CASE 2 * s \notin near /\ 2 * p - 3 * a \in near
      BY <2>2, <3>1, <3>3
    <3>4. CASE 2 * p - 3 * a \notin near
      <4>1. near = {2 * s} /\ 2 * s \in near
        BY <2>2, <2>4, <3>4
      <4> QED BY <2>2, <3>1, <4>1
    <3> QED BY <3>2, <3>3, <3>4
  <2>5. CASE near = {}
    <3>1. C = far
      BY <2>1, <2>5
    <3>2. far = {2 * w} /\ 2 * w \in far
      BY <1>1, <2>3, <3>1
    <3> QED BY <2>3, <3>1, <3>2
  <2> QED BY <2>4, <2>5
<1> HIDE DEF C
<1>5. Max(C) \in C
  BY <1>1, <1>4, MaxOfTwo
<1> QED BY <1>1, <1>2, <1>4, <1>5

(* The classes an upside may have, and what a class is worth. *)
UpsideClass == {"UNKNOWN", "NOT_ATTRACTIVE", "MINIMUM_OPPORTUNITY", "GOOD", "STRONG", "VERY_STRONG",
                "EXCEPTIONAL"}
LEMMA ClassLemma ==
  ASSUME NEW pct
  PROVE  ClassifyUpside(pct) \in UpsideClass
<1> DEFINE R == {k \in DOMAIN UpsideBands : pct >= UpsideBands[k][1]}
<1>1. /\ Len(UpsideBands) = 5 /\ DOMAIN UpsideBands = 1..5
      /\ \A i \in 1..5 : UpsideBands[i][2] \in UpsideClass
  BY DEF UpsideBands, UpsideClass
<1>2. R \in SUBSET (1..5)
  BY <1>1
<1>3. ClassifyUpside(pct) \in {"UNKNOWN", "NOT_ATTRACTIVE", FirstBand(UpsideBands, R)}
  BY DEF ClassifyUpside
<1>4. FirstBand(UpsideBands, R) \in UpsideClass
  <2> DEFINE n == 5
  <2>1. n \in Nat \ {0} /\ Len(UpsideBands) = n /\ R \in SUBSET (1..n)
    BY <1>1, <1>2
  <2>2. \A i \in 1..n : UpsideBands[i][2] \in UpsideClass
    BY <1>1
  <2> HIDE DEF n, R
  <2>3. PICK i \in 1..n : /\ FirstBand(UpsideBands, R) = UpsideBands[i][2]
                         /\ IF R = {} THEN i = n ELSE i \in R
    BY <2>1, BandLemma
  <2> QED BY <2>2, <2>3
<1> QED BY <1>3, <1>4 DEF UpsideClass
LEMMA UpsideScoreLemma ==
  ASSUME NEW class \in UpsideClass
  PROVE  UpsideScore(class) \in 0..90
  BY DEF UpsideScore, UpsideClass

(* A reward that does not cover the risk is worth 20 points. *)
LEMMA UnpaidLemma ==
  ASSUME NEW rr \in Int, rr < 100, rr # None
  PROVE  RewardRiskScore(rr) = 20
<1> DEFINE bands == <<<<250, 100>>, <<150, 75>>, <<100, 50>>, <<-99900, 20>>>>
           R == {k \in DOMAIN bands : rr >= bands[k][1]}
<1>1. Len(bands) = 4 /\ bands[4][2] = 20 /\ R \subseteq {4}
  OBVIOUS
<1>2. RewardRiskScore(rr) = FirstBand(bands, R)
  BY DEF RewardRiskScore, HigherIsBetter
<1>3. FirstBand(bands, R) = 20
  <2> DEFINE n == 4
  <2>1. n \in Nat \ {0} /\ Len(bands) = n /\ R \in SUBSET (1..n) /\ R \subseteq {n} /\ bands[n][2] = 20
    BY <1>1
  <2> HIDE DEF n, bands, R
  <2>2. PICK i \in 1..n : /\ FirstBand(bands, R) = bands[i][2]
                         /\ IF R = {} THEN i = n ELSE i \in R
    BY <2>1, BandLemma
  <2> QED BY <2>1, <2>2
<1> QED BY <1>2, <1>3

LEMMA TargetLemma ==
  ASSUME NEW snap, LevelsOK(snap)
  PROVE  DeriveTarget(snap) \in Stored
<1> DEFINE p == Get(snap, "price")
           r == Get(snap, "resistance_level")
           s == Get(snap, "support_level")
           h == Get(snap, "swing_high")
<1>1. r \in Stored /\ s \in Stored /\ h \in Stored /\ None \in Stored
  BY DEF LevelsOK, Levels, LevelFields, Stored
<1>2. None \notin {r, s} => 2 * r - s \in Stored
  BY <1>1 DEF Stored
<1>3. \/ DeriveTarget(snap) \in {None, r, h}
      \/ None \notin {r, s} /\ DeriveTarget(snap) = 2 * r - s
  BY Zenon DEF DeriveTarget
<1> QED BY <1>1, <1>2, <1>3

(* The reward/risk ratio is a number when it is known, and one that is     *)
(* rounded to 1.00 or more is at least 0.995.                              *)
LEMMA RatioLemma ==
  ASSUME NEW snap, LevelsOK(snap), RewardRisk(snap) # None
  PROVE  /\ RewardRisk(snap) \in Int
         /\ RewardRisk(snap) >= 100 => 200 * Reward(snap) >= 199 * Risk(snap)
<1> DEFINE n == Reward(snap)
           d == Risk(snap)
           q == (2 * (100 * n) + d) \div (2 * d)
<1>1. DeriveTarget(snap) # None /\ DeriveStop(snap) # None /\ RewardRisk(snap) = q
  BY DEF RewardRisk, Rounded
<1>2. n \in Int
  <2>1. DeriveTarget(snap) \in Int
    BY <1>1, TargetLemma DEF Stored
  <2>2. snap.price \in Int
    BY <1>1, StopLemma
  <2> QED BY <2>1, <2>2 DEF Reward
<1>3. d \in Nat \ {0}
  BY <1>1, StopLemma DEF Risk
<1> HIDE DEF n, d
<1>4. 2 * (100 * n) + d \in Int /\ 2 * d \in Nat \ {0}
  BY <1>2, <1>3
<1>5. q \in Int /\ (2 * d) * q <= 2 * (100 * n) + d
  BY <1>4, Division
<1> HIDE DEF q
<1>6. ASSUME q >= 100 PROVE 200 * n >= 199 * d
  <2>1. (2 * d) * 100 <= (2 * d) * q
    BY <1>4, <1>5, <1>6
  <2> QED BY <1>2, <1>3, <1>5, <2>1
<1> QED BY <1>1, <1>5, <1>6 DEF n, d

(* Below a rounded ratio of one the parts never make a strong candidate.     *)
LEMMA StrongLemma ==
  ASSUME NEW snap, LevelsOK(snap), NEW class \in UpsideClass, RewardRisk(snap) # None,
         DecisionOn(class, CompoundingScore(class, snap)) = "STRONG_CANDIDATE"
  PROVE  RewardRisk(snap) >= 100
<1> DEFINE fundamental == Get(snap, "fundamental_score")
           u == UpsideScore(class)
           w == RewardRiskScore(RewardRisk(snap))
           c == [CONFIRMED |-> 100, NOT_CONFIRMED |-> 40, UNKNOWN |-> 50][Confirmation(snap)]
           f == IF fundamental = None THEN 5000 ELSE fundamental
           part == Rounded(20 * f, 100)
           score == CompoundingScore(class, snap)
<1> SUFFICES ASSUME ~ (RewardRisk(snap) >= 100) PROVE FALSE
  OBVIOUS
<1>1. score = 35 * u + 30 * w + 15 * c + part
  BY DEF CompoundingScore
<1>2. u \in 0..90
  BY UpsideScoreLemma
<1>3. w = 20
  <2>1. RewardRisk(snap) \in Int
    BY RatioLemma
  <2> QED BY <2>1, UnpaidLemma
<1>4. c \in {100, 40, 50}
  <2>1. Confirmation(snap) \in {"CONFIRMED", "NOT_CONFIRMED", "UNKNOWN"}
    BY Zenon DEF Confirmation
  <2> QED BY <2>1
<1>5. f \in 0..10000
  BY DEF LevelsOK, FullScore
<1> HIDE DEF u, w, c, f, score
<1>6. part \in 0..2000
  <2> DEFINE n == 20 * f
             d == 100
             low == 0
             high == 2000
  <2>1. n \in Int /\ d \in Nat \ {0} /\ low \in Int /\ high \in Int
    BY <1>5
  <2>2. low * d <= n /\ n <= high * d
    BY <1>5
  <2>3. part = Rounded(n, d)
    OBVIOUS
  <2> HIDE DEF n, d, low, high, part
  <2>4. part \in low..high
    BY <2>1, <2>2, <2>3, RoundedLemma
  <2> QED BY <2>4 DEF low, high
<1> HIDE DEF part
<1>7. score <= 7250 /\ score \in Int
  BY <1>1, <1>2, <1>3, <1>4, <1>6
<1>8. DecisionOn(class, score) # "STRONG_CANDIDATE"
  BY <1>7 DEF DecisionOn
<1> QED BY <1>8 DEF score
LEMMA PaidLemma ==
  ASSUME NEW snap, LevelsOK(snap)
  PROVE  /\ Strong(snap) => 200 * Reward(snap) >= 199 * Risk(snap)
         /\ DeriveStop(snap) # None => DeriveStop(snap) < 2 * snap.price
<1> DEFINE target == DeriveTarget(snap)
           upside == IF target = None THEN None
                     ELSE Rounded(10000 * (target - snap.price), snap.price)
           class == ClassifyUpside(upside)
           score == CompoundingScore(class, snap)
<1>1. /\ Compounding(snap).ratio = RewardRisk(snap)
      /\ Compounding(snap).decision = DecisionOn(class, score)
  BY DEF Compounding
<1>2. class \in UpsideClass
  BY ClassLemma
<1> HIDE DEF class
<1> QED BY <1>1, <1>2, StrongLemma, RatioLemma, StopLemma DEF Strong

-----------------------------------------------------------------------------
(* The cycles *)

(* Every verdict of the run that just ended is on a qualified row that is     *)
(* still stored as it was judged.                                            *)
JudgedOK(v) ==
  /\ v.row \in rows /\ v.row.status = "qualified"
  /\ v.decision = Decision(v.row, v.day, v.open) /\ v.failed = Failed(v.row, v.day)
VerdictInv ==
  /\ StoredOK(data) /\ day \in Nat
  /\ \A r \in rows : RowOK(r)
  /\ \A v \in verdicts : JudgedOK(v)

LEMMA VerdictInitInv == VerdictInit => VerdictInv
  BY DataOK DEF VerdictInit, VerdictInv

LEMMA CycleInv ==
  ASSUME VerdictInv, NEW open, Cycle(open)
  PROVE  VerdictInv'
<1>1. StoredOK(data)' /\ (day \in Nat)'
  <2>1. UNCHANGED <<data, day>>
    BY DEF Cycle
  <2> QED BY <2>1 DEF VerdictInv, StoredOK, FeaturesOK
<1>2. rows' = rows \cup {RowFor(s) : s \in Scanned}
  BY DEF Cycle
<1>3. ASSUME NEW r \in rows' PROVE RowOK(r)
  BY <1>2, RowForOK DEF VerdictInv
<1>4. ASSUME NEW v \in verdicts' PROVE JudgedOK(v)'
  <2>1. verdicts' = Judge(rows', open)
    BY <1>2 DEF Cycle
  <2>2. PICK r \in rows' : /\ r.status = "qualified"
                          /\ v = [row |-> r, decision |-> Decision(r, day, open),
                                  quality |-> Quality(r, Decision(r, day, open)),
                                  failed |-> Failed(r, day), day |-> day, open |-> open]
    BY <2>1 DEF Judge
  <2> QED BY <2>2 DEF JudgedOK
<1> QED BY <1>1, <1>3, <1>4 DEF VerdictInv

LEMMA StoreInv ==
  ASSUME VerdictInv, \/ \E close \in Closes : NewBar(close)
                     \/ NewFeatures
                     \/ NewSession
                     \/ NextDay
  PROVE  VerdictInv'
<1>1. rows' = rows /\ verdicts' = {}
  BY DEF NewBar, NewFeatures, NewSession, NextDay
<1>2. (day \in Nat)'
  <2>1. day' = day \/ day' = day + 1
    BY DEF NewBar, NewFeatures, NewSession, NextDay
  <2> QED BY <2>1 DEF VerdictInv
<1>3. StoredOK(data)'
  <2>1. CASE \E close \in Closes : NewBar(close)
    <3>1. PICK close \in Closes : NewBar(close)
      BY <2>1
    <3> DEFINE b0 == [data.bar EXCEPT !.date = day]
               b == [b0 EXCEPT !.close = close]
    <3>2. data.bar \in BarRows /\ close \in Nat /\ day \in Nat
      BY <3>1, DataOK DEF NewBar, VerdictInv, StoredOK
    <3>3. b \in BarRows
      BY <3>2 DEF BarRows
    <3>4. data' = [daily |-> data.daily, session |-> data.session, bar |-> b, range52 |-> data.range52]
      BY <3>1 DEF NewBar, VerdictInv, StoredOK
    <3> HIDE DEF b
    <3> QED BY <3>3, <3>4 DEF VerdictInv, StoredOK, FeaturesOK
  <2>2. CASE NewFeatures
    <3> DEFINE f == [data.daily EXCEPT !.date = data.bar.date]
    <3>1. data.bar \in BarRows /\ FeaturesOK(data.daily)
      BY <2>2 DEF NewFeatures, VerdictInv, StoredOK
    <3>2. data.bar.date \in Nat
      BY <3>1 DEF BarRows
    <3>3. FeaturesOK(f)
      BY <3>1, <3>2 DEF FeaturesOK, FeatureFields, LevelFields
    <3>4. data' = [daily |-> f, session |-> data.session, bar |-> data.bar, range52 |-> data.range52]
      BY <2>2 DEF NewFeatures, VerdictInv, StoredOK
    <3> HIDE DEF f
    <3> QED BY <3>3, <3>4 DEF VerdictInv, StoredOK, FeaturesOK
  <2>3. CASE NewSession
    <3> DEFINE x == [data.session EXCEPT !.date = day]
    <3>1. data.session \in SessionRows /\ day \in Nat
      BY <2>3 DEF NewSession, VerdictInv, StoredOK
    <3>2. x \in SessionRows
      BY <3>1 DEF SessionRows
    <3>3. data' = [daily |-> data.daily, session |-> x, bar |-> data.bar, range52 |-> data.range52]
      BY <2>3 DEF NewSession, VerdictInv, StoredOK
    <3> HIDE DEF x
    <3> QED BY <3>2, <3>3 DEF VerdictInv, StoredOK, FeaturesOK
  <2>4. CASE NextDay
    BY <2>4 DEF NextDay, VerdictInv, StoredOK, FeaturesOK
  <2> QED BY <2>1, <2>2, <2>3, <2>4
<1> QED BY <1>1, <1>2, <1>3 DEF VerdictInv

(* A fetch keeps a row what it has to be: it touches what it scored and      *)
(* nothing else.                                                             *)
Rescored == {"fundamental_score", "overall_score", "quality", "risk_flags", "fundamental_status"}
LEMMA ScoresAreNumbers == FullScore \subseteq Int
  BY DEF FullScore
LEMMA NoneIsNoScore == None \notin FullScore
  BY DataOK, ScoresAreNumbers, Zenon
LEMMA FundamentalsLemma ==
  ASSUME NEW r, RowOK(r), r.scanner \in Candidate, NEW answer, NEW w, w = WithFundamentals(r, answer)
  PROVE  /\ w = [scanner |-> r.scanner, date |-> r.date, status |-> r.status, score |-> w.score,
                 snap |-> w.snap, seen |-> r.seen]
         /\ w.snap = [k \in DOMAIN w.snap |-> w.snap[k]]
         /\ DOMAIN r.snap \subseteq DOMAIN w.snap
         /\ \A k : k \notin Rescored => Get(w.snap, k) = Get(r.snap, k)
         /\ w.score \in FullScore /\ Get(w.snap, "overall_score") = w.score
         /\ Get(w.snap, "fundamental_score") = None \/ Get(w.snap, "fundamental_score") \in FullScore
<1> DEFINE fundamental == FundamentalScore(answer.data)
           overall == CombineScores(fundamental, r.snap.technical_score)
           tried == [r.snap EXCEPT !.fundamental_status = answer.status]
           new == [fundamental_score |-> fundamental, overall_score |-> overall,
                   quality |-> QualityFromScore(overall), risk_flags |-> RiskFlags(answer.data),
                   fundamental_status |-> answer.status]
<1>1. r = [scanner |-> r.scanner, date |-> r.date, status |-> r.status, score |-> r.score,
           snap |-> r.snap, seen |-> r.seen]
  BY DEF RowOK, RowShape
<1>2. /\ r.score \in FullScore /\ Get(r.snap, "overall_score") = r.score
      /\ Get(r.snap, "technical_score") \in FullScore
      /\ Get(r.snap, "fundamental_score") = None \/ Get(r.snap, "fundamental_score") \in FullScore
  BY DEF RowOK, CandidateOK, LevelsOK
<1>3. None \notin FullScore
  BY NoneIsNoScore
<1>4. CASE answer.data = None
  <2>1. w = [scanner |-> r.scanner, date |-> r.date, status |-> r.status, score |-> r.score,
             snap |-> tried, seen |-> r.seen]
    BY <1>1, <1>4 DEF WithFundamentals
  <2>2. DOMAIN tried = DOMAIN r.snap /\ \A k : k \notin Rescored => Get(tried, k) = Get(r.snap, k)
    BY DEF Get, Value, Rescored
  <2>3. /\ Get(tried, "overall_score") = Get(r.snap, "overall_score")
        /\ Get(tried, "fundamental_score") = Get(r.snap, "fundamental_score")
    BY DEF Get, Value
  <2>4. tried = [k \in DOMAIN tried |-> tried[k]]
    BY DEF RowOK, RowShape
  <2> HIDE DEF tried
  <2> QED BY <1>2, <2>1, <2>2, <2>3, <2>4
<1>5. CASE answer.data # None
  <2>1. w = [scanner |-> r.scanner, date |-> r.date, status |-> r.status, score |-> overall,
             snap |-> Merged(new, r.snap), seen |-> r.seen]
    BY <1>1, <1>5 DEF WithFundamentals
  <2>2. DOMAIN new = Rescored /\ new.overall_score = overall /\ new.fundamental_score = fundamental
    BY DEF Rescored
  <2>3. fundamental = None \/ fundamental \in FullScore
    BY FundamentalLemma
  <2>4. overall \in FullScore
    <3>1. r.snap.technical_score = Get(r.snap, "technical_score")
      BY <1>2, <1>3, HeldLemma
    <3>2. r.snap.technical_score \in FullScore
      BY <1>2, <3>1
    <3> HIDE DEF fundamental
    <3> QED BY <2>3, <3>2, CombineLemma
  <2> HIDE DEF new, fundamental, overall
  <2>6. /\ \A k : Get(Merged(new, r.snap), k) = IF k \in Rescored THEN new[k] ELSE Get(r.snap, k)
        /\ DOMAIN Merged(new, r.snap) = Rescored \cup DOMAIN r.snap
    <3>1. ASSUME NEW k
          PROVE  Get(Merged(new, r.snap), k) = IF k \in Rescored THEN new[k] ELSE Get(r.snap, k)
      BY <2>2, MergedGet
    <3>2. DOMAIN Merged(new, r.snap) = Rescored \cup DOMAIN r.snap
      BY <2>2, MergedDomain
    <3> QED BY <3>1, <3>2
  <2>7. Merged(new, r.snap) = [k \in DOMAIN Merged(new, r.snap) |-> Merged(new, r.snap)[k]]
    BY DEF Merged
  <2>8. "overall_score" \in Rescored /\ "fundamental_score" \in Rescored
    BY DEF Rescored
  <2>9. /\ Get(Merged(new, r.snap), "overall_score") = overall
        /\ Get(Merged(new, r.snap), "fundamental_score") = fundamental
    BY <2>2, <2>6, <2>8
  <2> DEFINE snap == Merged(new, r.snap)
  <2>10. w.snap = snap /\ w.score = overall
    BY <2>1
  <2> HIDE DEF snap
  <2> QED BY <2>1, <2>3, <2>4, <2>6, <2>7, <2>9, <2>10 DEF snap
<1> QED BY <1>4, <1>5
LEMMA FundamentalsKeep ==
  ASSUME NEW r, RowOK(r), r.scanner \in Candidate, NEW answer
  PROVE  RowOK(WithFundamentals(r, answer))
<1> DEFINE w == WithFundamentals(r, answer)
<1>1. /\ w = [scanner |-> r.scanner, date |-> r.date, status |-> r.status, score |-> w.score,
              snap |-> w.snap, seen |-> r.seen]
      /\ w.snap = [k \in DOMAIN w.snap |-> w.snap[k]]
      /\ DOMAIN r.snap \subseteq DOMAIN w.snap
      /\ \A k : k \notin Rescored => Get(w.snap, k) = Get(r.snap, k)
      /\ w.score \in FullScore /\ Get(w.snap, "overall_score") = w.score
      /\ Get(w.snap, "fundamental_score") = None \/ Get(w.snap, "fundamental_score") \in FullScore
  BY FundamentalsLemma
<1> HIDE DEF w
<1>2. /\ w.scanner = r.scanner /\ w.date = r.date /\ w.status = r.status /\ w.seen = r.seen
  BY <1>1
<1>3. RowShape(w)
  BY <1>1, <1>2 DEF RowOK, RowShape
<1>4. LevelsOK(w.snap)
  <2>1. Levels \cap Rescored = {}
    BY DEF Levels, LevelFields, Rescored
  <2> QED BY <1>1, <2>1 DEF LevelsOK, RowOK
<1>5. CandidateOK(w) /\ ListedOK(w)
  <2>1. "feature_date" \notin Rescored /\ "technical_score" \notin Rescored
    BY DEF Rescored
  <2> QED BY <1>1, <1>2, <2>1 DEF CandidateOK, ListedOK, RowOK
<1>6. RequiredOK(w)
  <2>1. "universe" \notin Rescored /\ RequiredFeatures(r.scanner) \cap Rescored = {}
    BY DEF Rescored, RequiredFeatures, BreakoutFields
  <2>2. HasRequired(r) => HasRequired(w)
    BY <1>1, <1>2, <2>1 DEF HasRequired
  <2> QED BY <1>1, <1>2, <2>1, <2>2 DEF RequiredOK, RowOK
<1> QED BY <1>3, <1>4, <1>5, <1>6 DEF RowOK, w

LEMMA FetchInv ==
  ASSUME VerdictInv, NEW r \in rows, NEW replies, Fetch(r, replies)
  PROVE  VerdictInv'
<1> DEFINE answer == FetchAnswer(replies)
<1>1. /\ rows' = (rows \ {r}) \cup {WithFundamentals(r, answer)} /\ r.scanner \in Candidate
      /\ UNCHANGED <<data, day>> /\ verdicts' = {}
  BY DEF Fetch
<1> HIDE DEF answer
<1>2. RowOK(WithFundamentals(r, answer))
  BY <1>1, FundamentalsKeep DEF VerdictInv
<1> QED BY <1>1, <1>2 DEF VerdictInv, StoredOK, FeaturesOK

LEMMA VerdictNextInv == VerdictInv /\ [VerdictNext]_verdictVars => VerdictInv'
<1> SUFFICES ASSUME VerdictInv, [VerdictNext]_verdictVars PROVE VerdictInv'
  OBVIOUS
<1>1. CASE \E open \in BOOLEAN : Cycle(open)
  BY <1>1, CycleInv
<1>2. CASE \/ \E close \in Closes : NewBar(close)
           \/ NewFeatures
           \/ NewSession
           \/ NextDay
  BY <1>2, StoreInv
<1>3. CASE \E r \in rows, replies \in Replies : Fetch(r, replies)
  BY <1>3, FetchInv
<1>4. CASE UNCHANGED verdictVars
  BY <1>4 DEF verdictVars, VerdictInv, JudgedOK, StoredOK, FeaturesOK
<1> QED BY <1>1, <1>2, <1>3, <1>4 DEF VerdictNext

LEMMA VerdictsInvariant == VerdictSpec => []VerdictInv
<1> QED BY VerdictInitInv, VerdictNextInv, PTL DEF VerdictSpec

(* Every row that is judged is one the scanners and the queue left sound: no  *)
(* scanner that validates its features has a qualified row rejected for a     *)
(* missing one, however the data moved on between the cycles.                 *)
THEOREM TrustedTheorem == VerdictSpec => []TrustedWhenQualified
<1>1. VerdictInv => TrustedWhenQualified
  <2> SUFFICES ASSUME VerdictInv, NEW v \in verdicts, "required_features" \in v.failed,
                      v.row.scanner \notin {"vcp_v1", "momentum_v1", "orb_v1"}
               PROVE  v.row.scanner \in Candidate /\ v.row.snap.universe = "IPO"
    BY DEF TrustedWhenQualified
  <2>1. RowOK(v.row) /\ v.row.status = "qualified" /\ ~HasRequired(v.row)
    BY RequiredLemma DEF VerdictInv, JudgedOK
  <2>2. v.row.scanner \in Candidate /\ Get(v.row.snap, "universe") = "IPO"
    BY <2>1 DEF RowOK, RequiredOK
  <2>3. "universe" \in DOMAIN v.row.snap
    BY <2>1, <2>2 DEF RowOK, CandidateOK, CandidateFields
  <2> QED BY <2>2, <2>3 DEF Get, Value
<1> QED BY <1>1, VerdictsInvariant, PTL

(* An alert is judged in an open market, and the features behind it are at    *)
(* most a day old, however late a row is judged again.                        *)
THEOREM CurrentTheorem == VerdictSpec => []AlertsAreCurrent
<1>1. VerdictInv => AlertsAreCurrent
  <2> SUFFICES ASSUME VerdictInv, NEW v \in verdicts, v.decision = "ALERT"
               PROVE  /\ v.open
                      /\ v.row.scanner # "orb_v1" =>
                           v.row.seen # None /\ v.day - v.row.seen <= MaxDataAge
    BY DEF AlertsAreCurrent
  <2>1. /\ RowOK(v.row) /\ v.open /\ Fresh(v.row, v.day)
    BY AlertLemma DEF VerdictInv, JudgedOK
  <2>2. None \notin Nat
    BY DataOK
  <2>3. CASE v.row.scanner \in Candidate
    <3>1. v.row.seen \in Nat /\ Get(v.row.snap, "feature_date") = v.row.seen
      BY <2>1, <2>3 DEF RowOK, CandidateOK
    <3>2. v.row.snap.feature_date = v.row.seen
      BY <2>2, <3>1, HeldLemma
    <3>3. EffectiveDate(v.row) = v.row.seen
      BY <2>2, <3>1, <3>2 DEF EffectiveDate
    <3> QED BY <2>1, <2>2, <3>1, <3>3 DEF Fresh
  <2>4. CASE v.row.scanner \in Listed \ {"orb_v1"}
    <3>1. v.row.seen \in Nat /\ v.row.date = v.row.seen /\ Get(v.row.snap, "feature_date") = None
      BY <2>1, <2>4 DEF RowOK, ListedOK
    <3>2. EffectiveDate(v.row) = v.row.seen
      BY <3>1 DEF EffectiveDate
    <3> QED BY <2>1, <2>2, <3>1, <3>2 DEF Fresh
  <2> QED BY <2>1, <2>3, <2>4 DEF RowOK, RowShape, Scanner
<1> QED BY <1>1, VerdictsInvariant, PTL

LEMMA MinimumLemma ==
  ASSUME NEW score \in FullScore, score >= MinAlertScore, NEW s \in Candidate
  PROVE  score >= MinScore[s]
<1>1. MinScore[s] \in 0..8000
  BY DEF Candidate, MinScore
<1>2. score \in Int /\ score >= 8000
  BY ScoresAreNumbers DEF MinAlertScore
<1> DEFINE m == MinScore[s]
<1>3. m \in 0..8000
  BY <1>1
<1> HIDE DEF m
<1>4. score >= m
  BY <1>2, <1>3
<1> QED BY <1>4 DEF m

(* An alert for a candidate is at or above its scanner's minimum on the score *)
(* the fetches left, and shows that score.                                    *)
THEOREM MinimumTheorem == VerdictSpec => []AlertsMeetMinimum
<1>1. VerdictInv => AlertsMeetMinimum
  <2> SUFFICES ASSUME VerdictInv, NEW v \in verdicts, v.decision = "ALERT", v.row.scanner \in Candidate
               PROVE  /\ v.row.score >= MinScore[v.row.scanner]
                      /\ v.row.score = v.row.snap.overall_score
    BY DEF AlertsMeetMinimum
  <2>1. RowOK(v.row) /\ GoodScore(v.row)
    BY AlertLemma DEF VerdictInv, JudgedOK
  <2>2. v.row.score \in FullScore /\ Get(v.row.snap, "overall_score") = v.row.score
    BY <2>1 DEF RowOK, CandidateOK
  <2>3. v.row.snap.overall_score = v.row.score
    BY <2>2, NoneIsNoScore, HeldLemma
  <2>4. v.row.score >= MinScore[v.row.scanner]
    <3>1. v.row.score >= MinAlertScore
      BY <2>1 DEF GoodScore
    <3> QED BY <2>2, <3>1, MinimumLemma
  <2> QED BY <2>3, <2>4
<1> QED BY <1>1, VerdictsInvariant, PTL

(* No stored row is a strong candidate on a reward of less than 99.5 % of    *)
(* its risk, and a known stop is below the price, for every price and level  *)
(* a row may hold.  The rounding of the ratio gives the half percent away.   *)
THEOREM PaidTheorem == VerdictSpec => []StrongIsPaid
<1>1. VerdictInv => StrongIsPaid
  BY PaidLemma DEF VerdictInv, RowOK, StrongIsPaid
<1> QED BY <1>1, VerdictsInvariant, PTL
=============================================================================
