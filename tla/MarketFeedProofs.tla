--------------------------- MODULE MarketFeedProofs ---------------------------
(***************************************************************************)
(* Proofs about MarketFeed, for any instruments, callers and bounds: what  *)
(* a bar says never exceeds what was traded, and the bars wait in order.   *)
(***************************************************************************)
EXTENDS MarketFeed, TLAPS

-----------------------------------------------------------------------------
(* The inductive invariant                                                 *)

(* A bar of k counts at most the trades of its minute; bars waiting        *)
(* together are of different minutes, the oldest first.                    *)
BarIn(t, k, c) == c \in Candle /\ c.volume <= t[k][c.minute]
BarsIn(t, k, s) ==
  /\ s \in Seq(Candle) /\ \A i \in 1..Len(s) : BarIn(t, k, s[i])
  /\ \A i, j \in 1..Len(s) : i < j => s[i].minute < s[j].minute

(* A tick on the wire is of a trade that happened. *)
TicksIn(t, s) ==
  s \in Seq(Tick) /\ \A i \in 1..Len(s) : s[i].nth <= t[s[i].key][s[i].minute]

(* An open bucket b counts trades up to the last one seen, which happened, *)
(* and is newer than the bars p waiting for a flush.                       *)
OpenIn(t, k, b, l, p) ==
  \/ b = NoBucket /\ l = <<0, 0>> /\ p = <<>>
  \/ /\ b \in Candle /\ l \in Minute \X Volume
     /\ l[1] = b.minute /\ b.volume <= l[2] /\ l[2] <= t[k][l[1]]
     /\ \A i \in 1..Len(p) : p[i].minute < b.minute

KeyOK(k) ==
  /\ OpenIn(trades, k, bucket[k], last[k], pending[k])
  /\ BarsIn(trades, k, pending[k]) /\ BarsIn(trades, k, inflight[k])

(* The bars a caller holds are the broker's of some earlier moment. *)
FetchIn(t, f) ==
  \/ f = NoFetch
  \/ \E k \in Key : /\ f \in [key : {{k}}, bars : [Minute -> Volume]]
                    /\ \A m \in Minute : f.bars[m] <= t[k][m]

StoredOK ==
  store \in [Key -> [Minute -> Volume]] /\ \A k \in Key, m \in Minute : store[k][m] <= trades[k][m]
FetchedOK ==
  fetched = [r \in Rest |-> fetched[r]] /\ \A r \in Rest : FetchIn(trades, fetched[r])

(* The other variables' types; the instruments' are functions on Key. *)
Base ==
  /\ now \in Minute /\ trades \in [Key -> [Minute -> Volume]] /\ repeats \in 0..MaxRepeats
  /\ faults \in 0..MaxFaults
  /\ phase \in {"idle", "filling", "streaming", "flush", "flushing", "publishing"}
  /\ after \in {"streaming", "closing"} /\ subscribed \in SUBSET Key /\ todo \in SUBSET subscribed
Shapes ==
  /\ pending = [k \in Key |-> pending[k]] /\ inflight = [k \in Key |-> inflight[k]]
  /\ bucket = [k \in Key |-> bucket[k]] /\ last = [k \in Key |-> last[k]]
  /\ completed \in [Key -> SUBSET Minute]

FeedInv ==
  /\ Base /\ Shapes /\ TicksIn(trades, socket) /\ StoredOK /\ FetchedOK
  /\ \A k \in Key : KeyOK(k)

-----------------------------------------------------------------------------
(* What the parts make of more trades, one more bar, one tick less         *)

(* More trades keep every bar true. *)
LEMMA MoreTrades ==
  ASSUME NEW t \in [Key -> [Minute -> Volume]], NEW u \in [Key -> [Minute -> Volume]],
         \A k \in Key, m \in Minute : t[k][m] <= u[k][m]
  PROVE  /\ \A k \in Key : \A s : BarsIn(t, k, s) => BarsIn(u, k, s)
         /\ \A k \in Key : \A b, l, p : OpenIn(t, k, b, l, p) => OpenIn(u, k, b, l, p)
         /\ \A f : FetchIn(t, f) => FetchIn(u, f)
         /\ \A s : TicksIn(t, s) => TicksIn(u, s)
<1>0. \A k \in Key, m \in Minute : t[k][m] \in Nat /\ u[k][m] \in Nat
  BY ConstantsOK DEF Volume
<1>1. ASSUME NEW k \in Key, NEW c, BarIn(t, k, c) PROVE BarIn(u, k, c)
  <2>1. c.minute \in Minute /\ c.volume \in Nat /\ c.volume <= t[k][c.minute]
    BY <1>1, ConstantsOK DEF BarIn, Candle
  <2>2. c.volume <= u[k][c.minute]
    BY <1>0, <2>1
  <2> QED BY <1>1, <2>2 DEF BarIn
<1>2. ASSUME NEW k \in Key, NEW s, BarsIn(t, k, s) PROVE BarsIn(u, k, s)
  BY <1>1, <1>2 DEF BarsIn
<1>3. ASSUME NEW k \in Key, NEW b, NEW l, NEW p, OpenIn(t, k, b, l, p) PROVE OpenIn(u, k, b, l, p)
  <2>1. CASE l \in Minute \X Volume /\ l[2] <= t[k][l[1]]
    <3>1. l[1] \in Minute /\ l[2] \in Nat
      BY <2>1, ConstantsOK DEF Volume
    <3>2. l[2] <= u[k][l[1]]
      BY <1>0, <2>1, <3>1
    <3> QED BY <1>3, <3>2 DEF OpenIn
  <2> QED BY <1>3, <2>1 DEF OpenIn
<1>4. ASSUME NEW f, FetchIn(t, f) PROVE FetchIn(u, f)
  <2>1. ASSUME NEW k \in Key, f \in [key : {{k}}, bars : [Minute -> Volume]],
               \A m \in Minute : f.bars[m] <= t[k][m]
        PROVE  \A m \in Minute : f.bars[m] <= u[k][m]
    <3> SUFFICES ASSUME NEW m \in Minute PROVE f.bars[m] <= u[k][m]
      OBVIOUS
    <3>1. f.bars[m] \in Nat /\ f.bars[m] <= t[k][m]
      BY <2>1, ConstantsOK DEF Volume
    <3>2. t[k][m] \in Nat /\ u[k][m] \in Nat /\ t[k][m] <= u[k][m]
      BY <1>0
    <3> QED BY <3>1, <3>2
  <2> QED BY <1>4, <2>1 DEF FetchIn
<1>5. ASSUME NEW s, TicksIn(t, s) PROVE TicksIn(u, s)
  <2> SUFFICES ASSUME NEW i \in 1..Len(s) PROVE s[i].nth <= u[s[i].key][s[i].minute]
    BY <1>5 DEF TicksIn
  <2>1. s[i] \in Tick /\ s[i].nth <= t[s[i].key][s[i].minute]
    BY <1>5 DEF TicksIn
  <2>2. s[i].key \in Key /\ s[i].minute \in Minute /\ s[i].nth \in Nat
    BY <2>1, ConstantsOK DEF Tick
  <2>3. t[s[i].key][s[i].minute] <= u[s[i].key][s[i].minute]
    BY <2>2
  <2>4. t[s[i].key][s[i].minute] \in Nat /\ u[s[i].key][s[i].minute] \in Nat
    BY <1>0, <2>2
  <2> QED BY <2>1, <2>2, <2>3, <2>4
<1> QED BY <1>2, <1>3, <1>4, <1>5

(* One more tick, of a trade that happened. *)
LEMMA OneMoreTick ==
  ASSUME NEW t, NEW s, TicksIn(t, s), NEW k \in Key, NEW m \in Minute, NEW n \in 1..MaxTrades,
         n <= t[k][m]
  PROVE  TicksIn(t, Append(s, [key |-> k, minute |-> m, nth |-> n]))
<1> DEFINE x == [key |-> k, minute |-> m, nth |-> n]
           r == Append(s, x)
<1>1. x \in Tick /\ x.key = k /\ x.minute = m /\ x.nth = n
  BY DEF Tick
<1> HIDE DEF x
<1>2. s \in Seq(Tick)
  BY DEF TicksIn
<1>3. r \in Seq(Tick) /\ \A i \in 1..Len(r) : r[i] = x \/ (i \in 1..Len(s) /\ r[i] = s[i])
  BY <1>1, <1>2
<1> HIDE DEF r
<1>4. TicksIn(t, r)
  BY <1>1, <1>3 DEF TicksIn
<1> QED BY <1>4 DEF r, x

(* One tick received. *)
LEMMA OneTickLess ==
  ASSUME NEW t, NEW s, TicksIn(t, s), s # <<>>
  PROVE  /\ Head(s) \in Tick /\ Head(s).nth <= t[Head(s).key][Head(s).minute]
         /\ TicksIn(t, Tail(s))
<1>1. s \in Seq(Tick) /\ Len(s) \in Nat /\ 1 \in 1..Len(s) /\ Head(s) = s[1]
  BY DEF TicksIn
<1>2. /\ Tail(s) \in Seq(Tick)
      /\ \A i \in 1..Len(Tail(s)) : i + 1 \in 1..Len(s) /\ Tail(s)[i] = s[i + 1]
  BY <1>1
<1> QED BY <1>1, <1>2 DEF TicksIn

(* One more bar, newer than those waiting. *)
LEMMA OneMoreBar ==
  ASSUME NEW t, NEW k \in Key, NEW s, BarsIn(t, k, s), NEW b, BarIn(t, k, b),
         \A i \in 1..Len(s) : s[i].minute < b.minute
  PROVE  LET r == Append(s, b)
         IN  BarsIn(t, k, r) /\ \A i \in 1..Len(r) : r[i].minute <= b.minute
<1> DEFINE r == Append(s, b)
<1>1. s \in Seq(Candle) /\ b \in Candle /\ b.minute \in Nat
  BY ConstantsOK DEF BarsIn, BarIn, Candle, Minute
<1>2. /\ r \in Seq(Candle) /\ Len(r) = Len(s) + 1 /\ Len(s) \in Nat
      /\ r[Len(s) + 1] = b /\ \A i \in 1..Len(s) : r[i] = s[i]
  BY <1>1
<1>3. \A i \in 1..Len(r) : i \in 1..Len(s) \/ i = Len(s) + 1
  BY <1>2
<1> HIDE DEF r
<1>4. \A i \in 1..Len(r) : BarIn(t, k, r[i])
  BY <1>2, <1>3 DEF BarsIn
<1>5. \A i, j \in 1..Len(r) : i < j => r[i].minute < r[j].minute
  <2> SUFFICES ASSUME NEW i \in 1..Len(r), NEW j \in 1..Len(r), i < j
               PROVE  r[i].minute < r[j].minute
    OBVIOUS
  <2>1. i \in 1..Len(s)
    BY <1>2, <1>3
  <2> QED BY <1>2, <1>3, <2>1 DEF BarsIn
<1>6. \A i \in 1..Len(r) : r[i].minute <= b.minute
  <2> SUFFICES ASSUME NEW i \in 1..Len(r) PROVE r[i].minute <= b.minute
    OBVIOUS
  <2>1. r[i].minute \in Nat
    BY <1>4, ConstantsOK DEF BarIn, Candle, Minute
  <2>2. r[i].minute < b.minute \/ r[i] = b
    BY <1>2, <1>3
  <2> QED BY <1>1, <2>1, <2>2
<1>7. BarsIn(t, k, r)
  BY <1>2, <1>4, <1>5 DEF BarsIn
<1> QED BY <1>6, <1>7 DEF r

(* No bars at all. *)
LEMMA NoBars == \A t, k : BarsIn(t, k, <<>>)
BY DEF BarsIn

-----------------------------------------------------------------------------
(* The steps                                                               *)

(* A tick opens the next bucket and closes this one, adds a trade to it,   *)
(* or is dropped as seen before.                                           *)
LEMMA IngestStep ==
  ASSUME FeedInv, NEW x \in Tick, x.nth <= trades[x.key][x.minute], Ingest(x),
         UNCHANGED <<trades, inflight>>
  PROVE  Shapes' /\ \A k \in Key : KeyOK(k)'
<1> DEFINE k == x.key
           b == bucket[k]
           l == last[k]
           p == pending[k]
           t == trades
<1>1. /\ k \in Key /\ x.minute \in Minute /\ x.nth \in 1..MaxTrades /\ x.nth \in Volume
      /\ x.minute \in Nat \ {0} /\ x.nth \in Nat /\ t[k][x.minute] \in Nat
      /\ x.nth <= t[k][x.minute]
  BY ConstantsOK DEF Tick, Minute, Volume, FeedInv, Base
<1>2. OpenIn(t, k, b, l, p) /\ BarsIn(t, k, p)
  BY <1>1 DEF FeedInv, KeyOK
<1>3. CASE Stale(x)
  <2>1. UNCHANGED <<last, bucket, pending, completed>>
    BY <1>3 DEF Ingest
  <2> QED BY <2>1 DEF FeedInv, Shapes, KeyOK
<1>4. CASE ~Stale(x)
  <2>1. /\ last' = [last EXCEPT ![k] = <<x.minute, x.nth>>]
        /\ IF b.minute # x.minute
           THEN /\ bucket' = [bucket EXCEPT ![k] = [minute |-> x.minute, volume |-> 1]]
                /\ IF b = NoBucket THEN UNCHANGED <<pending, completed>>
                   ELSE /\ pending' = [pending EXCEPT ![k] = Append(@, b)]
                        /\ completed' = [completed EXCEPT ![k] = @ \cup {b.minute}]
           ELSE /\ bucket' = [bucket EXCEPT ![k].volume = @ + 1]
                /\ UNCHANGED <<pending, completed>>
    BY <1>4 DEF Ingest
  <2>2. b # NoBucket => /\ b \in Candle /\ b.minute \in Minute /\ b.minute \in Nat /\ b.volume \in Nat
                        /\ l[1] = b.minute /\ l[2] \in Nat /\ b.volume <= l[2]
                        /\ l[2] <= t[k][b.minute] /\ \A i \in 1..Len(p) : p[i].minute < b.minute
    BY <1>2, ConstantsOK DEF OpenIn, Candle, Minute, Volume
  <2>3. b # NoBucket => /\ x.minute >= b.minute
                        /\ x.minute = b.minute => x.nth > l[2]
    BY <1>1, <1>4, <2>2 DEF Stale
  <2>4. /\ \A q \in Key \ {k} : /\ bucket'[q] = bucket[q] /\ last'[q] = last[q]
                                /\ pending'[q] = pending[q] /\ inflight'[q] = inflight[q]
        /\ last'[k] = <<x.minute, x.nth>>
    BY <1>1, <2>1 DEF FeedInv, Shapes
  <2>5. Shapes'
    <3>1. pending' = [q \in Key |-> pending'[q]]
      BY <2>1 DEF FeedInv, Shapes
    <3>2. bucket' = [q \in Key |-> bucket'[q]] /\ last' = [q \in Key |-> last'[q]]
      BY <2>1 DEF FeedInv, Shapes
    <3>3. completed' \in [Key -> SUBSET Minute]
      <4>1. completed \in [Key -> SUBSET Minute]
        BY DEF FeedInv, Shapes
      <4>2. CASE completed' = completed
        BY <4>1, <4>2
      <4>3. CASE b # NoBucket /\ completed' = [completed EXCEPT ![k] = @ \cup {b.minute}]
        BY <2>2, <4>1, <4>3
      <4> QED BY <2>1, <4>2, <4>3
    <3>4. inflight' = [q \in Key |-> inflight'[q]]
      BY DEF FeedInv, Shapes
    <3> QED BY <3>1, <3>2, <3>3, <3>4 DEF Shapes
  <2>6. OpenIn(t, k, bucket'[k], <<x.minute, x.nth>>, pending'[k]) /\ BarsIn(t, k, pending'[k])
    <3> DEFINE c == [minute |-> x.minute, volume |-> 1]
    <3>1. c \in Candle /\ c.minute = x.minute /\ c.volume = 1
      BY <1>1, ConstantsOK DEF Candle
    <3> HIDE DEF c, l
    <3>2. CASE b = NoBucket
      <4>1. p = <<>> /\ b.minute # x.minute
        BY <1>1, <1>2, <3>2, ConstantsOK DEF OpenIn, NoBucket, Candle, Minute
      <4>2. bucket'[k] = c /\ pending'[k] = <<>>
        BY <1>1, <2>1, <3>2, <4>1 DEF FeedInv, Shapes, c
      <4>3. \A i \in 1..Len(<<>>) : <<>>[i].minute < c.minute
        OBVIOUS
      <4>4. OpenIn(t, k, c, <<x.minute, x.nth>>, <<>>)
        BY <1>1, <3>1, <4>3 DEF OpenIn
      <4> QED BY <4>2, <4>4, NoBars
    <3>3. CASE b # NoBucket /\ b.minute # x.minute
      <4>1. x.minute > b.minute
        BY <1>1, <2>2, <2>3, <3>3
      <4>2. bucket'[k] = c /\ pending'[k] = Append(p, b)
        BY <1>1, <2>1, <3>3 DEF FeedInv, Shapes, c
      <4>3. BarIn(t, k, b)
        <5>1. t[k][b.minute] \in Nat
          BY <1>1, <2>2, <3>3, ConstantsOK DEF FeedInv, Base, Volume
        <5>2. b.volume <= t[k][b.minute]
          BY <2>2, <3>3, <5>1
        <5> QED BY <2>2, <3>3, <5>2 DEF BarIn
      <4> DEFINE r == Append(p, b)
      <4>4. BarsIn(t, k, r) /\ \A i \in 1..Len(r) : r[i].minute <= b.minute
        <5> HIDE DEF b, p
        <5> QED BY <1>1, <1>2, <2>2, <3>3, <4>3, OneMoreBar
      <4> HIDE DEF r
      <4>5. \A i \in 1..Len(r) : r[i].minute < c.minute
        <5> SUFFICES ASSUME NEW i \in 1..Len(r) PROVE r[i].minute < c.minute
          OBVIOUS
        <5>1. r[i].minute \in Nat /\ r[i].minute <= b.minute
          BY <4>4, ConstantsOK DEF BarsIn, BarIn, Candle, Minute
        <5> QED BY <1>1, <2>2, <3>1, <3>3, <4>1, <5>1
      <4>6. OpenIn(t, k, c, <<x.minute, x.nth>>, r)
        BY <1>1, <3>1, <4>5 DEF OpenIn
      <4> QED BY <4>2, <4>4, <4>6 DEF r
    <3>4. CASE b # NoBucket /\ b.minute = x.minute
      <4>1. bucket'[k] = [b EXCEPT !.volume = @ + 1] /\ pending'[k] = p
        BY <1>1, <2>1, <3>4 DEF FeedInv, Shapes
      <4>2. bucket'[k].minute = b.minute /\ bucket'[k].volume = b.volume + 1
        BY <2>2, <3>4, <4>1 DEF Candle
      <4>3. b.volume + 1 <= x.nth
        BY <1>1, <2>2, <2>3, <3>4
      <4>4. bucket'[k] \in Candle
        <5>1. b.volume + 1 \in 1..MaxTrades
          BY <1>1, <2>2, <3>4, <4>3, ConstantsOK
        <5> QED BY <2>2, <3>4, <4>1, <5>1 DEF Candle
      <4>5. \A i \in 1..Len(p) : p[i].minute < bucket'[k].minute
        BY <2>2, <3>4, <4>2
      <4>6. OpenIn(t, k, bucket'[k], <<x.minute, x.nth>>, p)
        BY <1>1, <3>4, <4>2, <4>3, <4>4, <4>5 DEF OpenIn
      <4> QED BY <1>2, <4>1, <4>6
    <3> QED BY <3>2, <3>3, <3>4
  <2>7. ASSUME NEW q \in Key PROVE KeyOK(q)'
    <3>1. BarsIn(t, q, inflight[q])
      BY DEF FeedInv, KeyOK
    <3>2. CASE q = k
      BY <2>4, <2>6, <3>1, <3>2 DEF KeyOK
    <3>3. CASE q # k
      BY <2>4, <3>3 DEF FeedInv, KeyOK
    <3> QED BY <3>2, <3>3
  <2> QED BY <2>5, <2>7
<1> QED BY <1>3, <1>4

(* A written bar counts at most the trades of its minute. *)
LEMMA WrittenBar ==
  ASSUME FeedInv, NEW k \in Key, NEW m \in Minute
  PROVE  Written(k, m) \in Volume /\ Written(k, m) <= trades[k][m]
<1> DEFINE s == inflight[k]
           same == {i \in 1..Len(s) : s[i].minute = m}
<1>1. BarsIn(trades, k, s) /\ store[k][m] \in Volume /\ store[k][m] <= trades[k][m]
  BY DEF FeedInv, KeyOK, StoredOK
<1>2. CASE same = {}
  BY <1>1, <1>2 DEF Written
<1>3. CASE same # {}
  <2>1. PICK i \in same : TRUE
    BY <1>3
  <2>2. \A j \in same : i <= j
    <3> SUFFICES ASSUME NEW j \in same, j < i PROVE FALSE
      BY <2>1
    <3>1. s[j].minute < s[i].minute
      BY <1>1, <2>1 DEF BarsIn
    <3>2. s[j].minute = m /\ s[i].minute = m /\ m \in Int
      BY <2>1 DEF Minute
    <3> QED BY <3>1, <3>2
  <2> DEFINE c == CHOOSE a \in same : \A j \in same : a <= j
  <2>3. c \in same
    BY <2>1, <2>2
  <2>4. Written(k, m) = s[c].volume
    BY <1>3 DEF Written
  <2> HIDE DEF c, s
  <2>5. s[c] \in Candle /\ s[c].minute = m /\ s[c].volume <= trades[k][m]
    BY <1>1, <2>3 DEF BarsIn, BarIn
  <2> QED BY <2>4, <2>5, ConstantsOK DEF Candle, Volume
<1> QED BY <1>2, <1>3

(* Steps that leave trades, bars and buckets alone. *)
LEMMA KeysKept ==
  ASSUME FeedInv, UNCHANGED <<trades, pending, inflight, bucket, last, completed>>
  PROVE  Shapes' /\ \A k \in Key : KeyOK(k)'
<1>1. Shapes'
  BY DEF FeedInv, Shapes
<1> QED BY <1>1 DEF FeedInv, KeyOK

(* A caller's bars change for none, or for the broker's of this moment. *)
LEMMA FetchedKept ==
  ASSUME FeedInv, trades' = trades, NEW r \in Rest, NEW f, FetchIn(trades, f),
         fetched' = [fetched EXCEPT ![r] = f]
  PROVE  FetchedOK'
BY DEF FeedInv, FetchedOK

(* Every step preserves FeedInv. *)
LEMMA NextFeedInv == FeedInv /\ [Next]_vars => FeedInv'
<1> SUFFICES ASSUME FeedInv, [Next]_vars PROVE FeedInv'
  OBVIOUS
<1>0. /\ Base /\ Shapes /\ TicksIn(trades, socket) /\ StoredOK /\ FetchedOK
      /\ \A t : TicksIn(t, <<>>) /\ FetchIn(t, NoFetch)
  BY DEF FeedInv, TicksIn, FetchIn
<1>1. ASSUME NEW k \in Key, Trade(k) PROVE FeedInv'
  <2> DEFINE n == trades[k][now] + 1
  <2>1. /\ trades[k][now] < MaxTrades /\ trades' = [trades EXCEPT ![k][now] = n]
        /\ \/ socket' = socket
           \/ socket' = Append(socket, [key |-> k, minute |-> now, nth |-> n])
        /\ UNCHANGED <<now, repeats, feedVars, aggVars, dbVars, faults>>
    BY <1>1 DEF Trade, Send
  <2>2. n \in 1..MaxTrades /\ n \in Volume /\ now \in Minute
    BY <1>0, <2>1, ConstantsOK DEF Base, Volume
  <2>3. trades' \in [Key -> [Minute -> Volume]] /\ trades'[k][now] = n
    BY <1>0, <2>1, <2>2 DEF Base
  <2>4. \A q \in Key, m \in Minute : trades[q][m] <= trades'[q][m]
    <3> SUFFICES ASSUME NEW q \in Key, NEW m \in Minute PROVE trades[q][m] <= trades'[q][m]
      OBVIOUS
    <3>1. trades[q][m] \in Nat
      BY <1>0, ConstantsOK DEF Base, Volume
    <3>2. trades'[q][m] = IF q = k /\ m = now THEN n ELSE trades[q][m]
      BY <1>0, <2>1, <2>2 DEF Base
    <3> QED BY <3>1, <3>2
  <2>5. /\ \A q \in Key : \A s : BarsIn(trades, q, s) => BarsIn(trades', q, s)
        /\ \A q \in Key : \A b, l, p : OpenIn(trades, q, b, l, p) => OpenIn(trades', q, b, l, p)
        /\ \A f : FetchIn(trades, f) => FetchIn(trades', f)
        /\ \A s : TicksIn(trades, s) => TicksIn(trades', s)
    BY <1>0, <2>3, <2>4, MoreTrades DEF Base
  <2>6. Base'
    BY <1>0, <2>1, <2>3 DEF Base, feedVars
  <2>7. Shapes'
    BY <1>0, <2>1 DEF Shapes, feedVars, aggVars
  <2>8. TicksIn(trades', socket')
    <3>1. TicksIn(trades', socket) /\ n <= trades'[k][now]
      BY <1>0, <2>2, <2>3, <2>5
    <3>2. TicksIn(trades', Append(socket, [key |-> k, minute |-> now, nth |-> n]))
      <4> HIDE DEF n
      <4> QED BY <2>2, <3>1, OneMoreTick
    <3> QED BY <2>1, <3>1, <3>2
  <2>9. StoredOK'
    <3> SUFFICES ASSUME NEW q \in Key, NEW m \in Minute PROVE store[q][m] <= trades'[q][m]
      BY <1>0, <2>1 DEF StoredOK, dbVars
    <3>1. store[q][m] \in Nat /\ trades[q][m] \in Nat /\ trades'[q][m] \in Nat
      BY <1>0, <2>3, ConstantsOK DEF StoredOK, Base, Volume
    <3>2. store[q][m] <= trades[q][m] /\ trades[q][m] <= trades'[q][m]
      BY <1>0, <2>4 DEF StoredOK
    <3> QED BY <3>1, <3>2
  <2>10. FetchedOK'
    BY <1>0, <2>1, <2>5 DEF FetchedOK, dbVars
  <2>11. \A q \in Key : KeyOK(q)'
    BY <2>1, <2>5 DEF FeedInv, KeyOK, feedVars, aggVars
  <2> QED BY <2>6, <2>7, <2>8, <2>9, <2>10, <2>11 DEF FeedInv
<1>2. CASE NextMinute
  <2>1. /\ now < MaxMinute /\ now' = now + 1
        /\ UNCHANGED <<trades, socket, repeats, phase, after, subscribed, todo, pending, inflight,
                       bucket, last, completed, store, fetched, faults>>
    BY <1>2 DEF NextMinute, feedVars, aggVars, dbVars
  <2>2. now' \in Minute
    BY <1>0, <2>1, ConstantsOK DEF Base, Minute
  <2>3. Base'
    BY <1>0, <2>1, <2>2 DEF Base
  <2>4. StoredOK' /\ FetchedOK' /\ TicksIn(trades, socket)'
    BY <1>0, <2>1 DEF StoredOK, FetchedOK
  <2> QED BY <2>1, <2>3, <2>4, KeysKept DEF FeedInv
<1>3. ASSUME NEW k \in Key, Repeat(k) PROVE FeedInv'
  <2>0. PICK m \in Minute : \E n \in 1..trades[k][m] : Send(k, m, n)
    BY <1>3 DEF Repeat
  <2>1. PICK n \in 1..trades[k][m] :
          \/ socket' = socket
          \/ socket' = Append(socket, [key |-> k, minute |-> m, nth |-> n])
    BY <2>0 DEF Send
  <2>2. /\ repeats < MaxRepeats /\ repeats' = repeats + 1
        /\ UNCHANGED <<now, trades, phase, after, subscribed, todo, pending, inflight,
                       bucket, last, completed, store, fetched, faults>>
    BY <1>3 DEF Repeat, feedVars, aggVars, dbVars
  <2>3. trades[k][m] \in Volume
    BY <1>0 DEF Base
  <2>4. n \in 1..MaxTrades /\ n <= trades[k][m]
    BY <2>3, ConstantsOK DEF Volume
  <2>5. TicksIn(trades, Append(socket, [key |-> k, minute |-> m, nth |-> n]))
    BY <1>0, <2>4, OneMoreTick
  <2>6. TicksIn(trades, socket)'
    BY <1>0, <2>1, <2>2, <2>5
  <2>7. Base'
    BY <1>0, <2>2, ConstantsOK DEF Base
  <2>8. StoredOK' /\ FetchedOK'
    BY <1>0, <2>2 DEF StoredOK, FetchedOK
  <2> QED BY <2>2, <2>6, <2>7, <2>8, KeysKept DEF FeedInv
<1>4. CASE Receive
  <2> DEFINE x == Head(socket)
  <2>1. /\ socket # <<>> /\ Ingest(x) /\ socket' = Tail(socket) /\ phase' \in {"streaming", "flush"}
        /\ UNCHANGED <<now, trades, repeats, after, subscribed, todo, inflight, store, fetched, faults>>
    BY <1>4 DEF Receive, dbVars
  <2>2. x \in Tick /\ x.nth <= trades[x.key][x.minute] /\ TicksIn(trades, Tail(socket))
    BY <1>0, <2>1, OneTickLess
  <2> HIDE DEF x
  <2>3. Shapes' /\ \A k \in Key : KeyOK(k)'
    BY <2>1, <2>2, IngestStep
  <2>4. Base' /\ TicksIn(trades, socket)'
    BY <1>0, <2>1, <2>2 DEF Base
  <2>5. StoredOK' /\ FetchedOK'
    BY <1>0, <2>1 DEF StoredOK, FetchedOK
  <2> QED BY <2>3, <2>4, <2>5 DEF FeedInv
<1>5. ASSUME UNCHANGED <<now, trades, repeats, pending, inflight, bucket, last, completed, store>>,
             phase' \in {"idle", "filling", "streaming", "flush", "flushing", "publishing"},
             after' \in {"streaming", "closing"}, subscribed' \in SUBSET Key,
             todo' \in SUBSET subscribed', faults' \in 0..MaxFaults,
             socket' = socket \/ socket' = <<>>, FetchedOK'
      PROVE  FeedInv'
  <2>1. Base' /\ StoredOK' /\ TicksIn(trades, socket)'
    BY <1>0, <1>5 DEF Base, StoredOK
  <2> QED BY <1>5, <2>1, KeysKept DEF FeedInv
<1>6. CASE Connect
  <2>1. /\ UNCHANGED <<now, trades, repeats, pending, inflight, bucket, last, completed, store,
                       fetched, faults>>
        /\ \E active \in SUBSET Key : subscribed' = active /\ todo' = active
        /\ phase' = "filling" /\ after' = "streaming" /\ socket' = <<>>
    BY <1>6 DEF Connect, aggVars, dbVars
  <2>2. FetchedOK'
    BY <1>0, <2>1 DEF FetchedOK
  <2> QED BY <1>0, <1>5, <2>1, <2>2 DEF Base
<1>7. CASE FillTimesOut
  <2>1. /\ UNCHANGED <<now, trades, socket, repeats, after, subscribed, pending, inflight, bucket,
                       last, completed, store, faults>>
        /\ phase' = "streaming" /\ todo' = {}
        /\ fetched' = [fetched EXCEPT !["gapfill"] = NoFetch]
    BY <1>7 DEF FillTimesOut, wireVars, aggVars
  <2>2. FetchedOK'
    BY <1>0, <2>1, FetchedKept, ConstantsOK
  <2> QED BY <1>0, <1>5, <2>1, <2>2 DEF Base
<1>8. CASE FillDone \/ StaleTimeout \/ FlushPublished
  <2>1. /\ UNCHANGED <<now, trades, socket, repeats, subscribed, todo, pending, inflight, bucket,
                       last, completed, store, fetched, faults>>
        /\ phase' \in {"idle", "streaming", "flush"} /\ after' \in {after, "closing"}
    BY <1>8 DEF FillDone, StaleTimeout, FlushPublished, Resume, LeaveLoop, wireVars, aggVars, dbVars
  <2>2. FetchedOK'
    BY <1>0, <2>1 DEF FetchedOK
  <2> QED BY <1>0, <1>5, <2>1, <2>2 DEF Base
<1>9. CASE Disconnect
  <2>1. /\ UNCHANGED <<now, trades, repeats, subscribed, pending, inflight, bucket, last, completed,
                       store>>
        /\ phase' = "flush" /\ after' = "closing" /\ faults < MaxFaults /\ faults' = faults + 1
        /\ socket' = <<>> /\ todo' = {} /\ fetched' = [fetched EXCEPT !["gapfill"] = NoFetch]
    BY <1>9 DEF Disconnect, LeaveLoop, aggVars
  <2>2. FetchedOK' /\ faults' \in 0..MaxFaults
    <3>1. faults' \in 0..MaxFaults
      BY <1>0, <2>1, ConstantsOK DEF Base
    <3>2. FetchedOK'
      BY <1>0, <2>1, FetchedKept, ConstantsOK
    <3> QED BY <3>1, <3>2
  <2> QED BY <1>0, <1>5, <2>1, <2>2 DEF Base
<1>10. ASSUME UNCHANGED <<now, trades, repeats, subscribed, todo, bucket, last, completed, fetched>>,
              phase' \in {"idle", "streaming", "flush", "flushing", "publishing"},
              after' \in {"streaming", "closing"}, faults' \in 0..MaxFaults, StoredOK',
              socket' = socket \/ socket' = <<>>,
              pending' = pending \/ pending' = NoCandles,
              inflight' \in {inflight, pending, NoCandles}
       PROVE  FeedInv'
  <2>1. Base' /\ TicksIn(trades, socket)' /\ FetchedOK'
    BY <1>0, <1>10 DEF Base, FetchedOK
  <2>2. Shapes'
    BY <1>0, <1>10 DEF Shapes, NoCandles
  <2>3. ASSUME NEW k \in Key PROVE KeyOK(k)'
    <3>1. /\ OpenIn(trades, k, bucket[k], last[k], pending[k])
          /\ BarsIn(trades, k, pending[k]) /\ BarsIn(trades, k, inflight[k])
      BY DEF FeedInv, KeyOK
    <3>2. pending'[k] = pending[k] \/ pending'[k] = <<>>
      BY <1>10 DEF NoCandles
    <3>3. inflight'[k] = inflight[k] \/ inflight'[k] = pending[k] \/ inflight'[k] = <<>>
      BY <1>10 DEF NoCandles
    <3>4. OpenIn(trades, k, bucket[k], last[k], <<>>)
      BY <3>1 DEF OpenIn
    <3> QED BY <1>10, <3>1, <3>2, <3>3, <3>4, NoBars DEF KeyOK
  <2> QED BY <1>10, <2>1, <2>2, <2>3 DEF FeedInv
<1>11. CASE FlushBegin
  <2>1. /\ UNCHANGED <<now, trades, socket, repeats, after, subscribed, todo, bucket, last, completed,
                       store, fetched, faults>>
        /\ phase' \in {"idle", "streaming", "flushing"}
        /\ pending' = pending \/ pending' = NoCandles
        /\ inflight' \in {inflight, pending}
    BY <1>11 DEF FlushBegin, TakePending, Resume, wireVars, aggVars, dbVars
  <2>2. StoredOK'
    BY <1>0, <2>1 DEF StoredOK
  <2> QED BY <1>0, <1>10, <2>1, <2>2 DEF Base
<1>12. CASE FlushCommit
  <2>1. /\ UNCHANGED <<now, trades, socket, repeats, after, subscribed, todo, pending, bucket, last,
                       completed, fetched, faults>>
        /\ phase' = "publishing" /\ inflight' = NoCandles
        /\ store' = [k \in Key |-> [m \in Minute |->
                       IF k \in subscribed THEN Written(k, m) ELSE store[k][m]]]
    BY <1>12 DEF FlushCommit, wireVars, aggVars
  <2>2. StoredOK'
    <3>1. ASSUME NEW k \in Key, NEW m \in Minute
          PROVE  store'[k][m] \in Volume /\ store'[k][m] <= trades[k][m]
      <4>1. /\ Written(k, m) \in Volume /\ Written(k, m) <= trades[k][m]
            /\ store[k][m] \in Volume /\ store[k][m] <= trades[k][m]
        BY <1>0, WrittenBar DEF StoredOK
      <4>2. store'[k][m] = Written(k, m) \/ store'[k][m] = store[k][m]
        BY <2>1
      <4> QED BY <4>1, <4>2
    <3>2. store' \in [Key -> [Minute -> Volume]]
      <4>1. store' = [k \in Key |-> store'[k]] /\ \A k \in Key : store'[k] = [m \in Minute |-> store'[k][m]]
        BY <2>1
      <4> QED BY <3>1, <4>1
    <3> QED BY <2>1, <3>1, <3>2 DEF StoredOK
  <2> QED BY <1>0, <1>10, <2>1, <2>2 DEF Base
<1>13. CASE FlushFails
  <2>1. /\ UNCHANGED <<now, trades, repeats, subscribed, todo, pending, bucket, last, completed,
                       store, fetched>>
        /\ phase' \in {"idle", "flush"} /\ after' \in {after, "closing"} /\ socket' = <<>>
        /\ faults < MaxFaults /\ faults' = faults + 1 /\ inflight' = NoCandles
    BY <1>13 DEF FlushFails, LeaveLoop, aggVars, dbVars
  <2>2. StoredOK' /\ faults' \in 0..MaxFaults
    BY <1>0, <2>1, ConstantsOK DEF StoredOK, Base
  <2> QED BY <1>0, <1>10, <2>1, <2>2 DEF Base
<1>14. CASE Crash
  <2>1. /\ UNCHANGED <<now, trades, repeats, store>> /\ faults < MaxFaults /\ faults' = faults + 1
        /\ phase' = "idle" /\ after' = "streaming" /\ subscribed' = {} /\ todo' = {}
        /\ socket' = <<>> /\ pending' = NoCandles /\ inflight' = NoCandles
        /\ bucket' = [k \in Key |-> NoBucket] /\ last' = [k \in Key |-> <<0, 0>>]
        /\ completed' = [k \in Key |-> {}] /\ fetched' = [r \in Rest |-> NoFetch]
    BY <1>14 DEF Crash
  <2>2. Base' /\ StoredOK' /\ TicksIn(trades, socket)'
    BY <1>0, <2>1, ConstantsOK DEF Base, StoredOK
  <2>3. FetchedOK' /\ Shapes'
    BY <1>0, <2>1 DEF FetchedOK, Shapes, NoCandles
  <2>4. \A k \in Key : KeyOK(k)'
    BY <2>1, NoBars DEF KeyOK, OpenIn, NoCandles
  <2> QED BY <2>2, <2>3, <2>4 DEF FeedInv
<1>15. ASSUME NEW r \in Rest, NEW k \in Key, Fetch(r, k) PROVE FeedInv'
  <2> DEFINE f == [key |-> {k}, bars |-> trades[k]]
  <2>1. /\ UNCHANGED <<now, trades, socket, repeats, phase, after, subscribed, todo, pending, inflight,
                       bucket, last, completed, store, faults>>
        /\ fetched' = [fetched EXCEPT ![r] = f]
    BY <1>15 DEF Fetch, wireVars, feedVars, aggVars
  <2>2. FetchIn(trades, f)
    BY <1>0, ConstantsOK DEF FetchIn, Base, Volume
  <2> HIDE DEF f
  <2>3. FetchedOK'
    BY <1>0, <2>1, <2>2, FetchedKept
  <2> QED BY <1>0, <1>5, <2>1, <2>3 DEF Base
<1>16. ASSUME NEW r \in Rest, NEW k \in Key, Write(r, k) PROVE FeedInv'
  <2> DEFINE bars == fetched[r].bars
  <2>1. /\ UNCHANGED <<now, trades, socket, repeats, phase, after, subscribed, pending, inflight,
                       bucket, last, completed, faults>>
        /\ fetched' = [fetched EXCEPT ![r] = NoFetch] /\ todo' \in {todo, todo \ {k}}
        /\ fetched[r].key = {k}
        /\ store' = [store EXCEPT ![k] = [m \in Minute |-> IF bars[m] > 0 THEN bars[m] ELSE @[m]]]
    BY <1>16 DEF Write, Upsert, wireVars, aggVars
  <2>2. bars \in [Minute -> Volume] /\ \A m \in Minute : bars[m] <= trades[k][m]
    <3>1. FetchIn(trades, fetched[r])
      BY <1>0 DEF FetchedOK
    <3> QED BY <2>1, <3>1 DEF FetchIn, NoFetch
  <2>3. FetchedOK'
    BY <1>0, <2>1, FetchedKept
  <2>4. StoredOK'
    BY <1>0, <2>1, <2>2 DEF StoredOK
  <2>5. Base'
    BY <1>0, <2>1 DEF Base
  <2>6. TicksIn(trades, socket)'
    BY <1>0, <2>1
  <2> QED BY <2>1, <2>3, <2>4, <2>5, <2>6, KeysKept DEF FeedInv
<1>17. ASSUME NEW r \in Rest, NEW k \in Key, SkipSymbol(r, k) PROVE FeedInv'
  <2>1. /\ UNCHANGED <<now, trades, socket, repeats, phase, after, subscribed, pending, inflight,
                       bucket, last, completed, store>>
        /\ faults < MaxFaults /\ faults' = faults + 1
        /\ fetched' = [fetched EXCEPT ![r] = NoFetch] /\ todo' \in {todo, todo \ {k}}
    BY <1>17 DEF SkipSymbol, wireVars, aggVars
  <2>2. FetchedOK' /\ faults' \in 0..MaxFaults
    <3>1. faults' \in 0..MaxFaults
      BY <1>0, <2>1, ConstantsOK DEF Base
    <3>2. FetchedOK'
      BY <1>0, <2>1, FetchedKept, ConstantsOK
    <3> QED BY <3>1, <3>2
  <2> QED BY <1>0, <1>5, <2>1, <2>2 DEF Base
<1>18. CASE UNCHANGED vars
  <2>1. UNCHANGED <<now, trades, socket, repeats, phase, after, subscribed, todo, pending, inflight,
                    bucket, last, completed, store, fetched, faults>>
    BY <1>18 DEF vars, wireVars, feedVars, aggVars, dbVars
  <2>2. FetchedOK'
    BY <1>0, <2>1 DEF FetchedOK
  <2> QED BY <1>0, <1>5, <2>1, <2>2 DEF Base
<1> QED BY <1>1, <1>2, <1>3, <1>4, <1>6, <1>7, <1>8, <1>9, <1>11, <1>12, <1>13, <1>14, <1>15, <1>16,
       <1>17, <1>18 DEF Next, Feed

(* Before the first trade nothing is overstated. *)
LEMMA InitFeedInv == Init => FeedInv
<1> SUFFICES ASSUME Init PROVE FeedInv
  OBVIOUS
<1>1. 0 \in Volume /\ 0 <= 0 /\ 1 \in Minute
  BY ConstantsOK DEF Volume, Minute
<1>2. Base
  BY <1>1, ConstantsOK DEF Init, Base
<1>3. Shapes
  BY DEF Init, Shapes, NoCandles
<1>4. TicksIn(trades, socket)
  BY DEF Init, TicksIn
<1>5. StoredOK /\ FetchedOK
  BY <1>1 DEF Init, StoredOK, FetchedOK, FetchIn
<1>6. \A k \in Key : KeyOK(k)
  BY NoBars DEF Init, KeyOK, OpenIn, NoCandles
<1> QED BY <1>2, <1>3, <1>4, <1>5, <1>6 DEF FeedInv

-----------------------------------------------------------------------------
(* The theorems                                                            *)

(* FeedInv is an invariant. *)
LEMMA FeedInvariant == Spec => []FeedInv
BY InitFeedInv, NextFeedInv, PTL DEF Spec

(* Every variable has its type. *)
THEOREM TypeCorrect == Spec => []TypeOK
<1>1. FeedInv => TypeOK
  <2> SUFFICES ASSUME FeedInv PROVE TypeOK
    OBVIOUS
  <2>1. WireOK
    BY DEF FeedInv, Base, TicksIn, WireOK
  <2>2. pending \in [Key -> Seq(Candle)] /\ inflight \in [Key -> Seq(Candle)]
    BY DEF FeedInv, Shapes, KeyOK, BarsIn
  <2>3. FeedOK
    BY <2>2 DEF FeedInv, Base, FeedOK
  <2>4. ASSUME NEW k \in Key
        PROVE  bucket[k] \in Candle \cup {NoBucket} /\ last[k] \in (0..MaxMinute) \X Volume
    <3>1. OpenIn(trades, k, bucket[k], last[k], pending[k])
      BY DEF FeedInv, KeyOK
    <3>2. <<0, 0>> \in (0..MaxMinute) \X Volume /\ Minute \subseteq 0..MaxMinute
      BY ConstantsOK DEF Volume, Minute
    <3> QED BY <3>1, <3>2 DEF OpenIn
  <2>5. AggOK
    BY <2>4 DEF FeedInv, Shapes, AggOK
  <2>6. DbOK
    <3>1. \A r \in Rest : fetched[r] \in {NoFetch} \cup [key : {{k} : k \in Key}, bars : [Minute -> Volume]]
      BY DEF FeedInv, FetchedOK, FetchIn
    <3> QED BY <3>1 DEF FeedInv, Base, StoredOK, FetchedOK, DbOK
  <2> QED BY <2>1, <2>3, <2>5, <2>6 DEF TypeOK
<1> QED BY <1>1, FeedInvariant, PTL

(* No bar, in memory or stored, counts a trade twice: the last trade time  *)
(* survives reconnects, and a bucket is only reopened for a later minute.  *)
THEOREM NoOverstatement == Spec => []NeverOverstates
<1>1. FeedInv => NeverOverstates
  <2> SUFFICES ASSUME FeedInv PROVE NeverOverstates
    OBVIOUS
  <2>1. \A k \in Key, m \in Minute : store[k][m] <= trades[k][m]
    BY DEF FeedInv, StoredOK
  <2>2. ASSUME NEW k \in Key, bucket[k] # NoBucket
        PROVE  bucket[k].volume <= trades[k][bucket[k].minute]
    <3>1. /\ bucket[k] \in Candle /\ last[k] \in Minute \X Volume
          /\ last[k][1] = bucket[k].minute /\ bucket[k].volume <= last[k][2]
          /\ last[k][2] <= trades[k][last[k][1]]
      BY <2>2 DEF FeedInv, KeyOK, OpenIn
    <3>2. bucket[k].volume \in Nat /\ last[k][2] \in Nat /\ trades[k][bucket[k].minute] \in Nat
      BY <3>1, ConstantsOK DEF FeedInv, Base, Candle, Volume
    <3> QED BY <3>1, <3>2
  <2>3. ASSUME NEW k \in Key, NEW i \in DOMAIN pending[k]
        PROVE  pending[k][i].volume <= trades[k][pending[k][i].minute]
    <3>1. BarsIn(trades, k, pending[k])
      BY DEF FeedInv, KeyOK
    <3>2. i \in 1..Len(pending[k])
      BY <3>1 DEF BarsIn
    <3> QED BY <3>1, <3>2 DEF BarsIn, BarIn
  <2> QED BY <2>1, <2>2, <2>3 DEF NeverOverstates
<1> QED BY <1>1, FeedInvariant, PTL

(* The candles waiting for a flush are in time order, one per minute, and  *)
(* older than the open bucket, whatever the server repeats or reorders.    *)
THEOREM PendingOrder == Spec => []PendingInOrder
<1>1. FeedInv => PendingInOrder
  <2> SUFFICES ASSUME FeedInv, NEW k \in Key
               PROVE  /\ \A i, j \in DOMAIN pending[k] :
                           i < j => pending[k][i].minute < pending[k][j].minute
                      /\ \A i \in DOMAIN pending[k] : pending[k][i].minute < bucket[k].minute
    BY DEF PendingInOrder
  <2>1. BarsIn(trades, k, pending[k]) /\ OpenIn(trades, k, bucket[k], last[k], pending[k])
    BY DEF FeedInv, KeyOK
  <2>2. DOMAIN pending[k] = 1..Len(pending[k])
    BY <2>1 DEF BarsIn
  <2>3. \A i \in 1..Len(pending[k]) : pending[k][i].minute < bucket[k].minute
    BY <2>1 DEF OpenIn
  <2> QED BY <2>1, <2>2, <2>3 DEF BarsIn
<1> QED BY <1>1, FeedInvariant, PTL
=============================================================================
