-------------------------- MODULE DeviceLogsProofs --------------------------
(***************************************************************************)
(* The logs of a device, for every limit, chunk size and number of lines,  *)
(* instances and readers.  A streaming write loses no line:                *)
(* LinesAccountedFor, BufferWillFlush and BufferBounded.  A streaming read *)
(* of an instance that keeps its connection is counted and misses nothing: *)
(* StreamInv and NothingMissed.                                            *)
(***************************************************************************)
EXTENDS DeviceLogs, FiniteSetTheorems, SequenceTheorems, TLAPS

(* What is buffered is the end of what was received ...                    *)
Buffered ==
    /\ Len(buffer) <= received
    /\ \A k \in 1 .. Len(buffer) : buffer[k] = Line(received - Len(buffer) + k)

(* ... and the rest of it is in the list or on its way there.              *)
Published ==
    /\ Continues(feed, 0)
    /\ Continues(inflight, LastOf(feed, 0))
    /\ ~Failed => LastOf(inflight, LastOf(feed, 0)) = received - Len(buffer)

(* publishScheduled holds exactly while a timer or a batch will end it,    *)
(* until a publish fails.                                                  *)
Scheduling ==
    /\ timer => publishScheduled /\ inflight = <<>> /\ buffer # <<>>
    /\ inflight # <<>> => publishScheduled
    /\ ~publishScheduled => buffer = <<>>
    /\ paused => buffer # <<>>

BackPressure ==
    /\ ~paused => Len(buffer) < BufferLimit
    /\ Len(buffer) < BufferLimit + MaxChunk

WInv == WriteTypeOK /\ Buffered /\ Published /\ Scheduling /\ BackPressure

-----------------------------------------------------------------------------
(* Two runs of lines, one after the other.                                 *)
LEMMA ContinuesConcat ==
    ASSUME NEW s \in Seq(Item), NEW t \in Seq(Item), NEW n \in Nat,
           Continues(s, n), Continues(t, LastOf(s, n))
    PROVE  /\ s \o t \in Seq(Item)
           /\ Continues(s \o t, n)
           /\ LastOf(s \o t, n) = LastOf(t, LastOf(s, n))
<1> DEFINE u == s \o t
<1>1. u \in Seq(Item) /\ Len(u) = Len(s) + Len(t)
  OBVIOUS
<1>2. \A k \in 1 .. Len(s) : u[k] = s[k]
  OBVIOUS
<1>3. \A k \in 1 .. Len(t) : u[Len(s) + k] = t[k]
  OBVIOUS
<1>4. \A k \in Len(s) + 1 .. Len(u) : k - Len(s) \in 1 .. Len(t) /\ u[k] = t[k - Len(s)]
  BY <1>1, <1>3
<1>5. Len(s) \in Nat /\ Len(t) \in Nat
  OBVIOUS
<1>6. Continues(u, n)
  <2> SUFFICES ASSUME NEW k \in 1 .. Len(u)
               PROVE  u[k].from = 1 + (IF k = 1 THEN n ELSE u[k - 1].upto)
    BY DEF Continues
  <2>1. CASE k <= Len(s)
    <3>1. k \in 1 .. Len(s) /\ (k # 1 => k - 1 \in 1 .. Len(s))
      BY <2>1, <1>1, <1>5
    <3>2. u[k] = s[k] /\ (k # 1 => u[k - 1] = s[k - 1])
      BY <3>1, <1>2
    <3> QED
      BY <3>1, <3>2 DEF Continues
  <2>2. CASE k = Len(s) + 1
    <3>1. 1 \in 1 .. Len(t) /\ u[k] = t[1]
      BY <2>2, <1>1, <1>4, <1>5
    <3>2. t[1].from = 1 + LastOf(s, n)
      BY <3>1 DEF Continues
    <3>3. CASE s = <<>>
      BY <3>1, <3>2, <3>3, <2>2 DEF LastOf
    <3>4. CASE s # <<>>
      <4>1. k # 1 /\ k - 1 = Len(s) /\ Len(s) \in 1 .. Len(s)
        BY <3>4, <2>2, <1>5
      <4> QED
        BY <4>1, <3>1, <3>2, <3>4, <1>2 DEF LastOf
    <3> QED
      BY <3>3, <3>4
  <2>3. CASE k > Len(s) + 1
    <3>1. /\ k - Len(s) \in 1 .. Len(t) /\ k - Len(s) # 1
          /\ u[k] = t[k - Len(s)]
          /\ k - 1 \in Len(s) + 1 .. Len(u)
      BY <2>3, <1>1, <1>4, <1>5
    <3>2. u[k - 1] = t[k - 1 - Len(s)]
      BY <3>1, <1>4
    <3>3. t[k - Len(s)].from = 1 + t[k - Len(s) - 1].upto
      BY <3>1 DEF Continues
    <3>4. k - Len(s) - 1 = k - 1 - Len(s) /\ k # 1
      BY <2>3, <1>1, <1>5
    <3> QED
      BY <3>1, <3>2, <3>3, <3>4
  <2> QED
    BY <2>1, <2>2, <2>3, <1>1, <1>5
<1>7. LastOf(u, n) = LastOf(t, LastOf(s, n))
  <2>1. CASE t = <<>>
    BY <2>1 DEF LastOf
  <2>2. CASE t # <<>>
    <3>1. u # <<>> /\ Len(u) \in Len(s) + 1 .. Len(u) /\ Len(u) - Len(s) = Len(t)
      BY <2>2, <1>1, <1>5
    <3> QED
      BY <3>1, <2>2, <1>4 DEF LastOf
  <2> QED
    BY <2>1, <2>2
<1> QED
  BY <1>1, <1>6, <1>7

(* A run of single lines.                                                  *)
Lines(b, m) == \A k \in 1 .. Len(b) : b[k] = Line(m + k)

LEMMA LineFields == \A i : Line(i).from = i /\ Line(i).upto = i
BY DEF Line

LEMMA LinesContinue ==
    ASSUME NEW b \in Seq(Item), NEW m \in Nat, Lines(b, m)
    PROVE  Continues(b, m) /\ LastOf(b, m) = m + Len(b)
<1>1. Continues(b, m)
  <2> SUFFICES ASSUME NEW k \in 1 .. Len(b)
               PROVE  b[k].from = 1 + (IF k = 1 THEN m ELSE b[k - 1].upto)
    BY DEF Continues
  <2>1. b[k].from = m + k
    BY LineFields DEF Lines
  <2>2. CASE k = 1
    BY <2>1, <2>2
  <2>3. CASE k # 1
    <3>1. k - 1 \in 1 .. Len(b)
      BY <2>3
    <3>2. b[k - 1].upto = m + (k - 1)
      BY <3>1, LineFields DEF Lines
    <3> QED
      BY <2>1, <2>3, <3>2
  <2> QED
    BY <2>2, <2>3
<1>2. LastOf(b, m) = m + Len(b)
  <2>1. CASE b = <<>>
    BY <2>1 DEF LastOf
  <2>2. CASE b # <<>>
    <3>1. Len(b) \in 1 .. Len(b)
      BY <2>2
    <3> QED
      BY <3>1, <2>2, LineFields DEF LastOf, Lines
  <2> QED
    BY <2>1, <2>2
<1> QED
  BY <1>1, <1>2

(* The warning stands for exactly the lines the splice removes.            *)
LEMMA TruncatedLines ==
    ASSUME NEW b \in Seq(Item), NEW m \in Nat, Lines(b, m), b # <<>>,
           BufferLimit \in Nat \ {0}
    PROVE  /\ Truncated(b) \in Seq(Item)
           /\ Truncated(b) # <<>>
           /\ Continues(Truncated(b), m)
           /\ LastOf(Truncated(b), m) = m + Len(b)
<1>1. CASE Len(b) <= BufferLimit
  BY <1>1, LinesContinue DEF Truncated
<1>2. CASE Len(b) > BufferLimit
  <2> DEFINE d == Len(b) - BufferLimit
             w == [from |-> b[1].from, upto |-> b[d].upto, warning |-> TRUE]
             t == SubSeq(b, d + 1, Len(b))
  <2>1. d \in 1 .. Len(b) /\ 1 \in 1 .. Len(b) /\ d + 1 \in 1 .. Len(b)
    BY <1>2
  <2>2. Truncated(b) = <<w>> \o t
    BY <1>2 DEF Truncated
  <2>3. w \in Item /\ w.from = m + 1 /\ w.upto = m + d
    <3>1. b[1] \in Item /\ b[d] \in Item
      BY <2>1
    <3>2. b[1].from = m + 1 /\ b[d].upto = m + d
      BY <2>1, LineFields DEF Lines
    <3> QED
      BY <3>1, <3>2 DEF Item
  <2>4. t \in Seq(Item) /\ Len(t) = Len(b) - d
    BY <2>1
  <2>5. Lines(t, m + d)
    <3> SUFFICES ASSUME NEW k \in 1 .. Len(t) PROVE t[k] = Line((m + d) + k)
      BY DEF Lines
    <3>1. d + k \in 1 .. Len(b) /\ t[k] = b[d + k]
      BY <2>1, <2>4
    <3>2. b[d + k] = Line(m + (d + k))
      BY <3>1 DEF Lines
    <3>3. m + (d + k) = (m + d) + k
      BY <2>1
    <3> QED
      BY <3>1, <3>2, <3>3
  <2> HIDE DEF d, w, t
  <2>6. Continues(t, m + d) /\ LastOf(t, m + d) = (m + d) + Len(t)
    BY <2>1, <2>4, <2>5, LinesContinue
  <2>7. <<w>> \in Seq(Item) /\ Continues(<<w>>, m) /\ LastOf(<<w>>, m) = m + d
    BY <2>3 DEF Continues, LastOf
  <2>8. /\ <<w>> \o t \in Seq(Item)
        /\ Continues(<<w>> \o t, m)
        /\ LastOf(<<w>> \o t, m) = (m + d) + Len(t)
    <3>1. Continues(t, LastOf(<<w>>, m))
      BY <2>6, <2>7
    <3>2. /\ <<w>> \o t \in Seq(Item)
          /\ Continues(<<w>> \o t, m)
          /\ LastOf(<<w>> \o t, m) = LastOf(t, LastOf(<<w>>, m))
      BY <2>4, <2>7, <3>1, ContinuesConcat
    <3> QED
      BY <2>6, <2>7, <3>2
  <2>9. <<w>> \o t # <<>>
    BY <2>4, <2>7
  <2>10. (m + d) + Len(t) = m + Len(b)
    BY <2>1, <2>4
  <2> QED
    BY <2>2, <2>8, <2>9, <2>10
<1> QED
  BY <1>1, <1>2

LEMMA LimitPositive == BufferLimit \in Nat \ {0}
BY WriteAssumption DEF BufferLimit

-----------------------------------------------------------------------------
(* A step of the connection alone.                                         *)
LEMMA Unaffected ==
    ASSUME WInv,
           UNCHANGED <<received, buffer, paused, timer, publishScheduled, inflight, feed>>,
           up' \in [Instances -> BOOLEAN]
    PROVE  WInv'
BY DEF WInv, WriteTypeOK, Buffered, Published, Failed, Scheduling, BackPressure

LEMMA DataStep ==
    ASSUME WInv, NEW k \in 1 .. MaxChunk, Data(k)
    PROVE  WInv'
<1> USE WriteAssumption, LimitPositive
<1> DEFINE new == [j \in 1 .. k |-> Line(received + j)]
<1>0. k \in Nat /\ k > 0 /\ MaxChunk \in Nat
  OBVIOUS
<1>1. new \in Seq(Item) /\ Len(new) = k /\ \A j \in 1 .. k : new[j] = Line(received + j)
  <2>1. \A j \in 1 .. k : Line(received + j) \in Item
    BY <1>0 DEF Data, Line, Item, WInv, WriteTypeOK
  <2>2. new \in [1 .. k -> Item]
    BY <2>1
  <2>3. new \in Seq(Item)
    BY <2>2, <1>0
  <2> QED
    BY <2>2, <2>3, <1>0
<1> HIDE DEF new
<1>2. /\ buffer' = buffer \o new /\ received' = received + k
      /\ received + k <= MaxLogs
      /\ UNCHANGED <<inflight, feed, up>>
      /\ ~paused /\ paused' = (Len(buffer) + k >= BufferLimit \/ ~available)
      /\ IF buffer = <<>> THEN Schedule ELSE UNCHANGED <<timer, publishScheduled>>
  BY DEF Data, new
<1>3. buffer \in Seq(Item) /\ received \in Nat /\ Len(buffer) \in Nat /\ Len(buffer) <= received
  BY DEF WInv, WriteTypeOK, Buffered
<1>4. buffer' \in Seq(Item) /\ Len(buffer') = Len(buffer) + k /\ buffer' # <<>>
  <2>1. buffer \o new \in Seq(Item) /\ Len(buffer \o new) = Len(buffer) + k
    BY <1>1, <1>3
  <2>2. Len(buffer) + k # 0
    BY <1>0, <1>3
  <2> QED
    BY <2>1, <2>2, <1>2
<1>5. /\ timer' \in BOOLEAN /\ publishScheduled' = TRUE /\ (timer' => timer \/ ~publishScheduled)
      /\ (Failed <=> Failed')
  BY <1>2 DEF Schedule, WInv, WriteTypeOK, Scheduling, Failed
<1>6. WriteTypeOK'
  BY <1>0, <1>2, <1>3, <1>4, <1>5 DEF WInv, WriteTypeOK
<1>7. Buffered'
  <2>1. Len(buffer') <= received'
    BY <1>0, <1>2, <1>3, <1>4
  <2>2. ASSUME NEW j \in 1 .. Len(buffer')
        PROVE  buffer'[j] = Line(received' - Len(buffer') + j)
    <3>1. received' - Len(buffer') = received - Len(buffer)
      BY <1>0, <1>2, <1>3, <1>4
    <3>2. CASE j <= Len(buffer)
      <4>1. buffer'[j] = buffer[j] /\ j \in 1 .. Len(buffer)
        BY <3>2, <1>1, <1>2, <1>3
      <4> QED
        BY <3>1, <4>1 DEF WInv, Buffered
    <3>3. CASE j > Len(buffer)
      <4>1. j - Len(buffer) \in 1 .. k /\ buffer'[j] = new[j - Len(buffer)]
        BY <3>3, <1>0, <1>1, <1>2, <1>3, <1>4
      <4>2. received + (j - Len(buffer)) = received - Len(buffer) + j
        BY <1>3
      <4> QED
        BY <3>1, <4>1, <4>2, <1>1
    <3> QED
      BY <3>2, <3>3, <1>3, <1>4
  <2> QED
    BY <2>1, <2>2 DEF Buffered
<1>8. Published'
  <2>1. received' - Len(buffer') = received - Len(buffer)
    BY <1>0, <1>2, <1>3, <1>4
  <2> QED
    BY <2>1, <1>2, <1>5 DEF WInv, Published
<1>9. Scheduling'
  BY <1>2, <1>4, <1>5 DEF WInv, Scheduling
<1>10. BackPressure'
  <2>1. Len(buffer) < BufferLimit
    BY <1>2 DEF WInv, BackPressure
  <2>2. Len(buffer') < BufferLimit + MaxChunk
    BY <2>1, <1>0, <1>3, <1>4
  <2>3. ~paused' => Len(buffer') < BufferLimit
    <3>1. ~paused' => ~(Len(buffer) + k >= BufferLimit)
      BY <1>2
    <3> QED
      BY <3>1, <1>0, <1>3, <1>4
  <2> QED
    BY <2>2, <2>3 DEF BackPressure, BufferLimit
<1> QED
  BY <1>6, <1>7, <1>8, <1>9, <1>10 DEF WInv

LEMMA TryPublishStep ==
    ASSUME WInv, TryPublish
    PROVE  WInv'
<1> USE WriteAssumption, LimitPositive
<1> DEFINE m == received - Len(buffer)
<1>1. /\ buffer \in Seq(Item) /\ buffer # <<>> /\ m \in Nat /\ Lines(buffer, m)
      /\ received \in Nat /\ Len(buffer) \in Nat /\ m + Len(buffer) = received
  BY DEF WInv, WriteTypeOK, Buffered, TryPublish, Lines
<1>2. inflight = <<>> /\ publishScheduled /\ ~Failed
  BY DEF TryPublish, WInv, Scheduling, Failed
<1>3. LastOf(feed, 0) = m
  BY <1>2 DEF WInv, Published, LastOf
<1> HIDE DEF m
<1>4. /\ inflight' \in Seq(Item) /\ inflight' # <<>>
      /\ Continues(inflight', m) /\ LastOf(inflight', m) = m + Len(buffer)
  BY <1>1, TruncatedLines DEF TryPublish
<1>5. /\ buffer' = <<>> /\ timer' = FALSE /\ paused' = FALSE
      /\ UNCHANGED <<received, publishScheduled, feed, up>>
  BY DEF TryPublish
<1>6. buffer' \in Seq(Item) /\ Len(buffer') = 0
  BY <1>5
<1>7. WriteTypeOK'
  BY <1>4, <1>5, <1>6 DEF WInv, WriteTypeOK
<1>8. Buffered'
  BY <1>1, <1>5, <1>6 DEF Buffered
<1>9. Published'
  BY <1>1, <1>3, <1>4, <1>5, <1>6 DEF WInv, Published
<1>10. Scheduling'
  BY <1>2, <1>4, <1>5 DEF WInv, Scheduling
<1>11. BackPressure'
  BY <1>5, <1>6 DEF BackPressure, BufferLimit
<1> QED
  BY <1>7, <1>8, <1>9, <1>10, <1>11 DEF WInv

LEMMA PublishStep ==
    ASSUME WInv, Publish
    PROVE  WInv'
<1> DEFINE n == LastOf(feed, 0)
<1>1. feed \in Seq(Item) /\ inflight \in Seq(Item) /\ Continues(feed, 0) /\ Continues(inflight, n)
  BY DEF WInv, WriteTypeOK, Published
<1>2. /\ feed \o inflight \in Seq(Item)
      /\ Continues(feed \o inflight, 0)
      /\ LastOf(feed \o inflight, 0) = LastOf(inflight, n)
  BY <1>1, ContinuesConcat
<1>3. inflight # <<>> /\ ~Failed /\ LastOf(inflight, n) = received - Len(buffer)
  BY DEF Publish, Failed, WInv, Published
<1> HIDE DEF n
<1>4. /\ feed' = feed \o inflight /\ inflight' = <<>>
      /\ publishScheduled' = (buffer # <<>>) /\ timer' = (buffer # <<>>)
      /\ UNCHANGED <<received, buffer, paused, up>>
  BY DEF Publish
<1>5. inflight' \in Seq(Item) /\ Len(inflight') = 0
  BY <1>4
<1>6. WriteTypeOK'
  BY <1>2, <1>4, <1>5 DEF WInv, WriteTypeOK
<1>7. Published'
  BY <1>2, <1>3, <1>4, <1>5 DEF Published, Continues, LastOf
<1>8. Buffered' /\ Scheduling' /\ BackPressure'
  BY <1>4 DEF WInv, Buffered, Scheduling, BackPressure
<1> QED
  BY <1>6, <1>7, <1>8 DEF WInv

LEMMA PublishFailsStep ==
    ASSUME WInv, PublishFails
    PROVE  WInv'
<1>1. /\ inflight # <<>> /\ inflight' = <<>>
      /\ UNCHANGED <<received, buffer, paused, timer, publishScheduled, feed, up>>
  BY DEF PublishFails
<1>2. publishScheduled /\ ~timer
  BY <1>1 DEF WInv, Scheduling
<1>3. inflight' \in Seq(Item) /\ Len(inflight') = 0
  BY <1>1
<1>4. WriteTypeOK'
  BY <1>1, <1>3 DEF WInv, WriteTypeOK
<1>5. Published'
  BY <1>1, <1>2, <1>3 DEF WInv, Published, Continues, Failed
<1>6. Buffered' /\ Scheduling' /\ BackPressure'
  BY <1>1, <1>2 DEF WInv, Buffered, Scheduling, BackPressure
<1> QED
  BY <1>4, <1>5, <1>6 DEF WInv

LEMMA WriteStep == WInv /\ [WriteNext]_writeVars => WInv'
<1> SUFFICES ASSUME WInv, [WriteNext]_writeVars PROVE WInv'
  OBVIOUS
<1>1. ASSUME NEW k \in 1 .. MaxChunk, Data(k) PROVE WInv'
  BY <1>1, DataStep
<1>2. CASE TryPublish
  BY <1>2, TryPublishStep
<1>3. CASE Publish
  BY <1>3, PublishStep
<1>4. CASE PublishFails
  BY <1>4, PublishFailsStep
<1>5. ASSUME NEW i \in Instances, Disconnect(i) \/ Reconnect(i) PROVE WInv'
  <2>1. up' \in [Instances -> BOOLEAN]
    BY <1>5 DEF WInv, WriteTypeOK, Disconnect, Reconnect
  <2> QED
    BY <1>5, <2>1, Unaffected DEF Disconnect, Reconnect
<1>6. CASE UNCHANGED writeVars
  <2>1. up' \in [Instances -> BOOLEAN]
    BY <1>6 DEF WInv, WriteTypeOK, writeVars
  <2> QED
    BY <1>6, <2>1, Unaffected DEF writeVars
<1> QED
  BY <1>1, <1>2, <1>3, <1>4, <1>5, <1>6 DEF WriteNext

LEMMA InvInit == WriteInit => WInv
<1> SUFFICES ASSUME WriteInit PROVE WInv
  OBVIOUS
<1>1. <<>> \in Seq(Item) /\ Len(<<>>) = 0
  OBVIOUS
<1>2. WriteTypeOK
  <2>1. up \in [Instances -> BOOLEAN]
    BY DEF WriteInit
  <2>2. received \in 0 .. MaxLogs
    BY WriteAssumption DEF WriteInit
  <2> QED
    BY <1>1, <2>1, <2>2 DEF WriteInit, WriteTypeOK
<1>3. Buffered
  BY <1>1 DEF WriteInit, Buffered
<1>4. Published
  <2>1. Continues(<<>>, 0) /\ LastOf(<<>>, 0) = 0
    BY <1>1 DEF Continues, LastOf
  <2>2. received - Len(buffer) = 0
    <3>1. received = 0 /\ Len(buffer) = 0
      BY <1>1 DEF WriteInit
    <3> QED
      BY <3>1
  <2> QED
    BY <2>1, <2>2 DEF WriteInit, Published
<1>5. Scheduling
  BY DEF WriteInit, Scheduling
<1>6. BackPressure
  BY <1>1, LimitPositive, WriteAssumption DEF WriteInit, BackPressure
<1> QED
  BY <1>2, <1>3, <1>4, <1>5, <1>6 DEF WInv

(* Every step of the stream and of its connection keeps the invariant.     *)
THEOREM Inductive == WriteSpec => []WInv
  BY InvInit, WriteStep, PTL DEF WriteSpec

(* Every line a device sent is in its list, on its way there, buffered or  *)
(* counted by a warning, in order, whatever the limits, the chunks and the *)
(* outages of the backend (store.ts, handleStreamingWrite).                *)
THEOREM LinesKept == WriteSpec => []LinesAccountedFor
<1>1. WInv => LinesAccountedFor
  <2> SUFFICES ASSUME WInv PROVE LinesAccountedFor
    OBVIOUS
  <2> DEFINE n == LastOf(feed, 0)
             m == received - Len(buffer)
             t == IF Failed THEN <<>> ELSE buffer
  <2>1. /\ feed \in Seq(Item) /\ inflight \in Seq(Item) /\ buffer \in Seq(Item)
        /\ Continues(feed, 0) /\ Continues(inflight, n)
    BY DEF WInv, WriteTypeOK, Published
  <2>2. /\ feed \o inflight \in Seq(Item)
        /\ Continues(feed \o inflight, 0)
        /\ LastOf(feed \o inflight, 0) = LastOf(inflight, n)
    BY <2>1, ContinuesConcat
  <2>3. m \in Nat /\ Lines(buffer, m) /\ m + Len(buffer) = received
    BY <2>1 DEF WInv, WriteTypeOK, Buffered, Lines
  <2>4. Continues(buffer, m) /\ LastOf(buffer, m) = received
    BY <2>1, <2>3, LinesContinue
  <2>5. ~Failed => LastOf(inflight, n) = m
    BY DEF WInv, Published
  <2>6. LinesAccountedFor <=>
            /\ Continues(feed \o inflight \o t, 0)
            /\ (Failed \/ LastOf(feed \o inflight \o t, 0) = received)
    BY DEF LinesAccountedFor
  <2>7. CASE Failed
    <3>1. (feed \o inflight) \o <<>> = feed \o inflight
      BY <2>2
    <3> QED
      BY <2>2, <2>6, <2>7, <3>1
  <2>8. CASE ~Failed
    <3>1. t = buffer /\ Continues(buffer, LastOf(feed \o inflight, 0))
      BY <2>8, <2>2, <2>4, <2>5
    <3>2. /\ Continues((feed \o inflight) \o buffer, 0)
          /\ LastOf((feed \o inflight) \o buffer, 0) = LastOf(buffer, LastOf(feed \o inflight, 0))
      <4> DEFINE s == feed \o inflight
      <4>1. s \in Seq(Item) /\ Continues(s, 0) /\ Continues(buffer, LastOf(s, 0))
        BY <2>2, <3>1
      <4> HIDE DEF s
      <4>2. Continues(s \o buffer, 0) /\ LastOf(s \o buffer, 0) = LastOf(buffer, LastOf(s, 0))
        BY <2>1, <4>1, ContinuesConcat
      <4> QED
        BY <4>2 DEF s
    <3>3. LastOf(feed \o inflight, 0) = m
      BY <2>8, <2>2, <2>5
    <3> QED
      BY <2>4, <2>6, <3>1, <3>2, <3>3
  <2> QED
    BY <2>7, <2>8
<1> QED
  BY <1>1, Inductive, PTL

(* No buffered line and no paused request is ever left without a flush     *)
(* ahead, unless a publish failed (publishScheduled, schedule).            *)
THEOREM FlushAhead == WriteSpec => []BufferWillFlush
<1>1. WInv => BufferWillFlush
  BY DEF WInv, Scheduling, BufferWillFlush, Failed
<1> QED
  BY <1>1, Inductive, PTL

(* The buffer of a write request never exceeds the limit by a whole chunk. *)
THEOREM Bounded == WriteSpec => []BufferBounded
<1>1. WInv => BufferBounded
  BY DEF WInv, BackPressure, BufferBounded
<1> QED
  BY <1>1, Inductive, PTL

-----------------------------------------------------------------------------
(* The read side.  The theorems are about readers whose instances keep     *)
(* their connection, and about lines of different milliseconds.            *)
ReadersConnected == \A r \in Readers : InstanceOf[r] \notin Outages

LinesApart == \A i, j \in 1 .. MaxLogs : i < j => CreatedAt[i] < CreatedAt[j]

(* The items of s begin after n, each later than the one before, and none  *)
(* after the last line.                                                    *)
Rising(s, n) ==
    /\ \A k \in 1 .. Len(s) : n < s[k].from /\ s[k].from <= LastOf(s, n)
    /\ \A j, k \in 1 .. Len(s) : j < k => s[j].from < s[k].from

(* Positions in the list follow the order of the lines, and each stands    *)
(* for a line at least.                                                    *)
FeedInv ==
    /\ Len(feed) + Len(inflight) + Len(buffer) <= received
    /\ Rising(feed, 0)
    /\ Rising(inflight, LastOf(feed, 0))

(* Nobody reads through an instance that lost its connection.              *)
Connected == \A r \in Readers : up[InstanceOf[r]]

(* The commands of an instance alternate; the last of them is for its      *)
(* present listeners.                                                      *)
Alternating(c) == \A k \in 1 .. Len(c) - 1 : c[k] # c[k + 1]

CommandsInv(i) ==
    /\ Alternating(commands[i])
    /\ commands[i] # <<>> => (Last(commands[i]) = "incr" <=> Listeners(i) # {})
    /\ Listeners(i) # {} =>
         IF channelCmds[i] = <<>> THEN subscribed[i] ELSE Last(channelCmds[i]) = "subscribe"

(* The instances that the counter counts: their next command, or the end   *)
(* of their last reader, decrements it.                                    *)
Counted ==
    {i \in Instances :
        IF commands[i] = <<>> THEN Listeners(i) # {} ELSE Head(commands[i]) = "decr"}

CountInv == counter >= Cardinality(Counted)

(* What a reader holds fits the state of its stream.                       *)
Fits(r, x) ==
    /\ x.listening <=> x.state \in {"Buffering", "Writable", "Saturated"}
    /\ x.asked # "no" => Count[r] > 0 /\ x.state \in {"Buffering", "Closed"}
    /\ x.state = "Buffering" => x.asked # "no"
    /\ x.state \in {"idle", "Buffering"} => x.sent = <<>> /\ x.dropped = {} /\ x.warned = {}

ReaderInv(r) == Fits(r, reader[r])

(* A sequence of positions up to n that rises.                             *)
Climbs(s, n) ==
    /\ \A k \in 1 .. Len(s) : s[k] <= n
    /\ \A j, k \in 1 .. Len(s) : j < k => s[j] < s[k]

(* The history is the end of the list of a moment.                         *)
Ends(h, n) == \A j \in 1 .. Len(h) : h[j] = h[1] + j - 1 /\ h[j] <= n

(* What a reader buffered arrived before what is under way, both in order. *)
Ordered(b, q, n) ==
    /\ Climbs(b, n)
    /\ Climbs(q, n)
    /\ \A j \in 1 .. Len(b), k \in 1 .. Len(q) : b[j] < q[k]

OrderInv(r) ==
    /\ Ends(reader[r].history, Len(feed))
    /\ InstanceOf[r] \notin Compressing =>
         Ordered(reader[r].buffer, inbox[InstanceOf[r]], Len(feed))

JoinedInv == \A r \in Readers : joined[r] # -1 => Established(r)

-----------------------------------------------------------------------------
(* The write request goes on below its readers.                            *)
LEMMA StreamWrites == Next => [WriteNext]_writeVars
<1>1. Write => WriteNext
  BY DEF Write, WriteNext
<1>2. ASSUME NEW r \in Readers, Read(r) PROVE UNCHANGED writeVars
  BY <1>2 DEF Read, Open, ReadHistory, FlushHistory, HistoryFails, Drain, Close
<1>3. Redis => WriteNext \/ UNCHANGED writeVars
  <2>1. PublishLogs => WriteNext
    BY DEF PublishLogs, WriteNext
  <2>2. ExpireCounter => UNCHANGED writeVars
    BY DEF ExpireCounter
  <2>3. ASSUME NEW i \in Instances,
               \/ ExecuteCommand(i) \/ ExecuteChannelCommand(i) \/ Crash(i)
               \/ \E k \in Positions, s \in SUBSET Readers : HandleMessage(i, k, s)
        PROVE  UNCHANGED writeVars
    BY <2>3 DEF ExecuteCommand, ExecuteChannelCommand, Crash, HandleMessage
  <2> QED BY <2>1, <2>2, <2>3 DEF Redis
<1> QED BY <1>1, <1>2, <1>3 DEF Next

LEMMA StreamIsWrite == Spec => WriteSpec
<1>1. Init => WriteInit
  BY DEF Init
<1>2. [Next]_vars => [WriteNext]_writeVars
  BY StreamWrites DEF vars
<1> QED BY <1>1, <1>2, PTL DEF Spec, WriteSpec

LEMMA TruncatedRises ==
    ASSUME NEW b \in Seq(Item), NEW m \in Nat, Lines(b, m), b # <<>>,
           BufferLimit \in Nat \ {0}
    PROVE  Rising(Truncated(b), m) /\ Len(Truncated(b)) <= Len(b)
<1>0. Len(b) \in Nat \ {0} /\ LastOf(Truncated(b), m) = m + Len(b)
  BY TruncatedLines, EmptySeq
<1>1. CASE Len(b) <= BufferLimit
  <2>1. Truncated(b) = b
    BY <1>1 DEF Truncated
  <2>2. \A k \in 1 .. Len(b) : b[k].from = m + k
    BY LineFields DEF Lines
  <2> QED BY <1>0, <2>1, <2>2 DEF Rising
<1>2. CASE Len(b) > BufferLimit
  <2> DEFINE d == Len(b) - BufferLimit
             w == [from |-> b[1].from, upto |-> b[d].upto, warning |-> TRUE]
             t == SubSeq(b, d + 1, Len(b))
  <2>1. d \in 1 .. Len(b) /\ 1 \in 1 .. Len(b) /\ d + 1 \in 1 .. Len(b)
    BY <1>2
  <2>2. Truncated(b) = <<w>> \o t
    BY <1>2 DEF Truncated
  <2>3. w.from = m + 1
    BY <2>1, LineFields DEF Lines
  <2>4. t \in Seq(Item) /\ Len(t) = Len(b) - d
    BY <2>1
  <2>5. \A k \in 1 .. Len(t) : t[k].from = m + d + k
    <3> TAKE k \in 1 .. Len(t)
    <3>1. d + k \in 1 .. Len(b) /\ t[k] = b[d + k]
      BY <2>1, <2>4
    <3>2. b[d + k].from = m + (d + k)
      BY <3>1, LineFields DEF Lines
    <3> QED BY <2>1, <3>1, <3>2
  <2> DEFINE u == <<w>> \o t
  <2>6. Len(u) = 1 + Len(t) /\ u[1] = w /\ \A k \in 2 .. Len(u) : u[k] = t[k - 1]
    BY <2>4
  <2>7. d \in Nat \ {0} /\ Len(t) \in Nat /\ d + Len(t) = Len(b)
    BY <2>1, <2>4, <1>0
  <2> HIDE DEF d, w, t, u
  <2>8. \A k \in 1 .. Len(u) : u[k].from = IF k = 1 THEN m + 1 ELSE m + d + (k - 1)
    <3> TAKE k \in 1 .. Len(u)
    <3>1. CASE k = 1
      BY <3>1, <2>3, <2>6
    <3>2. CASE k # 1
      <4>1. k \in 2 .. Len(u) /\ k - 1 \in 1 .. Len(t)
        BY <3>2, <2>6, <2>7
      <4> QED BY <3>2, <4>1, <2>5, <2>6
    <3> QED BY <3>1, <3>2
  <2>9. Len(u) <= Len(b)
    BY <2>6, <2>7
  <2>10. Rising(u, m)
    <3>1. Truncated(b) = u
      BY <2>2 DEF u
    <3>2. LastOf(u, m) = m + d + Len(t)
      BY <3>1, <1>0, <2>7
    <3>3. ASSUME NEW k \in 1 .. Len(u) PROVE m < u[k].from /\ u[k].from <= LastOf(u, m)
      BY <3>2, <2>6, <2>7, <2>8
    <3>4. ASSUME NEW j \in 1 .. Len(u), NEW k \in 1 .. Len(u), j < k
          PROVE  u[j].from < u[k].from
      BY <3>4, <2>6, <2>7, <2>8
    <3> QED BY <3>3, <3>4 DEF Rising
  <2> QED BY <2>2, <2>9, <2>10 DEF u
<1> QED BY <1>0, <1>1, <1>2

LEMMA RisingConcat ==
    ASSUME NEW s \in Seq(Item), NEW t \in Seq(Item), NEW n \in Nat,
           Rising(s, n), Rising(t, LastOf(s, n)), t # <<>>,
           LastOf(s \o t, n) = LastOf(t, LastOf(s, n))
    PROVE  Rising(s \o t, n)
<1> DEFINE u == s \o t
           l == LastOf(s, n)
           z == LastOf(t, l)
<1>1. /\ Len(s) \in Nat /\ Len(t) \in Nat /\ Len(u) = Len(s) + Len(t)
      /\ \A k \in 1 .. Len(s) : u[k] = s[k]
      /\ \A k \in 1 .. Len(u) : k > Len(s) => k - Len(s) \in 1 .. Len(t) /\ u[k] = t[k - Len(s)]
  OBVIOUS
<1>2. /\ \A k \in 1 .. Len(s) : s[k].from \in Nat /\ s[k].upto \in Nat
      /\ \A k \in 1 .. Len(t) : t[k].from \in Nat /\ t[k].upto \in Nat
  <2>1. \A x \in Item : x.from \in Nat /\ x.upto \in Nat
    BY WriteAssumption DEF Item
  <2>2. (\A k \in 1 .. Len(s) : s[k] \in Item) /\ (\A k \in 1 .. Len(t) : t[k] \in Item)
    OBVIOUS
  <2> QED BY <2>1, <2>2
<1>3. l \in Nat /\ n <= l
  <2>1. CASE s = <<>>
    BY <2>1 DEF LastOf
  <2>2. CASE s # <<>>
    <3>1. Len(s) \in 1 .. Len(s)
      BY <2>2
    <3>2. l \in Nat
      BY <2>2, <3>1, <1>2 DEF LastOf
    <3>3. n < s[Len(s)].from /\ s[Len(s)].from <= l
      BY <3>1 DEF Rising
    <3> QED BY <3>1, <3>2, <3>3, <1>2
  <2> QED BY <2>1, <2>2
<1>4. z \in Nat /\ l < z
  <2>1. Len(t) \in 1 .. Len(t)
    OBVIOUS
  <2>2. z \in Nat
    BY <2>1, <1>2 DEF LastOf
  <2>3. l < t[Len(t)].from /\ t[Len(t)].from <= z
    BY <2>1 DEF Rising
  <2> QED BY <2>1, <2>2, <2>3, <1>2, <1>3
<1>5. LastOf(u, n) = z
  OBVIOUS
<1>6. \A k \in 1 .. Len(s) : n < s[k].from /\ s[k].from <= l
  BY DEF Rising
<1>7. \A k \in 1 .. Len(t) : l < t[k].from /\ t[k].from <= z
  BY DEF Rising
<1>8. \A j, k \in 1 .. Len(s) : j < k => s[j].from < s[k].from
  BY DEF Rising
<1>9. \A j, k \in 1 .. Len(t) : j < k => t[j].from < t[k].from
  BY DEF Rising
<1> HIDE DEF u, l, z
<1>10. ASSUME NEW k \in 1 .. Len(u) PROVE n < u[k].from /\ u[k].from <= z
  <2>1. CASE k <= Len(s)
    <3>1. k \in 1 .. Len(s) /\ u[k] = s[k]
      BY <2>1, <1>1
    <3> QED BY <3>1, <1>2, <1>3, <1>4, <1>6
  <2>2. CASE k > Len(s)
    <3>1. k - Len(s) \in 1 .. Len(t) /\ u[k] = t[k - Len(s)]
      BY <2>2, <1>1
    <3> QED BY <3>1, <1>2, <1>3, <1>4, <1>7
  <2> QED BY <2>1, <2>2, <1>1
<1>11. ASSUME NEW j \in 1 .. Len(u), NEW k \in 1 .. Len(u), j < k PROVE u[j].from < u[k].from
  <2>1. CASE k <= Len(s)
    <3>1. k \in 1 .. Len(s) /\ j \in 1 .. Len(s)
      BY <2>1, <1>11, <1>1
    <3> QED BY <3>1, <1>1, <1>8, <1>11
  <2>2. CASE j > Len(s)
    <3>1. k > Len(s)
      BY <2>2, <1>11, <1>1
    <3>2. /\ k - Len(s) \in 1 .. Len(t) /\ u[k] = t[k - Len(s)]
          /\ j - Len(s) \in 1 .. Len(t) /\ u[j] = t[j - Len(s)]
      BY <3>1, <2>2, <1>1
    <3>3. j - Len(s) < k - Len(s)
      BY <1>1, <1>11
    <3> QED BY <3>2, <3>3, <1>9
  <2>3. CASE j <= Len(s) /\ k > Len(s)
    <3>1. j \in 1 .. Len(s) /\ u[j] = s[j]
      BY <2>3, <1>1
    <3>2. k - Len(s) \in 1 .. Len(t) /\ u[k] = t[k - Len(s)]
      BY <2>3, <1>1
    <3>3. u[j].from <= l /\ l < u[k].from
      BY <3>1, <3>2, <1>6, <1>7
    <3>4. u[j].from \in Nat /\ u[k].from \in Nat
      BY <3>1, <3>2, <1>2, <1>3
    <3> QED BY <3>3, <3>4, <1>3
  <2> QED BY <2>1, <2>2, <2>3, <1>1
<1> QED BY <1>5, <1>10, <1>11 DEF Rising, u

LEMMA FeedStep == WInv /\ FeedInv /\ [WriteNext]_writeVars => FeedInv'
<1> SUFFICES ASSUME WInv, FeedInv, [WriteNext]_writeVars PROVE FeedInv'
  OBVIOUS
<1> USE WriteAssumption
<1>0. /\ buffer \in Seq(Item) /\ inflight \in Seq(Item) /\ feed \in Seq(Item) /\ received \in Nat
      /\ Len(buffer) \in Nat /\ Len(inflight) \in Nat /\ Len(feed) \in Nat
  BY DEF WInv, WriteTypeOK
<1>1. ASSUME NEW k \in 1 .. MaxChunk, Data(k) PROVE FeedInv'
  <2> DEFINE new == [j \in 1 .. k |-> Line(received + j)]
  <2>1. /\ buffer' = buffer \o new /\ received' = received + k /\ received + k <= MaxLogs
        /\ UNCHANGED <<inflight, feed>>
    BY <1>1 DEF Data
  <2>2. new \in Seq(Item) /\ Len(new) = k
    <3>1. \A j \in 1 .. k : Line(received + j) \in Item
      BY <2>1, <1>0 DEF Line, Item
    <3>2. k \in Nat
      OBVIOUS
    <3> QED BY <3>1, <3>2
  <2> HIDE DEF new
  <2>3. Len(buffer') = Len(buffer) + k
    <3>1. Len(buffer \o new) = Len(buffer) + Len(new)
      BY <2>2, <1>0, ConcatProperties
    <3> QED BY <2>1, <2>2, <3>1
  <2>4. k \in Nat
    OBVIOUS
  <2> QED BY <2>1, <2>3, <2>4, <1>0 DEF FeedInv
<1>2. CASE TryPublish
  <2> DEFINE m == received - Len(buffer)
  <2>1. inflight = <<>> /\ ~Failed /\ buffer # <<>>
    BY <1>2 DEF TryPublish, WInv, Scheduling, Failed
  <2>2. m \in Nat /\ Lines(buffer, m) /\ LastOf(feed, 0) = m
    BY <1>0, <2>1 DEF WInv, Buffered, Published, Lines, LastOf
  <2>3. Rising(Truncated(buffer), m) /\ Len(Truncated(buffer)) <= Len(buffer)
    BY <1>0, <2>1, <2>2, TruncatedRises, LimitPositive
  <2>4. Truncated(buffer) \in Seq(Item)
    BY <1>0, <2>1, <2>2, TruncatedLines, LimitPositive
  <2>5. inflight' = Truncated(buffer) /\ buffer' = <<>> /\ UNCHANGED <<received, feed>>
    BY <1>2 DEF TryPublish
  <2>6. Len(inflight') \in Nat /\ Len(buffer') = 0 /\ Len(inflight) = 0
    BY <2>1, <2>4, <2>5
  <2>7. Rising(feed, 0)' /\ Rising(inflight, LastOf(feed, 0))'
    BY <2>2, <2>3, <2>5 DEF FeedInv
  <2>8. Len(feed') + Len(inflight') + Len(buffer') <= received'
    BY <1>0, <2>3, <2>5, <2>6 DEF FeedInv
  <2> QED BY <2>7, <2>8 DEF FeedInv
<1>3. CASE Publish
  <2>1. inflight # <<>> /\ feed' = feed \o inflight /\ inflight' = <<>> /\ UNCHANGED <<received, buffer>>
    BY <1>3 DEF Publish
  <2>2. LastOf(feed \o inflight, 0) = LastOf(inflight, LastOf(feed, 0))
    BY <1>0, ContinuesConcat DEF WInv, Published
  <2>3. Rising(feed \o inflight, 0)
    BY <1>0, <2>1, <2>2, RisingConcat DEF FeedInv
  <2>4. Len(feed') = Len(feed) + Len(inflight) /\ Len(inflight') = 0
    BY <1>0, <2>1
  <2>5. Rising(feed, 0)' /\ Rising(inflight, LastOf(feed, 0))'
    BY <2>1, <2>3, <2>4 DEF Rising
  <2>6. Len(feed') + Len(inflight') + Len(buffer') <= received'
    BY <1>0, <2>1, <2>4 DEF FeedInv
  <2> QED BY <2>5, <2>6 DEF FeedInv
<1>4. CASE PublishFails
  <2>1. inflight' = <<>> /\ Len(inflight') = 0 /\ UNCHANGED <<received, buffer, feed>>
    BY <1>4 DEF PublishFails
  <2>2. Rising(feed, 0)' /\ Rising(inflight, LastOf(feed, 0))'
    BY <2>1 DEF FeedInv, Rising
  <2>3. Len(feed') + Len(inflight') + Len(buffer') <= received'
    BY <1>0, <2>1 DEF FeedInv
  <2> QED BY <2>2, <2>3 DEF FeedInv
<1>5. ASSUME NEW i \in Instances, Disconnect(i) \/ Reconnect(i) PROVE FeedInv'
  BY <1>5 DEF Disconnect, Reconnect, FeedInv
<1>6. CASE UNCHANGED writeVars
  BY <1>6 DEF writeVars, FeedInv
<1> QED BY <1>1, <1>2, <1>3, <1>4, <1>5, <1>6 DEF WriteNext

(* A position in the list is one of those that the lines can take.         *)
LEMMA FeedPositions == WInv /\ FeedInv => Len(feed) \in 0 .. MaxLogs
  BY WriteAssumption DEF WInv, WriteTypeOK, FeedInv

-----------------------------------------------------------------------------
(* What a flush writes.                                                    *)

(* A finite set of natural numbers has a least element.                    *)
LEMMA Least ==
    ASSUME NEW S \in SUBSET Nat, IsFiniteSet(S), S # {}
    PROVE  \E a \in S : \A b \in S : a <= b
<1> DEFINE Below(a) == {b \in S : b < a}
           Family == {Below(a) : a \in S}
<1>1. Family \subseteq FiniteSubsetsOf(S) /\ Family # {}
  <2>1. ASSUME NEW a \in S PROVE Below(a) \in FiniteSubsetsOf(S)
    <3>1. Below(a) \subseteq S
      OBVIOUS
    <3> HIDE DEF Below
    <3>2. IsFiniteSet(Below(a))
      BY <3>1, FS_Subset
    <3> QED BY <3>1, <3>2 DEF FiniteSubsetsOf
  <2> HIDE DEF Below
  <2> QED BY <2>1
<1>2. IsWellFoundedOn(StrictSubsetOrdering(S), FiniteSubsetsOf(S))
  BY FS_StrictSubsetOrderingWellFounded
<1>3. PICK x \in Family : \A y \in Family : ~(<<y, x>> \in StrictSubsetOrdering(S))
  <2> HIDE DEF Family
  <2> QED BY <1>1, <1>2, WFMin
<1>4. PICK a \in S : x = Below(a)
  OBVIOUS
<1>5. ASSUME NEW b \in S, b < a PROVE FALSE
  <2>1. Below(b) \in Family
    OBVIOUS
  <2>2. \A c \in Below(b) : c \in Below(a)
    BY <1>5
  <2>3. b \in Below(a) /\ b \notin Below(b)
    BY <1>5
  <2>4. Below(a) \in SUBSET S /\ Below(b) \in SUBSET S
    OBVIOUS
  <2> HIDE DEF Below
  <2> QED BY <1>3, <1>4, <2>1, <2>2, <2>3, <2>4 DEF StrictSubsetOrdering
<1> QED BY <1>5

(* The moment of the last message of a history.                            *)
AfterDate(h) == IF h = <<>> THEN 0 ELSE At(Last(h))

LEMMA MergedIs ==
    ASSUME NEW h \in Seq(Positions), NEW b \in Seq(Positions)
    PROVE  \E k \in 1 .. Len(b) + 1 :
             /\ Merged(h, b) = h \o SubSeq(b, k, Len(b))
             /\ \A j \in 1 .. k - 1 : ~(At(b[j]) > AfterDate(h))
             /\ k <= Len(b) => At(b[k]) > AfterDate(h)
<1> DEFINE later == {k \in 1 .. Len(b) : At(b[k]) > AfterDate(h)}
           c == CHOOSE k \in later : \A j \in later : k <= j
<1>0. Len(b) \in Nat
  OBVIOUS
<1>1. Merged(h, b) = IF later = {} THEN h ELSE h \o SubSeq(b, c, Len(b))
  BY DEF Merged, AfterDate
<1>2. CASE later = {}
  <2>1. SubSeq(b, Len(b) + 1, Len(b)) = <<>>
    BY <1>0, SubSeqEmpty
  <2>2. Merged(h, b) = h \o SubSeq(b, Len(b) + 1, Len(b))
    BY <1>1, <1>2, <2>1, ConcatEmptySeq
  <2>3. \A j \in 1 .. (Len(b) + 1) - 1 : ~(At(b[j]) > AfterDate(h))
    BY <1>0, <1>2
  <2> QED BY <1>0, <2>2, <2>3, SMTT(30)
<1>3. CASE later # {}
  <2>1. later \subseteq 1 .. Len(b) /\ later \in SUBSET Nat
    BY <1>0
  <2>2. IsFiniteSet(later)
    <3>1. IsFiniteSet(1 .. Len(b))
      BY <1>0, FS_Interval
    <3> HIDE DEF later
    <3> QED BY <2>1, <3>1, FS_Subset
  <2>3. \E k \in later : \A j \in later : k <= j
    <3> HIDE DEF later
    <3> QED BY <1>3, <2>1, <2>2, Least
  <2>4. c \in later /\ \A j \in later : c <= j
    <3> HIDE DEF later
    <3> QED BY <2>3
  <2> HIDE DEF c
  <2>5. c \in 1 .. Len(b) /\ At(b[c]) > AfterDate(h)
    BY <2>4
  <2>6. \A j \in 1 .. c - 1 : ~(At(b[j]) > AfterDate(h))
    BY <1>0, <2>4, <2>5
  <2>7. c \in 1 .. Len(b) + 1 /\ Merged(h, b) = h \o SubSeq(b, c, Len(b))
    <3> HIDE DEF later
    <3> QED BY <1>0, <1>1, <1>3, <2>5
  <2> HIDE DEF later
  <2> QED BY <2>5, <2>6, <2>7
<1> QED BY <1>2, <1>3

LEMMA RetainedIs ==
    ASSUME NEW s \in Seq(Positions)
    PROVE  \E n \in 0 .. Len(s) : /\ Retained(s) = SubSeq(s, n + 1, Len(s))
                                  /\ s # <<>> => n < Len(s)
<1>0. Len(s) \in Nat /\ RetentionLimit \in Nat \ {0} /\ (s # <<>> => Len(s) # 0)
  BY WriteAssumption
<1>1. CASE Len(s) > RetentionLimit
  <2> DEFINE n == Len(s) - RetentionLimit
  <2>1. n \in 0 .. Len(s) /\ n < Len(s)
    BY <1>0, <1>1
  <2>2. Retained(s) = SubSeq(s, n + 1, Len(s))
    BY <1>1 DEF Retained
  <2> HIDE DEF n
  <2> QED BY <2>1, <2>2
<1>2. CASE Len(s) <= RetentionLimit
  <2>1. Retained(s) = SubSeq(s, 0 + 1, Len(s))
    BY <1>0, <1>2, SubSeqFull DEF Retained
  <2> QED BY <1>0, <2>1
<1> QED BY <1>0, <1>1, <1>2

LEMMA FlushedType ==
    ASSUME NEW x \in Reader, NEW h \in Seq(Positions)
    PROVE  Flushed(x, Merged(h, x.buffer)) \in Reader
<1> DEFINE b == x.buffer
<1>1. b \in Seq(Positions)
  BY DEF Reader
<1>2. Merged(h, b) \in Seq(Positions)
  <2>1. PICK k \in 1 .. Len(b) + 1 : Merged(h, b) = h \o SubSeq(b, k, Len(b))
    BY <1>1, MergedIs
  <2>2. SubSeq(b, k, Len(b)) \in Seq(Positions)
    BY <1>1
  <2> QED BY <2>1, <2>2
<1> DEFINE s == Merged(h, b)
<1> HIDE DEF b
<1>3. Retained(s) \in Seq(Positions)
  <2> HIDE DEF s
  <2>1. s \in Seq(Positions)
    BY <1>2 DEF s
  <2>2. PICK n \in 0 .. Len(s) : Retained(s) = SubSeq(s, n + 1, Len(s))
    BY <2>1, RetainedIs
  <2>3. SubSeq(s, n + 1, Len(s)) \in Seq(Positions)
    BY <2>1
  <2> QED BY <2>2, <2>3
<1> HIDE DEF s
<1>4. <<>> \in Seq(Positions)
  OBVIOUS
<1> QED BY <1>3, <1>4 DEF Flushed, Reader, s, b

(* A step that changes the stream of one reader.                           *)
LEMMA ReaderUpdate ==
    ASSUME reader \in [Readers -> Reader], NEW r \in Readers, NEW x \in Reader,
           reader' = [reader EXCEPT ![r] = x]
    PROVE  /\ reader' \in [Readers -> Reader]
           /\ reader'[r] = x
           /\ \A q \in Readers : q # r => reader'[q] = reader[q]
OBVIOUS

-----------------------------------------------------------------------------
(* Readers, commands and messages are well-formed.                         *)
ReadTypeOK ==
    /\ counter \in Nat
    /\ commands \in [Instances -> Seq({"incr", "decr"})]
    /\ channelCmds \in [Instances -> Seq({"subscribe", "unsubscribe"})]
    /\ subscribed \in [Instances -> BOOLEAN]
    /\ inbox \in [Instances -> Seq(Positions)]
    /\ reader \in [Readers -> Reader]

LEMMA ReaderFields ==
    ASSUME NEW x \in Reader
    PROVE  /\ x.state \in {"idle", "Buffering", "Writable", "Saturated", "Closed"}
           /\ x.listening \in BOOLEAN
           /\ x.asked \in {"no", "asked", "answered"}
           /\ x.history \in Seq(Positions)
           /\ x.buffer \in Seq(Positions)
           /\ x.sent \in Seq(Positions)
           /\ x.dropped \in SUBSET Positions
           /\ x.warned \in SUBSET Positions
BY DEF Reader

(* What each step of a reader leaves of its stream.                        *)
Opened(r) ==
    LET asks == Count[r] > 0 /\ up[InstanceOf[r]]
    IN  [reader[r] EXCEPT !.state = IF asks THEN "Buffering" ELSE "Writable",
                          !.listening = up[InstanceOf[r]],
                          !.asked = IF asks THEN "asked" ELSE "no"]

HistoryNow(r) ==
    LET n == Len(feed)
        k == IF n < Lookback(r) THEN n ELSE Lookback(r)
    IN  [j \in 1 .. k |-> n - k + j]

Answered(r) == [reader[r] EXCEPT !.asked = "answered", !.history = HistoryNow(r)]

Stopped(r) ==
    [reader[r] EXCEPT !.state = "Closed", !.listening = FALSE, !.buffer = <<>>,
                      !.sent = <<>>, !.dropped = {}, !.warned = {}]

LEMMA HistoryType ==
    ASSUME WInv, FeedInv, NEW r \in Readers
    PROVE  /\ HistoryNow(r) \in Seq(Positions)
           /\ \A j \in 1 .. Len(HistoryNow(r)) :
                HistoryNow(r)[j] = HistoryNow(r)[1] + j - 1 /\ HistoryNow(r)[j] <= Len(feed)
           /\ HistoryNow(r) # <<>> => Last(HistoryNow(r)) = Len(feed)
<1> DEFINE n == Len(feed)
           k == IF n < Lookback(r) THEN n ELSE Lookback(r)
           h == [j \in 1 .. k |-> n - k + j]
<1>1. n \in 0 .. MaxLogs /\ MaxLogs \in Nat /\ Lookback(r) \in Nat
  BY FeedPositions, WriteAssumption, ReadAssumption DEF Lookback
<1>2. k \in Nat /\ k <= n
  BY <1>1
<1>3. \A j \in 1 .. k : n - k + j \in Positions /\ n - k + j <= n
  BY <1>1, <1>2 DEF Positions
<1>4. HistoryNow(r) = h
  BY DEF HistoryNow
<1> HIDE DEF k, n
<1>5. h \in Seq(Positions) /\ Len(h) = k /\ \A j \in 1 .. k : h[j] = n - k + j
  BY <1>2, <1>3
<1>6. \A j \in 1 .. k : h[j] = h[1] + j - 1 /\ h[j] <= n
  <2> TAKE j \in 1 .. k
  <2>1. 1 \in 1 .. k /\ h[1] = n - k + 1 /\ h[j] = n - k + j
    BY <1>2, <1>5
  <2> QED BY <1>1, <1>2, <1>3, <2>1 DEF n
<1>7. h # <<>> => Last(h) = n
  <2> HAVE h # <<>>
  <2>1. k \in 1 .. k
    BY <1>2, <1>5
  <2> QED BY <1>1, <1>2, <1>5, <2>1 DEF Last, n
<1> QED BY <1>4, <1>5, <1>6, <1>7 DEF n

(* The readers of an instance are opened and closed through these.         *)
LEMMA ReadSteps ==
    ASSUME ReadTypeOK, WInv, FeedInv, NEW r \in Readers, Read(r)
    PROVE  \E x \in Reader :
             /\ reader' = [reader EXCEPT ![r] = x]
             /\ \/ Open(r) /\ x = Opened(r)
                \/ ReadHistory(r) /\ x = Answered(r)
                \/ FlushHistory(r) /\ x = Flushed(reader[r], Merged(reader[r].history, reader[r].buffer))
                \/ HistoryFails(r) /\ x = Flushed(reader[r], Merged(<<>>, reader[r].buffer))
                \/ \E saturates \in BOOLEAN : Drain(r, saturates) /\ x = Drained(reader[r], saturates)
                \/ \E decremented \in BOOLEAN : Close(r, decremented) /\ x = Stopped(r)
<1>0. reader \in [Readers -> Reader] /\ reader[r] \in Reader /\ <<>> \in Seq(Positions)
  BY DEF ReadTypeOK
<1>1. CASE Open(r)
  <2>1. reader' = [reader EXCEPT ![r] = Opened(r)]
    BY <1>1 DEF Open, Opened
  <2>2. up[InstanceOf[r]] \in BOOLEAN
    BY ReadAssumption DEF WInv, WriteTypeOK
  <2>3. Opened(r) \in Reader
    BY <1>0, <2>2 DEF Opened, Reader
  <2> QED BY <1>1, <2>1, <2>3
<1>2. CASE ReadHistory(r)
  <2>1. reader' = [reader EXCEPT ![r] = Answered(r)]
    BY <1>2 DEF ReadHistory, Answered, HistoryNow
  <2>2. Answered(r) \in Reader
    BY <1>0, HistoryType DEF Answered, Reader
  <2> QED BY <1>2, <2>1, <2>2
<1>3. CASE FlushHistory(r)
  <2> DEFINE x == Flushed(reader[r], Merged(reader[r].history, reader[r].buffer))
  <2>1. reader' = [reader EXCEPT ![r] = x]
    BY <1>3 DEF FlushHistory
  <2>2. x \in Reader
    BY <1>0, ReaderFields, FlushedType
  <2> QED BY <1>3, <2>1, <2>2
<1>4. CASE HistoryFails(r)
  <2> DEFINE x == Flushed(reader[r], Merged(<<>>, reader[r].buffer))
  <2>1. reader' = [reader EXCEPT ![r] = x]
    BY <1>4 DEF HistoryFails
  <2>2. x \in Reader
    BY <1>0, FlushedType
  <2> QED BY <1>4, <2>1, <2>2
<1>5. ASSUME NEW saturates \in BOOLEAN, Drain(r, saturates)
      PROVE  Drained(reader[r], saturates) \in Reader
             /\ reader' = [reader EXCEPT ![r] = Drained(reader[r], saturates)]
  <2>1. Drained(reader[r], saturates) \in Reader
    BY <1>0 DEF Drained, Reader
  <2> QED BY <1>5, <2>1 DEF Drain
<1>6. ASSUME NEW decremented \in BOOLEAN, Close(r, decremented)
      PROVE  Stopped(r) \in Reader /\ reader' = [reader EXCEPT ![r] = Stopped(r)]
  <2>1. Stopped(r) \in Reader
    BY <1>0 DEF Stopped, Reader
  <2>2. reader' = [reader EXCEPT ![r] = Stopped(r)]
    BY <1>6 DEF Close, Stopped
  <2> QED BY <2>1, <2>2
<1> QED BY <1>1, <1>2, <1>3, <1>4, <1>5, <1>6 DEF Read

LEMMA RemoveAtIs ==
    ASSUME NEW S, NEW s \in Seq(S), NEW k \in 1 .. Len(s)
    PROVE  /\ RemoveAt(s, k) \in Seq(S)
           /\ Len(RemoveAt(s, k)) = Len(s) - 1
           /\ \A j \in 1 .. Len(s) - 1 : RemoveAt(s, k)[j] = IF j < k THEN s[j] ELSE s[j + 1]
<1> DEFINE a == SubSeq(s, 1, k - 1)
           b == SubSeq(s, k + 1, Len(s))
<1>0. Len(s) \in Nat /\ k \in Nat
  OBVIOUS
<1>1. \A j \in 1 .. Len(s) : s[j] \in S
  OBVIOUS
<1>2. a \in Seq(S) /\ Len(a) = k - 1 /\ \A j \in 1 .. k - 1 : a[j] = s[j]
  <2>1. \A j \in 1 .. k - 1 : s[j] \in S
    BY <1>0, <1>1
  <2>2. /\ a \in Seq(S) /\ Len(a) = IF 1 <= k - 1 THEN k - 1 - 1 + 1 ELSE 0
        /\ \A j \in 1 .. k - 1 - 1 + 1 : a[j] = s[1 + j - 1]
    BY <1>0, <2>1, SubSeqProperties
  <2> HIDE DEF a
  <2> QED BY <1>0, <2>2
<1>3. b \in Seq(S) /\ Len(b) = Len(s) - k /\ \A j \in 1 .. Len(s) - k : b[j] = s[k + j]
  <2>1. \A j \in k + 1 .. Len(s) : s[j] \in S
    BY <1>0, <1>1
  <2>2. /\ b \in Seq(S) /\ Len(b) = IF k + 1 <= Len(s) THEN Len(s) - (k + 1) + 1 ELSE 0
        /\ \A j \in 1 .. Len(s) - (k + 1) + 1 : b[j] = s[(k + 1) + j - 1]
    BY <1>0, <2>1, SubSeqProperties
  <2> HIDE DEF b
  <2>3. \A j \in 1 .. Len(s) - k : (k + 1) + j - 1 = k + j /\ j \in 1 .. Len(s) - (k + 1) + 1
    BY <1>0
  <2> QED BY <1>0, <2>2, <2>3
<1>4. RemoveAt(s, k) = a \o b
  BY DEF RemoveAt
<1> HIDE DEF a, b
<1>5. /\ a \o b \in Seq(S) /\ Len(a \o b) = Len(a) + Len(b)
      /\ \A j \in 1 .. Len(a) + Len(b) : (a \o b)[j] = IF j <= Len(a) THEN a[j] ELSE b[j - Len(a)]
  BY <1>2, <1>3, ConcatProperties
<1>6. Len(a) + Len(b) = Len(s) - 1
  BY <1>0, <1>2, <1>3
<1>7. ASSUME NEW j \in 1 .. Len(s) - 1 PROVE (a \o b)[j] = IF j < k THEN s[j] ELSE s[j + 1]
  <2>1. CASE j < k
    <3>1. j <= Len(a) /\ j \in 1 .. k - 1
      BY <1>0, <1>2, <2>1
    <3> QED BY <1>2, <1>5, <1>6, <2>1, <3>1
  <2>2. CASE ~(j < k)
    <3>1. ~(j <= Len(a)) /\ j - Len(a) \in 1 .. Len(s) - k /\ k + (j - Len(a)) = j + 1
      BY <1>0, <1>2, <2>2
    <3> QED BY <1>3, <1>5, <1>6, <2>2, <3>1
  <2> QED BY <2>1, <2>2
<1> QED BY <1>4, <1>5, <1>6, <1>7

LEMMA OnLogType ==
    ASSUME NEW x \in Reader, NEW p \in Positions, NEW saturates \in BOOLEAN
    PROVE  OnLog(x, p, saturates) \in Reader
<1>1. Append(x.buffer, p) \in Seq(Positions) /\ Append(x.sent, p) \in Seq(Positions)
  BY ReaderFields, AppendProperties
<1>2. x.dropped \cup {p} \in SUBSET Positions
  BY ReaderFields
<1> QED BY <1>1, <1>2 DEF OnLog, Reader

LEMMA CommandSent ==
    ASSUME NEW S, NEW f \in [Instances -> Seq(S)], NEW i \in Instances, NEW c \in S
    PROVE  [f EXCEPT ![i] = Append(@, c)] \in [Instances -> Seq(S)]
<1>1. Append(f[i], c) \in Seq(S)
  BY AppendProperties
<1> QED BY <1>1

LEMMA ReadTypeStep ==
    ASSUME ReadTypeOK, WInv, FeedInv, WriteTypeOK', FeedInv', Next
    PROVE  ReadTypeOK'
<1> USE WriteAssumption, ReadAssumption
<1>1. CASE Write
  BY <1>1 DEF Write, readVars, ReadTypeOK
<1>2. ASSUME NEW r \in Readers, Read(r) PROVE ReadTypeOK'
  <2>1. reader' \in [Readers -> Reader]
    BY <1>2, ReadSteps, ReaderUpdate DEF ReadTypeOK
  <2>2. UNCHANGED <<counter, subscribed, inbox>>
    BY <1>2 DEF Read, Open, ReadHistory, FlushHistory, HistoryFails, Drain, Close
  <2> DEFINE i == InstanceOf[r]
             C == {"incr", "decr"}
             H == {"subscribe", "unsubscribe"}
  <2>3. i \in Instances /\ commands \in [Instances -> Seq(C)] /\ channelCmds \in [Instances -> Seq(H)]
    BY DEF ReadTypeOK
  <2>4. /\ \A c \in C : [commands EXCEPT ![i] = Append(@, c)] \in [Instances -> Seq(C)]
        /\ \A c \in H : [channelCmds EXCEPT ![i] = Append(@, c)] \in [Instances -> Seq(H)]
    <3> HIDE DEF i, C, H
    <3> QED BY <2>3, CommandSent
  <2>5. /\ commands' \in [Instances -> Seq(C)]
        /\ channelCmds' \in [Instances -> Seq(H)]
    <3>1. CASE Open(r)
      <4>1. \/ /\ commands' = [commands EXCEPT ![i] = Append(@, "incr")]
               /\ channelCmds' = [channelCmds EXCEPT ![i] = Append(@, "subscribe")]
            \/ UNCHANGED <<channelCmds, commands>>
        BY <3>1 DEF Open, Subscribe
      <4>2. /\ [commands EXCEPT ![i] = Append(@, "incr")] \in [Instances -> Seq(C)]
            /\ [channelCmds EXCEPT ![i] = Append(@, "subscribe")] \in [Instances -> Seq(H)]
        BY <2>4
      <4> HIDE DEF C, H, i
      <4> QED BY <4>1, <4>2, <2>3
    <3>2. ASSUME NEW d \in BOOLEAN, Close(r, d)
          PROVE  commands' \in [Instances -> Seq(C)] /\ channelCmds' \in [Instances -> Seq(H)]
      <4>1. \/ /\ commands' = [commands EXCEPT ![i] = Append(@, "decr")]
               /\ channelCmds' = [channelCmds EXCEPT ![i] = Append(@, "unsubscribe")]
            \/ commands' = commands /\ channelCmds' = [channelCmds EXCEPT ![i] = Append(@, "unsubscribe")]
            \/ UNCHANGED <<channelCmds, commands>>
        <5>1. CASE Listeners(i) \ {r} = {}
          BY <3>2, <5>1, <2>3 DEF Close, Unsubscribe
        <5>2. CASE Listeners(i) \ {r} # {}
          BY <3>2, <5>2 DEF Close, Unsubscribe
        <5> QED BY <5>1, <5>2
      <4>2. /\ [commands EXCEPT ![i] = Append(@, "decr")] \in [Instances -> Seq(C)]
            /\ [channelCmds EXCEPT ![i] = Append(@, "unsubscribe")] \in [Instances -> Seq(H)]
        BY <2>4
      <4> HIDE DEF C, H, i
      <4> QED BY <4>1, <4>2, <2>3
    <3>3. CASE \/ ReadHistory(r) \/ FlushHistory(r) \/ HistoryFails(r)
               \/ \E saturates \in BOOLEAN : Drain(r, saturates)
      <4>1. UNCHANGED <<commands, channelCmds>>
        BY <3>3 DEF ReadHistory, FlushHistory, HistoryFails, Drain
      <4> QED BY <4>1 DEF ReadTypeOK
    <3> QED BY <1>2, <3>1, <3>2, <3>3 DEF Read
  <2> QED BY <2>1, <2>2, <2>5 DEF ReadTypeOK
<1>3. CASE PublishLogs
  <2>1. UNCHANGED <<counter, commands, channelCmds, subscribed, reader>>
    BY <1>3 DEF PublishLogs
  <2> DEFINE new == [j \in 1 .. Len(inflight) |-> Len(feed) + j]
  <2>2. new \in Seq(Positions)
    <3>1. feed' = feed \o inflight /\ feed \in Seq(Item) /\ inflight \in Seq(Item)
      BY <1>3 DEF PublishLogs, Publish, WInv, WriteTypeOK
    <3>2. Len(feed') = Len(feed) + Len(inflight) /\ Len(feed) \in Nat /\ Len(inflight) \in Nat
      BY <3>1
    <3>3. Len(feed) + Len(inflight) <= MaxLogs
      BY <3>2 DEF WInv, WriteTypeOK, FeedInv
    <3>4. \A j \in 1 .. Len(inflight) : Len(feed) + j \in Positions
      BY <3>2, <3>3 DEF Positions
    <3> QED BY <3>2, <3>4
  <2>3. \A i \in Instances : inbox[i] \in Seq(Positions) /\ inbox[i] \o new \in Seq(Positions)
    BY <2>2 DEF ReadTypeOK
  <2>4. inbox' = [i \in Instances |-> IF counter > 0 /\ subscribed[i] THEN inbox[i] \o new ELSE inbox[i]]
    BY <1>3 DEF PublishLogs
  <2> HIDE DEF new
  <2>5. inbox' \in [Instances -> Seq(Positions)]
    BY <2>3, <2>4
  <2> QED BY <2>1, <2>5 DEF ReadTypeOK
<1>4. CASE ExpireCounter
  BY <1>4 DEF ExpireCounter, ReadTypeOK
<1>5. ASSUME NEW i \in Instances, ExecuteCommand(i) PROVE ReadTypeOK'
  <2>1. commands[i] # <<>> /\ commands[i] \in Seq({"incr", "decr"})
    BY <1>5 DEF ExecuteCommand, ReadTypeOK
  <2>2. Tail(commands[i]) \in Seq({"incr", "decr"})
    BY <2>1, HeadTailProperties
  <2>3. commands' \in [Instances -> Seq({"incr", "decr"})]
    BY <1>5, <2>2 DEF ExecuteCommand, ReadTypeOK
  <2>4. counter' \in Nat
    BY <1>5 DEF ExecuteCommand, ReadTypeOK
  <2> QED BY <1>5, <2>3, <2>4 DEF ExecuteCommand, ReadTypeOK
<1>6. ASSUME NEW i \in Instances, ExecuteChannelCommand(i) PROVE ReadTypeOK'
  <2>1. channelCmds[i] # <<>> /\ channelCmds[i] \in Seq({"subscribe", "unsubscribe"})
    BY <1>6 DEF ExecuteChannelCommand, ReadTypeOK
  <2>2. Tail(channelCmds[i]) \in Seq({"subscribe", "unsubscribe"})
    BY <2>1, HeadTailProperties
  <2>3. channelCmds' \in [Instances -> Seq({"subscribe", "unsubscribe"})]
    BY <1>6, <2>2 DEF ExecuteChannelCommand, ReadTypeOK
  <2>4. subscribed' \in [Instances -> BOOLEAN]
    BY <1>6 DEF ExecuteChannelCommand, ReadTypeOK
  <2> QED BY <1>6, <2>3, <2>4 DEF ExecuteChannelCommand, ReadTypeOK
<1>7. ASSUME NEW i \in Instances, Crash(i) PROVE ReadTypeOK'
  <2>1. /\ <<>> \in Seq({"incr", "decr"}) /\ <<>> \in Seq({"subscribe", "unsubscribe"})
        /\ <<>> \in Seq(Positions)
    OBVIOUS
  <2>2. [IdleReader EXCEPT !.state = "Closed"] \in Reader
    BY <2>1 DEF IdleReader, Reader
  <2>3. reader' \in [Readers -> Reader]
    BY <1>7, <2>2 DEF Crash, ReadTypeOK
  <2> QED BY <1>7, <2>1, <2>3 DEF Crash, ReadTypeOK
<1>8. ASSUME NEW i \in Instances, NEW k \in Positions, NEW s \in SUBSET Readers, HandleMessage(i, k, s)
      PROVE  ReadTypeOK'
  <2>1. inbox[i] \in Seq(Positions) /\ k \in 1 .. Len(inbox[i]) /\ inbox[i][k] \in Positions
    BY <1>8 DEF HandleMessage, ReadTypeOK
  <2>2. RemoveAt(inbox[i], k) \in Seq(Positions)
    BY <2>1, RemoveAtIs
  <2>3. inbox' \in [Instances -> Seq(Positions)]
    BY <1>8, <2>2 DEF HandleMessage, ReadTypeOK
  <2>4. \A r \in Readers : OnLog(reader[r], inbox[i][k], r \in s) \in Reader
    <3> TAKE r \in Readers
    <3>1. reader[r] \in Reader /\ (r \in s) \in BOOLEAN
      BY DEF ReadTypeOK
    <3> QED BY <2>1, <3>1, OnLogType
  <2>5. reader' \in [Readers -> Reader]
    BY <1>8, <2>4 DEF HandleMessage, ReadTypeOK
  <2> QED BY <1>8, <2>3, <2>5 DEF HandleMessage, ReadTypeOK
<1> QED BY <1>1, <1>2, <1>3, <1>4, <1>5, <1>6, <1>7, <1>8 DEF Next, Redis

-----------------------------------------------------------------------------
(* Subscriptions and the counter.                                          *)

LEMMA Appended ==
    ASSUME NEW S, NEW c \in Seq(S), NEW e \in S
    PROVE  /\ Append(c, e) # <<>> /\ Last(Append(c, e)) = e
           /\ Head(Append(c, e)) = IF c = <<>> THEN e ELSE Head(c)
           /\ Alternating(c) /\ (c # <<>> => Last(c) # e) => Alternating(Append(c, e))
<1> DEFINE a == Append(c, e)
<1>1. /\ Len(c) \in Nat /\ a # <<>> /\ Len(a) = Len(c) + 1 /\ a[Len(c) + 1] = e
      /\ \A k \in 1 .. Len(c) : a[k] = c[k]
  BY AppendProperties
<1>2. Head(a) = IF c = <<>> THEN e ELSE Head(c)
  BY HeadTailAppend
<1> HIDE DEF a
<1>3. ASSUME Alternating(c), c # <<>> => Last(c) # e PROVE Alternating(a)
  <2> SUFFICES ASSUME NEW k \in 1 .. Len(a) - 1 PROVE a[k] # a[k + 1]
    BY DEF Alternating
  <2>1. CASE k = Len(c)
    <3>1. c # <<>> /\ k \in 1 .. Len(c)
      BY <1>1, <2>1
    <3> QED BY <1>1, <1>3, <2>1, <3>1 DEF Last
  <2>2. CASE k # Len(c)
    <3>1. k \in 1 .. Len(c) - 1 /\ k \in 1 .. Len(c) /\ k + 1 \in 1 .. Len(c)
      BY <1>1, <2>2
    <3> QED BY <1>1, <1>3, <3>1 DEF Alternating
  <2> QED BY <2>1, <2>2
<1> QED BY <1>1, <1>2, <1>3 DEF Last, a

LEMMA Executed ==
    ASSUME NEW S, NEW c \in Seq(S), c # <<>>
    PROVE  /\ Tail(c) = <<>> => Last(c) = Head(c)
           /\ Tail(c) # <<>> => Last(Tail(c)) = Last(c)
           /\ Alternating(c) => Alternating(Tail(c)) /\ (Tail(c) # <<>> => Head(Tail(c)) # Head(c))
<1> DEFINE t == Tail(c)
<1>1. /\ Len(c) \in Nat \ {0} /\ t \in Seq(S) /\ Len(t) = Len(c) - 1
      /\ \A k \in 1 .. Len(t) : t[k] = c[k + 1]
  BY HeadTailProperties, EmptySeq
<1>2. Head(c) = c[1] /\ (t # <<>> => Head(t) = t[1])
  BY <1>1
<1>3. t # <<>> <=> Len(t) # 0
  BY <1>1
<1> HIDE DEF t
<1>4. t = <<>> => Last(c) = Head(c)
  <2> HAVE t = <<>>
  <2>1. Len(c) = 1
    BY <1>1, <1>3
  <2> QED BY <1>2, <2>1 DEF Last
<1>5. t # <<>> => Last(t) = Last(c)
  <2> HAVE t # <<>>
  <2>1. Len(t) \in 1 .. Len(t) /\ Len(t) + 1 = Len(c)
    BY <1>1, <1>3
  <2> QED BY <1>1, <2>1 DEF Last
<1>6. ASSUME Alternating(c) PROVE Alternating(t) /\ (t # <<>> => Head(t) # Head(c))
  <2>1. ASSUME NEW k \in 1 .. Len(t) - 1 PROVE t[k] # t[k + 1]
    <3>1. k \in 1 .. Len(t) /\ k + 1 \in 1 .. Len(t) /\ k + 1 \in 1 .. Len(c) - 1
      BY <1>1
    <3> QED BY <1>1, <1>6, <3>1 DEF Alternating
  <2>2. ASSUME t # <<>> PROVE Head(t) # Head(c)
    <3>1. 1 \in 1 .. Len(t) /\ 1 \in 1 .. Len(c) - 1 /\ 1 + 1 = 2
      BY <1>1, <1>3, <2>2
    <3>2. t[1] = c[2] /\ c[1] # c[2]
      BY <1>1, <1>6, <3>1 DEF Alternating
    <3> QED BY <1>2, <2>2, <3>2
  <2> QED BY <2>1, <2>2 DEF Alternating
<1> QED BY <1>4, <1>5, <1>6 DEF t

(* The instance is counted.                                                *)
CountedAt(i) == IF commands[i] = <<>> THEN Listeners(i) # {} ELSE Head(commands[i]) = "decr"

(* An instance whose connections and readers a step leaves alone.          *)
LEMMA CommandsStay ==
    ASSUME NEW i \in Instances, CommandsInv(i), commands'[i] = commands[i],
           channelCmds'[i] = channelCmds[i], subscribed'[i] = subscribed[i],
           Listeners(i)' # {} <=> Listeners(i) # {}
    PROVE  CommandsInv(i)' /\ (CountedAt(i)' <=> CountedAt(i))
BY DEF CommandsInv, CountedAt

(* Counted instances are no more than before.                              *)
LEMMA CountStays ==
    ASSUME CountInv, ReadTypeOK, counter' = counter,
           \A i \in Instances : CountedAt(i)' => CountedAt(i)
    PROVE  CountInv'
<1>1. Counted' \subseteq Counted /\ Counted \subseteq Instances
  BY DEF Counted, CountedAt
<1>2. IsFiniteSet(Counted) /\ Cardinality(Counted) \in Nat
  BY <1>1, ReadAssumption, FS_Subset, FS_CardinalityType
<1>3. Cardinality(Counted') <= Cardinality(Counted) /\ Cardinality(Counted') \in Nat
  BY <1>1, <1>2, FS_Subset, FS_CardinalityType
<1> QED BY <1>2, <1>3 DEF CountInv, ReadTypeOK

(* Listeners, after a step of one reader.                                  *)
LEMMA ListenersChange ==
    ASSUME reader \in [Readers -> Reader], NEW r \in Readers, NEW x \in Reader,
           reader' = [reader EXCEPT ![r] = x], NEW i \in Instances
    PROVE  /\ InstanceOf[r] # i => Listeners(i)' = Listeners(i)
           /\ InstanceOf[r] = i =>
                Listeners(i)' = IF x.listening THEN Listeners(i) \cup {r} ELSE Listeners(i) \ {r}
           /\ x.listening = reader[r].listening => Listeners(i)' = Listeners(i)
<1>1. reader'[r] = x /\ \A q \in Readers : q # r => reader'[q] = reader[q]
  OBVIOUS
<1>2. Listeners(i)' = {q \in Readers : InstanceOf[q] = i /\ reader'[q].listening}
  BY DEF Listeners
<1>3. InstanceOf[r] # i => Listeners(i)' = Listeners(i)
  BY <1>1, <1>2 DEF Listeners
<1>4. InstanceOf[r] = i =>
        Listeners(i)' = IF x.listening THEN Listeners(i) \cup {r} ELSE Listeners(i) \ {r}
  BY <1>1, <1>2 DEF Listeners
<1>5. x.listening = reader[r].listening => Listeners(i)' = Listeners(i)
  BY <1>1, <1>2 DEF Listeners
<1> QED BY <1>3, <1>4, <1>5

(* Steps that change neither a subscription nor who listens.               *)
LEMMA NobodyMoves ==
    ASSUME CountInv, ReadTypeOK, \A i \in Instances : CommandsInv(i),
           UNCHANGED <<counter, commands, channelCmds, subscribed>>,
           \A i \in Instances : Listeners(i)' = Listeners(i)
    PROVE  CountInv' /\ \A i \in Instances : CommandsInv(i)'
<1>1. \A i \in Instances : CommandsInv(i)' /\ (CountedAt(i)' <=> CountedAt(i))
  BY CommandsStay
<1> QED BY <1>1, CountStays

(* subscribe: the first reader of an instance.                             *)
LEMMA OpenCounts ==
    ASSUME CountInv, ReadTypeOK, WInv, FeedInv, Connected, NEW r \in Readers, Open(r), ReaderInv(r),
           \A i \in Instances : CommandsInv(i)
    PROVE  CountInv' /\ \A i \in Instances : CommandsInv(i)'
<1> DEFINE i == InstanceOf[r]
           x == Opened(r)
<1>0. i \in Instances /\ reader \in [Readers -> Reader] /\ reader[r] \in Reader /\ up[i] = TRUE
  BY ReadAssumption DEF ReadTypeOK, Connected, WInv, WriteTypeOK
<1>1. reader' = [reader EXCEPT ![r] = x] /\ x \in Reader /\ x.listening
  <2>1. reader' = [reader EXCEPT ![r] = x]
    BY DEF Open, Opened
  <2>2. x \in Reader /\ x.listening
    BY <1>0 DEF Opened, Reader
  <2> QED BY <2>1, <2>2
<1>2. /\ \A j \in Instances : j # i => Listeners(j)' = Listeners(j)
      /\ Listeners(i)' = Listeners(i) \cup {r}
  BY <1>0, <1>1, ListenersChange
<1>3. UNCHANGED <<counter, subscribed>>
  BY DEF Open
<1>4. CASE Listeners(i) = {}
  <2>1. /\ channelCmds' = [channelCmds EXCEPT ![i] = Append(@, "subscribe")]
        /\ commands' = [commands EXCEPT ![i] = Append(@, "incr")]
    BY <1>0, <1>4 DEF Open, Subscribe
  <2>2. /\ commands[i] \in Seq({"incr", "decr"})
        /\ channelCmds[i] \in Seq({"subscribe", "unsubscribe"})
        /\ commands'[i] = Append(commands[i], "incr")
        /\ channelCmds'[i] = Append(channelCmds[i], "subscribe")
        /\ \A j \in Instances : j # i => commands'[j] = commands[j] /\ channelCmds'[j] = channelCmds[j]
    BY <1>0, <2>1 DEF ReadTypeOK
  <2>3. commands[i] # <<>> => Last(commands[i]) # "incr"
    BY <1>0, <1>4 DEF CommandsInv
  <2>4. /\ commands'[i] # <<>> /\ Last(commands'[i]) = "incr" /\ Alternating(commands'[i])
        /\ Head(commands'[i]) = IF commands[i] = <<>> THEN "incr" ELSE Head(commands[i])
    BY <1>0, <2>2, <2>3, Appended DEF CommandsInv
  <2>5. channelCmds'[i] # <<>> /\ Last(channelCmds'[i]) = "subscribe"
    BY <2>2, Appended, SMTT(30)
  <2>6. CommandsInv(i)' /\ (CountedAt(i)' => CountedAt(i))
    <3>1. Listeners(i)' # {}
      BY <1>2
    <3> QED BY <2>4, <2>5, <3>1, <1>4 DEF CommandsInv, CountedAt
  <2>7. \A j \in Instances : j # i => CommandsInv(j)' /\ (CountedAt(j)' <=> CountedAt(j))
    BY <1>2, <1>3, <2>2, CommandsStay
  <2> QED BY <1>3, <2>6, <2>7, CountStays
<1>5. CASE Listeners(i) # {}
  <2>1. UNCHANGED <<channelCmds, commands>>
    BY <1>5 DEF Open, Subscribe
  <2>2. \A j \in Instances : Listeners(j)' # {} <=> Listeners(j) # {}
    BY <1>2, <1>5
  <2>3. \A j \in Instances : CommandsInv(j)' /\ (CountedAt(j)' <=> CountedAt(j))
    BY <1>3, <2>1, <2>2, CommandsStay
  <2> QED BY <1>3, <2>3, CountStays
<1> QED BY <1>4, <1>5

(* unsubscribe: the last reader of an instance.                            *)
LEMMA CloseCounts ==
    ASSUME CountInv, ReadTypeOK, WInv, FeedInv, Connected, NEW r \in Readers,
           NEW d \in BOOLEAN, Close(r, d), ReaderInv(r),
           \A i \in Instances : CommandsInv(i)
    PROVE  CountInv' /\ \A i \in Instances : CommandsInv(i)'
<1> DEFINE i == InstanceOf[r]
           x == Stopped(r)
<1>0. i \in Instances /\ reader \in [Readers -> Reader] /\ reader[r] \in Reader /\ up[i] = TRUE
  BY ReadAssumption DEF ReadTypeOK, Connected, WInv, WriteTypeOK
<1>1. reader' = [reader EXCEPT ![r] = x] /\ x \in Reader /\ ~x.listening
  <2>1. reader' = [reader EXCEPT ![r] = x]
    BY DEF Close, Stopped
  <2>2. <<>> \in Seq(Positions)
    OBVIOUS
  <2>3. x \in Reader /\ ~x.listening
    BY <1>0, <2>2 DEF Stopped, Reader
  <2> QED BY <2>1, <2>3
<1>2. /\ \A j \in Instances : j # i => Listeners(j)' = Listeners(j)
      /\ Listeners(i)' = Listeners(i) \ {r}
  BY <1>0, <1>1, ListenersChange
<1>3. UNCHANGED <<counter, subscribed>> /\ d = TRUE
  BY <1>0 DEF Close
<1>4. r \in Listeners(i)
  BY <1>0 DEF Close, ReaderInv, Fits, Listeners
<1>5. CASE Listeners(i) \ {r} = {}
  <2>1. /\ channelCmds' = [channelCmds EXCEPT ![i] = Append(@, "unsubscribe")]
        /\ commands' = [commands EXCEPT ![i] = Append(@, "decr")]
    BY <1>3, <1>5 DEF Close, Unsubscribe
  <2>2. /\ commands[i] \in Seq({"incr", "decr"})
        /\ commands'[i] = Append(commands[i], "decr")
        /\ \A j \in Instances : j # i => commands'[j] = commands[j] /\ channelCmds'[j] = channelCmds[j]
    BY <1>0, <2>1 DEF ReadTypeOK
  <2>3. commands[i] # <<>> => Last(commands[i]) # "decr"
    BY <1>0, <1>4 DEF CommandsInv
  <2>4. /\ commands'[i] # <<>> /\ Last(commands'[i]) = "decr" /\ Alternating(commands'[i])
        /\ Head(commands'[i]) = IF commands[i] = <<>> THEN "decr" ELSE Head(commands[i])
    BY <1>0, <2>2, <2>3, Appended DEF CommandsInv
  <2>5. Listeners(i)' = {}
    BY <1>2, <1>5
  <2>6. CommandsInv(i)' /\ (CountedAt(i)' => CountedAt(i))
    BY <2>4, <2>5, <1>4 DEF CommandsInv, CountedAt
  <2>7. \A j \in Instances : j # i => CommandsInv(j)' /\ (CountedAt(j)' <=> CountedAt(j))
    BY <1>2, <1>3, <2>2, CommandsStay
  <2> QED BY <1>3, <2>6, <2>7, CountStays
<1>6. CASE Listeners(i) \ {r} # {}
  <2>1. UNCHANGED <<channelCmds, commands>>
    BY <1>6 DEF Close, Unsubscribe
  <2>2. \A j \in Instances : Listeners(j)' # {} <=> Listeners(j) # {}
    BY <1>2, <1>4, <1>6
  <2>3. \A j \in Instances : CommandsInv(j)' /\ (CountedAt(j)' <=> CountedAt(j))
    BY <1>3, <2>1, <2>2, CommandsStay
  <2> QED BY <1>3, <2>3, CountStays
<1> QED BY <1>5, <1>6

(* incrSubscribers and decrSubscribers.                                    *)
LEMMA CommandCounts ==
    ASSUME CountInv, ReadTypeOK, NEW i \in Instances, ExecuteCommand(i),
           \A j \in Instances : CommandsInv(j)
    PROVE  CountInv' /\ \A j \in Instances : CommandsInv(j)'
<1>1. /\ commands[i] # <<>> /\ commands[i] \in Seq({"incr", "decr"}) /\ counter \in Nat
      /\ commands'[i] = Tail(commands[i])
      /\ \A j \in Instances : j # i => commands'[j] = commands[j]
      /\ UNCHANGED <<channelCmds, subscribed, reader>>
  BY DEF ExecuteCommand, ReadTypeOK
<1>2. \A j \in Instances : Listeners(j)' = Listeners(j)
  BY <1>1 DEF Listeners
<1>3. /\ Tail(commands[i]) = <<>> => Last(commands[i]) = Head(commands[i])
      /\ Tail(commands[i]) # <<>> => Last(Tail(commands[i])) = Last(commands[i])
      /\ Alternating(Tail(commands[i]))
      /\ Tail(commands[i]) # <<>> => Head(Tail(commands[i])) # Head(commands[i])
  BY <1>1, Executed DEF CommandsInv
<1>4. Head(commands[i]) \in {"incr", "decr"} /\
        (Tail(commands[i]) # <<>> => Head(Tail(commands[i])) \in {"incr", "decr"})
  BY <1>1, HeadTailProperties
<1>5. CommandsInv(i)'
  BY <1>1, <1>2, <1>3 DEF CommandsInv
<1>6. \A j \in Instances : j # i => CommandsInv(j)' /\ (CountedAt(j)' <=> CountedAt(j))
  BY <1>1, <1>2, CommandsStay
<1>7. CountedAt(i)' <=> ~CountedAt(i)
  BY <1>1, <1>2, <1>3, <1>4 DEF CountedAt, CommandsInv
<1>8. IsFiniteSet(Counted) /\ Cardinality(Counted) \in Nat
  <2>1. Counted \subseteq Instances
    BY DEF Counted
  <2> QED BY <2>1, ReadAssumption, FS_Subset, FS_CardinalityType
<1>9. CASE Head(commands[i]) = "incr"
  <2>1. i \notin Counted /\ Counted' = Counted \cup {i}
    <3>1. ~CountedAt(i) /\ CountedAt(i)'
      BY <1>1, <1>7, <1>9 DEF CountedAt
    <3> QED BY <1>6, <3>1 DEF Counted, CountedAt
  <2>2. Cardinality(Counted') = Cardinality(Counted) + 1
    BY <1>8, <2>1, FS_AddElement
  <2>3. counter' = counter + 1
    BY <1>9 DEF ExecuteCommand
  <2>4. CountInv'
    BY <1>1, <1>8, <2>2, <2>3 DEF CountInv
  <2> QED BY <1>5, <1>6, <2>4
<1>10. CASE Head(commands[i]) = "decr"
  <2>1. i \in Counted /\ Counted' = Counted \ {i}
    <3>1. CountedAt(i) /\ ~CountedAt(i)'
      BY <1>1, <1>7, <1>10 DEF CountedAt
    <3> QED BY <1>6, <3>1 DEF Counted, CountedAt
  <2>2. Cardinality(Counted') = Cardinality(Counted) - 1
    BY <1>8, <2>1, FS_RemoveElement
  <2>3. counter' = IF counter > 1 THEN counter - 1 ELSE 0
    BY <1>10 DEF ExecuteCommand
  <2>4. CountInv'
    BY <1>1, <1>8, <2>2, <2>3 DEF CountInv
  <2> QED BY <1>5, <1>6, <2>4
<1> QED BY <1>4, <1>9, <1>10

LEMMA ChannelCommandCounts ==
    ASSUME CountInv, ReadTypeOK, NEW i \in Instances, ExecuteChannelCommand(i),
           \A j \in Instances : CommandsInv(j)
    PROVE  CountInv' /\ \A j \in Instances : CommandsInv(j)'
<1>1. /\ channelCmds[i] # <<>> /\ channelCmds[i] \in Seq({"subscribe", "unsubscribe"})
      /\ channelCmds'[i] = Tail(channelCmds[i])
      /\ subscribed'[i] = (Head(channelCmds[i]) = "subscribe")
      /\ \A j \in Instances : j # i => channelCmds'[j] = channelCmds[j] /\ subscribed'[j] = subscribed[j]
      /\ UNCHANGED <<counter, commands, reader>>
  BY DEF ExecuteChannelCommand, ReadTypeOK
<1>2. \A j \in Instances : Listeners(j)' = Listeners(j)
  BY <1>1 DEF Listeners
<1>3. /\ Tail(channelCmds[i]) = <<>> => Last(channelCmds[i]) = Head(channelCmds[i])
      /\ Tail(channelCmds[i]) # <<>> => Last(Tail(channelCmds[i])) = Last(channelCmds[i])
  BY <1>1, Executed
<1>4. CommandsInv(i)' /\ (CountedAt(i)' <=> CountedAt(i))
  BY <1>1, <1>2, <1>3 DEF CommandsInv, CountedAt
<1>5. \A j \in Instances : j # i => CommandsInv(j)' /\ (CountedAt(j)' <=> CountedAt(j))
  BY <1>1, <1>2, CommandsStay
<1> QED BY <1>1, <1>4, <1>5, CountStays

(* An instance that stops leaves the counter too high, never too low.      *)
LEMMA CrashCounts ==
    ASSUME CountInv, ReadTypeOK, NEW i \in Instances, Crash(i),
           \A j \in Instances : CommandsInv(j), \A r \in Readers : ReaderInv(r)
    PROVE  CountInv' /\ \A j \in Instances : CommandsInv(j)'
<1>1. /\ commands'[i] = <<>> /\ channelCmds'[i] = <<>>
      /\ \A j \in Instances : j # i =>
           commands'[j] = commands[j] /\ channelCmds'[j] = channelCmds[j] /\ subscribed'[j] = subscribed[j]
      /\ counter' = counter
  BY DEF Crash, ReadTypeOK
<1>2. \A r \in Readers : reader'[r] = IF InstanceOf[r] = i /\ reader[r].state # "idle"
                                      THEN [IdleReader EXCEPT !.state = "Closed"] ELSE reader[r]
  BY DEF Crash
<1>3. Listeners(i)' = {}
  <2>1. ASSUME NEW r \in Readers, InstanceOf[r] = i PROVE ~reader'[r].listening
    BY <1>2, <2>1 DEF ReaderInv, Fits, IdleReader
  <2> QED BY <2>1 DEF Listeners
<1>4. \A j \in Instances : j # i => Listeners(j)' = Listeners(j)
  <2>1. \A r \in Readers : InstanceOf[r] # i => reader'[r] = reader[r]
    BY <1>2
  <2> QED BY <2>1 DEF Listeners
<1>5. CommandsInv(i)' /\ ~CountedAt(i)'
  <2>1. Alternating(<<>>)
    BY DEF Alternating
  <2> QED BY <1>1, <1>3, <2>1 DEF CommandsInv, CountedAt
<1>6. \A j \in Instances : j # i => CommandsInv(j)' /\ (CountedAt(j)' <=> CountedAt(j))
  BY <1>1, <1>4, CommandsStay
<1> QED BY <1>1, <1>5, <1>6, CountStays

LEMMA ExpiryCounts ==
    ASSUME CountInv, ReadTypeOK, ExpireCounter, \A j \in Instances : CommandsInv(j)
    PROVE  CountInv' /\ \A j \in Instances : CommandsInv(j)'
<1>1. UNCHANGED <<commands, channelCmds, subscribed, reader>> /\ counter' = 0
  BY DEF ExpireCounter
<1>2. \A j \in Instances : CommandsInv(j)'
  BY <1>1 DEF CommandsInv, Listeners
<1>3. Counted' = {}
  BY <1>1 DEF ExpireCounter, Counted, Listeners
<1> QED BY <1>1, <1>2, <1>3, FS_EmptySet DEF CountInv

(* A message that arrives changes nothing about who listens.               *)
LEMMA OnLogListens ==
    ASSUME NEW x \in Reader, NEW p \in Positions, NEW saturates \in BOOLEAN
    PROVE  OnLog(x, p, saturates).listening = x.listening
BY DEF OnLog, Reader

LEMMA FlushedListens ==
    ASSUME NEW x \in Reader, NEW logs
    PROVE  Flushed(x, logs).listening = x.listening
BY DEF Flushed, Reader

LEMMA CountStep ==
    ASSUME CountInv, ReadTypeOK, WInv, FeedInv, Connected, Next,
           \A j \in Instances : CommandsInv(j), \A r \in Readers : ReaderInv(r)
    PROVE  CountInv' /\ \A j \in Instances : CommandsInv(j)'
<1>1. CASE Write
  <2>1. UNCHANGED readVars
    BY <1>1 DEF Write
  <2>2. UNCHANGED <<counter, commands, channelCmds, subscribed, reader>>
    BY <2>1 DEF readVars
  <2>3. \A i \in Instances : Listeners(i)' = Listeners(i)
    BY <2>2 DEF Listeners
  <2> QED BY <2>2, <2>3, NobodyMoves
<1>2. ASSUME NEW r \in Readers, Read(r) PROVE CountInv' /\ \A j \in Instances : CommandsInv(j)'
  <2>0. reader \in [Readers -> Reader] /\ reader[r] \in Reader
    BY DEF ReadTypeOK
  <2>1. PICK x \in Reader :
          /\ reader' = [reader EXCEPT ![r] = x]
          /\ \/ Open(r)
             \/ \E d \in BOOLEAN : Close(r, d)
             \/ /\ UNCHANGED <<counter, commands, channelCmds, subscribed>>
                /\ x.listening = reader[r].listening
    <3>1. PICK x \in Reader :
             /\ reader' = [reader EXCEPT ![r] = x]
             /\ \/ Open(r) /\ x = Opened(r)
                \/ ReadHistory(r) /\ x = Answered(r)
                \/ FlushHistory(r) /\ x = Flushed(reader[r], Merged(reader[r].history, reader[r].buffer))
                \/ HistoryFails(r) /\ x = Flushed(reader[r], Merged(<<>>, reader[r].buffer))
                \/ \E saturates \in BOOLEAN : Drain(r, saturates) /\ x = Drained(reader[r], saturates)
                \/ \E decremented \in BOOLEAN : Close(r, decremented) /\ x = Stopped(r)
      BY <1>2, ReadSteps
    <3>2. CASE ReadHistory(r) /\ x = Answered(r)
      <4>1. x.listening = reader[r].listening
        BY <2>0, <3>2 DEF Answered, Reader
      <4> QED BY <3>1, <3>2, <4>1 DEF ReadHistory
    <3>3. CASE FlushHistory(r) /\ x = Flushed(reader[r], Merged(reader[r].history, reader[r].buffer))
      BY <2>0, <3>1, <3>3, FlushedListens DEF FlushHistory
    <3>4. CASE HistoryFails(r) /\ x = Flushed(reader[r], Merged(<<>>, reader[r].buffer))
      BY <2>0, <3>1, <3>4, FlushedListens DEF HistoryFails
    <3>5. CASE \E saturates \in BOOLEAN : Drain(r, saturates) /\ x = Drained(reader[r], saturates)
      <4>1. x.listening = reader[r].listening
        BY <2>0, <3>5 DEF Drained, Reader
      <4> QED BY <3>1, <3>5, <4>1 DEF Drain
    <3> QED BY <3>1, <3>2, <3>3, <3>4, <3>5
  <2>2. CASE Open(r)
    BY <2>2, OpenCounts
  <2>3. CASE \E d \in BOOLEAN : Close(r, d)
    BY <2>3, CloseCounts
  <2>4. CASE UNCHANGED <<counter, commands, channelCmds, subscribed>>
             /\ x.listening = reader[r].listening
    <3>1. \A i \in Instances : Listeners(i)' = Listeners(i)
      BY <2>0, <2>1, <2>4, ListenersChange
    <3> QED BY <2>4, <3>1, NobodyMoves
  <2> QED BY <2>1, <2>2, <2>3, <2>4
<1>3. CASE PublishLogs
  <2>1. UNCHANGED <<counter, commands, channelCmds, subscribed, reader>>
    BY <1>3 DEF PublishLogs
  <2>2. \A i \in Instances : Listeners(i)' = Listeners(i)
    BY <2>1 DEF Listeners
  <2> QED BY <2>1, <2>2, NobodyMoves
<1>4. CASE ExpireCounter
  BY <1>4, ExpiryCounts
<1>5. ASSUME NEW i \in Instances, ExecuteCommand(i) \/ ExecuteChannelCommand(i) \/ Crash(i)
      PROVE  CountInv' /\ \A j \in Instances : CommandsInv(j)'
  BY <1>5, CommandCounts, ChannelCommandCounts, CrashCounts
<1>6. ASSUME NEW i \in Instances, NEW k \in Positions, NEW s \in SUBSET Readers, HandleMessage(i, k, s)
      PROVE  CountInv' /\ \A j \in Instances : CommandsInv(j)'
  <2>1. inbox[i][k] \in Positions
    BY <1>6 DEF HandleMessage, ReadTypeOK
  <2>2. \A r \in Readers : reader'[r].listening = reader[r].listening
    <3> TAKE r \in Readers
    <3>1. reader[r] \in Reader /\ (r \in s) \in BOOLEAN
      BY DEF ReadTypeOK
    <3>2. OnLog(reader[r], inbox[i][k], r \in s).listening = reader[r].listening
      BY <2>1, <3>1, OnLogListens
    <3> QED BY <1>6, <3>2 DEF HandleMessage
  <2>3. \A j \in Instances : Listeners(j)' = Listeners(j)
    BY <2>2 DEF Listeners
  <2>4. UNCHANGED <<counter, commands, channelCmds, subscribed>>
    BY <1>6 DEF HandleMessage
  <2> QED BY <2>3, <2>4, NobodyMoves
<1> QED BY <1>1, <1>2, <1>3, <1>4, <1>5, <1>6 DEF Next, Redis

-----------------------------------------------------------------------------
(* The streams of the readers.                                             *)

LEMMA ConnectedStep ==
    ASSUME ReadersConnected, Connected, WInv, [WriteNext]_writeVars
    PROVE  Connected'
<1> SUFFICES ASSUME NEW r \in Readers PROVE up'[InstanceOf[r]]
  BY DEF Connected
<1>1. InstanceOf[r] \in Instances /\ up[InstanceOf[r]] /\ InstanceOf[r] \notin Outages
      /\ up \in [Instances -> BOOLEAN]
  BY ReadAssumption DEF Connected, ReadersConnected, WInv, WriteTypeOK
<1>2. \/ UNCHANGED up \/ \E i \in Instances : Disconnect(i) \/ Reconnect(i)
  BY DEF WriteNext, writeVars, Data, TryPublish, Publish, PublishFails
<1>3. ASSUME NEW i \in Instances, Disconnect(i) PROVE up'[InstanceOf[r]]
  BY <1>1, <1>3 DEF Disconnect
<1>4. ASSUME NEW i \in Instances, Reconnect(i) PROVE up'[InstanceOf[r]]
  BY <1>1, <1>4 DEF Reconnect
<1> QED BY <1>1, <1>2, <1>3, <1>4

LEMMA OnLogFits ==
    ASSUME NEW x \in Reader, NEW r \in Readers, Fits(r, x), x.listening, NEW p \in Positions,
           NEW saturates \in BOOLEAN
    PROVE  Fits(r, OnLog(x, p, saturates))
<1> SUFFICES ASSUME NEW y, y = OnLog(x, p, saturates) PROVE Fits(r, y)
  OBVIOUS
<1>1. CASE x.state = "Buffering"
  <2>1. y = [x EXCEPT !.buffer = Append(@, p)]
    BY <1>1 DEF OnLog
  <2>2. /\ y.state = x.state /\ y.listening = x.listening /\ y.asked = x.asked
        /\ y.sent = x.sent /\ y.dropped = x.dropped /\ y.warned = x.warned
    BY <2>1 DEF Reader
  <2> QED BY <2>2 DEF Fits
<1>2. CASE x.state = "Saturated"
  <2>1. y = [x EXCEPT !.dropped = @ \cup {p}]
    BY <1>2 DEF OnLog
  <2>2. y.state = x.state /\ y.listening = x.listening /\ y.asked = x.asked
    BY <2>1 DEF Reader
  <2> QED BY <1>2, <2>2 DEF Fits
<1>3. CASE x.state = "Writable"
  <2>1. y = [x EXCEPT !.sent = Append(@, p), !.state = IF saturates THEN "Saturated" ELSE "Writable"]
    BY <1>3 DEF OnLog
  <2>2. y.state \in {"Saturated", "Writable"} /\ y.listening = x.listening /\ y.asked = x.asked
    BY <2>1 DEF Reader
  <2> QED BY <1>3, <2>2 DEF Fits
<1> QED BY <1>1, <1>2, <1>3 DEF Fits

LEMMA FlushedFits ==
    ASSUME NEW x \in Reader, NEW r \in Readers, Fits(r, x), x.asked # "no", NEW logs
    PROVE  Fits(r, Flushed(x, logs))
<1> SUFFICES ASSUME NEW y, y = Flushed(x, logs) PROVE Fits(r, y)
  OBVIOUS
<1>1. CASE x.state = "Closed"
  <2>1. y.state = "Closed" /\ y.listening = x.listening /\ y.asked = "no"
    BY <1>1 DEF Flushed, Reader
  <2> QED BY <1>1, <2>1 DEF Fits
<1>2. CASE x.state = "Buffering"
  <2>1. y.state = "Writable" /\ y.listening = x.listening /\ y.asked = "no"
    BY <1>2 DEF Flushed, Reader
  <2> QED BY <1>2, <2>1 DEF Fits
<1> QED BY <1>1, <1>2 DEF Fits

LEMMA ReaderStep ==
    ASSUME ReadTypeOK, WInv, FeedInv, Connected, Next, \A r \in Readers : ReaderInv(r)
    PROVE  \A r \in Readers : ReaderInv(r)'
<1>1. CASE Write \/ PublishLogs \/ ExpireCounter
           \/ \E i \in Instances : ExecuteCommand(i) \/ ExecuteChannelCommand(i)
  <2>1. UNCHANGED reader
    BY <1>1 DEF Write, readVars, PublishLogs, ExpireCounter, ExecuteCommand, ExecuteChannelCommand
  <2> QED BY <2>1 DEF ReaderInv
<1>2. ASSUME NEW r \in Readers, Read(r) PROVE \A q \in Readers : ReaderInv(q)'
  <2>0. reader \in [Readers -> Reader] /\ reader[r] \in Reader /\ Fits(r, reader[r])
    BY DEF ReadTypeOK, ReaderInv
  <2>1. PICK x \in Reader :
             /\ reader' = [reader EXCEPT ![r] = x]
             /\ \/ Open(r) /\ x = Opened(r)
                \/ ReadHistory(r) /\ x = Answered(r)
                \/ FlushHistory(r) /\ x = Flushed(reader[r], Merged(reader[r].history, reader[r].buffer))
                \/ HistoryFails(r) /\ x = Flushed(reader[r], Merged(<<>>, reader[r].buffer))
                \/ \E saturates \in BOOLEAN : Drain(r, saturates) /\ x = Drained(reader[r], saturates)
                \/ \E decremented \in BOOLEAN : Close(r, decremented) /\ x = Stopped(r)
    BY <1>2, ReadSteps
  <2>2. reader'[r] = x /\ \A q \in Readers : q # r => reader'[q] = reader[q]
    BY <2>0, <2>1
  <2>3. ASSUME Open(r) /\ x = Opened(r)
       PROVE  Fits(r, x)
    <3>1. up[InstanceOf[r]] = TRUE
      BY ReadAssumption DEF Connected, WInv, WriteTypeOK
    <3>2. /\ x.listening /\ x.sent = reader[r].sent /\ x.dropped = reader[r].dropped
          /\ x.warned = reader[r].warned
          /\ x.state = IF Count[r] > 0 THEN "Buffering" ELSE "Writable"
          /\ x.asked = IF Count[r] > 0 THEN "asked" ELSE "no"
      BY <2>0, <2>3, <3>1 DEF Opened, Reader
    <3>3. reader[r].state = "idle"
      BY <2>3 DEF Open
    <3> QED BY <2>0, <3>2, <3>3 DEF Fits
  <2>4. ASSUME ReadHistory(r) /\ x = Answered(r)
       PROVE  Fits(r, x)
    <3>1. /\ x.listening = reader[r].listening /\ x.sent = reader[r].sent
          /\ x.dropped = reader[r].dropped /\ x.warned = reader[r].warned
          /\ x.state = reader[r].state /\ x.asked = "answered"
      BY <2>0, <2>4 DEF Answered, Reader
    <3>2. reader[r].asked = "asked"
      BY <2>4 DEF ReadHistory
    <3> QED BY <2>0, <3>1, <3>2 DEF Fits
  <2>5. ASSUME FlushHistory(r) /\ x = Flushed(reader[r], Merged(reader[r].history, reader[r].buffer))
       PROVE  Fits(r, x)
    BY <2>0, <2>5, FlushedFits DEF FlushHistory
  <2>6. ASSUME HistoryFails(r) /\ x = Flushed(reader[r], Merged(<<>>, reader[r].buffer))
       PROVE  Fits(r, x)
    BY <2>0, <2>6, FlushedFits DEF HistoryFails
  <2>7. ASSUME \E saturates \in BOOLEAN : Drain(r, saturates) /\ x = Drained(reader[r], saturates)
       PROVE  Fits(r, x)
    <3>1. /\ x.listening = reader[r].listening /\ x.asked = reader[r].asked
          /\ x.state \in {"Saturated", "Writable"}
      BY <2>0, <2>7 DEF Drained, Reader
    <3>2. reader[r].state = "Saturated"
      BY <2>7 DEF Drain
    <3> QED BY <2>0, <3>1, <3>2 DEF Fits
  <2>8. ASSUME \E decremented \in BOOLEAN : Close(r, decremented) /\ x = Stopped(r)
       PROVE  Fits(r, x)
    <3>1. ~x.listening /\ x.asked = reader[r].asked /\ x.state = "Closed"
      BY <2>0, <2>8 DEF Stopped, Reader
    <3> QED BY <2>0, <3>1 DEF Fits
  <2>9. Fits(r, x)
    BY <2>1, <2>3, <2>4, <2>5, <2>6, <2>7, <2>8
  <2> QED BY <2>2, <2>9 DEF ReaderInv
<1>3. ASSUME NEW i \in Instances, Crash(i) PROVE \A r \in Readers : ReaderInv(r)'
  <2> TAKE r \in Readers
  <2>1. \/ reader'[r] = reader[r] \/ reader'[r] = [IdleReader EXCEPT !.state = "Closed"]
    BY <1>3 DEF Crash
  <2>2. Fits(r, [IdleReader EXCEPT !.state = "Closed"])
    BY DEF Fits, IdleReader
  <2> QED BY <2>1, <2>2 DEF ReaderInv
<1>4. ASSUME NEW i \in Instances, NEW k \in Positions, NEW s \in SUBSET Readers, HandleMessage(i, k, s)
      PROVE  \A r \in Readers : ReaderInv(r)'
  <2> TAKE r \in Readers
  <2>1. inbox[i][k] \in Positions /\ reader[r] \in Reader /\ (r \in s) \in BOOLEAN
    BY <1>4 DEF HandleMessage, ReadTypeOK
  <2>2. reader'[r] = IF r \in Listeners(i) THEN OnLog(reader[r], inbox[i][k], r \in s) ELSE reader[r]
    BY <1>4 DEF HandleMessage
  <2>3. r \in Listeners(i) => Fits(r, OnLog(reader[r], inbox[i][k], r \in s))
    BY <2>1, OnLogFits DEF ReaderInv, Listeners
  <2> QED BY <2>2, <2>3 DEF ReaderInv
<1> QED BY <1>1, <1>2, <1>3, <1>4 DEF Next, Redis

(* The counter of the subscribers, for readers that stay connected.        *)
SInv ==
    /\ WInv /\ FeedInv /\ Connected /\ ReadTypeOK /\ CountInv
    /\ \A i \in Instances : CommandsInv(i)
    /\ \A r \in Readers : ReaderInv(r)

LEMMA SInvInit == ReadersConnected /\ Init => SInv
<1> SUFFICES ASSUME Init PROVE SInv
  OBVIOUS
<1>1. WInv
  BY InvInit DEF Init
<1>2. /\ <<>> \in Seq(Positions) /\ <<>> \in Seq({"incr", "decr"})
      /\ <<>> \in Seq({"subscribe", "unsubscribe"}) /\ Len(<<>>) = 0
  OBVIOUS
<1>3. FeedInv
  BY <1>2 DEF Init, WriteInit, FeedInv, Rising
<1>4. Connected
  BY ReadAssumption DEF Init, WriteInit, Connected
<1>5. ReadTypeOK
  <2>1. IdleReader \in Reader
    BY <1>2 DEF IdleReader, Reader
  <2> QED BY <1>2, <2>1 DEF Init, ReadTypeOK
<1>6. \A i \in Instances : Listeners(i) = {}
  BY DEF Init, IdleReader, Listeners
<1>7. CountInv
  <2>1. Counted = {}
    BY <1>6 DEF Init, Counted
  <2> QED BY <2>1, FS_EmptySet DEF Init, CountInv
<1>8. \A i \in Instances : CommandsInv(i)
  <2> TAKE i \in Instances
  <2>1. commands[i] = <<>> /\ Listeners(i) = {}
    BY <1>6 DEF Init
  <2>2. Alternating(commands[i])
    BY <1>2, <2>1 DEF Alternating
  <2> QED BY <2>1, <2>2 DEF CommandsInv
<1>9. \A r \in Readers : ReaderInv(r)
  BY DEF Init, IdleReader, ReaderInv, Fits
<1> QED BY <1>1, <1>3, <1>4, <1>5, <1>7, <1>8, <1>9 DEF SInv

LEMMA SInvStep == ReadersConnected /\ SInv /\ [Next]_vars => SInv'
<1> SUFFICES ASSUME ReadersConnected, SInv, [Next]_vars PROVE SInv'
  OBVIOUS
<1>1. [WriteNext]_writeVars
  BY StreamWrites DEF vars
<1>2. WInv' /\ FeedInv' /\ Connected'
  BY <1>1, WriteStep, FeedStep, ConnectedStep DEF SInv
<1>3. CASE Next
  <2>1. WriteTypeOK'
    BY <1>2 DEF WInv
  <2>2. ReadTypeOK'
    BY <1>2, <1>3, <2>1, ReadTypeStep DEF SInv
  <2>3. CountInv' /\ \A i \in Instances : CommandsInv(i)'
    BY <1>3, CountStep DEF SInv
  <2>4. \A r \in Readers : ReaderInv(r)'
    BY <1>3, ReaderStep DEF SInv
  <2> QED BY <1>2, <2>2, <2>3, <2>4 DEF SInv
<1>4. CASE UNCHANGED vars
  <2>1. UNCHANGED readVars
    BY <1>4 DEF vars
  <2>2. ReadTypeOK' /\ CountInv' /\ (\A i \in Instances : CommandsInv(i)') /\ \A r \in Readers : ReaderInv(r)'
    BY <2>1 DEF readVars, SInv, ReadTypeOK, CountInv, Counted, CommandsInv, Listeners, ReaderInv
  <2> QED BY <1>2, <2>2 DEF SInv
<1> QED BY <1>3, <1>4

LEMMA JoinedStep ==
    ASSUME WInv', joined \in [Readers -> {-1} \cup Nat], JoinedInv, Next
    PROVE  joined' \in [Readers -> {-1} \cup Nat] /\ JoinedInv'
<1>1. Len(feed') \in Nat
  BY LenProperties DEF WInv, WriteTypeOK
<1>2. Observe
  BY DEF Next
<1> QED BY <1>1, <1>2 DEF Observe, JoinedInv

(* The counter covers every instance whose increment was executed.         *)
LEMMA CountCovers == SInv => SubscribersCounted
<1> SUFFICES ASSUME SInv, NEW i \in Instances, Listeners(i) # {}, commands[i] = <<>>
             PROVE  counter > 0
  BY DEF SubscribersCounted
<1>1. i \in Counted
  BY DEF Counted
<1>2. IsFiniteSet(Counted)
  BY ReadAssumption, FS_Subset DEF Counted
<1>3. Cardinality(Counted) \in Nat /\ Cardinality(Counted) # 0
  BY <1>1, <1>2, FS_CardinalityType, FS_EmptySet
<1> QED BY <1>3 DEF SInv, CountInv, ReadTypeOK

LEMMA JoinedBegins == Init => joined \in [Readers -> {-1} \cup Nat] /\ JoinedInv
BY DEF Init, JoinedInv

(* "We know that if the key is false (doesn't exist) then there are no     *)
(* subscribers as it is cleared upon reaching 0", for any number of        *)
(* instances and readers that come, go and crash in any order, the key's   *)
(* expiry included: the counter that gates the publish script is set for   *)
(* every instance that serves a reader once its increment was executed.    *)
(* The instances of the readers keep their connection: a subscribe over a  *)
(* lost one is dropped (see redis.ts).                                     *)
THEOREM SubscribersAreCounted == ReadersConnected => (Spec => []StreamInv)
<1> DEFINE Inv == SInv /\ joined \in [Readers -> {-1} \cup Nat] /\ JoinedInv
<1> SUFFICES ASSUME ReadersConnected PROVE Spec => []StreamInv
  OBVIOUS
<1>1. Init => Inv
  BY SInvInit, JoinedBegins
<1>2. Inv /\ [Next]_vars => Inv'
  <2> SUFFICES ASSUME Inv, [Next]_vars PROVE Inv'
    OBVIOUS
  <2>1. SInv'
    BY SInvStep
  <2>2. CASE Next
    <3>1. WInv'
      BY <2>1 DEF SInv
    <3> QED BY <2>1, <2>2, <3>1, JoinedStep
  <2>3. CASE UNCHANGED vars
    BY <2>1, <2>3 DEF vars, readVars, JoinedInv, Established
  <2> QED BY <2>2, <2>3
<1>3. Inv => StreamInv
  BY CountCovers DEF StreamInv, TypeOK, SInv, WInv, ReadTypeOK
<1> QED BY <1>1, <1>2, <1>3, PTL DEF Spec

-----------------------------------------------------------------------------
(* The order of the messages.                                              *)

LEMMA EmptyOrdered ==
    ASSUME NEW b, NEW q, NEW n, Ordered(b, q, n)
    PROVE  Ordered(<<>>, q, n) /\ Ordered(b, <<>>, n)
<1>1. 1 .. Len(<<>>) = {}
  OBVIOUS
<1> QED BY <1>1 DEF Ordered, Climbs

LEMMA OrderedHandled ==
    ASSUME NEW b \in Seq(Positions), NEW q \in Seq(Positions), NEW n \in Nat,
           Ordered(b, q, n), q # <<>>
    PROVE  Ordered(b, RemoveAt(q, 1), n) /\ Ordered(Append(b, q[1]), RemoveAt(q, 1), n)
<1> DEFINE t == RemoveAt(q, 1)
           a == Append(b, q[1])
<1>0. /\ Len(b) \in Nat /\ Len(q) \in Nat /\ 1 \in 1 .. Len(q)
      /\ (\A j \in 1 .. Len(b) : b[j] \in Nat) /\ (\A j \in 1 .. Len(q) : q[j] \in Nat)
  BY WriteAssumption DEF Positions
<1>1. Len(t) = Len(q) - 1 /\ \A j \in 1 .. Len(t) : t[j] = q[j + 1] /\ j + 1 \in 1 .. Len(q)
  <2>1. Len(t) = Len(q) - 1 /\ \A j \in 1 .. Len(q) - 1 : t[j] = IF j < 1 THEN q[j] ELSE q[j + 1]
    BY <1>0, RemoveAtIs
  <2> HIDE DEF t
  <2> QED BY <1>0, <2>1
<1>2. /\ Len(a) = Len(b) + 1 /\ a[Len(b) + 1] = q[1]
      /\ \A j \in 1 .. Len(b) : a[j] = b[j]
  BY <1>0, AppendProperties
<1> HIDE DEF t, a
<1>3. Climbs(t, n)
  <2>1. ASSUME NEW k \in 1 .. Len(t) PROVE t[k] <= n
    BY <1>1 DEF Ordered, Climbs
  <2>2. ASSUME NEW j \in 1 .. Len(t), NEW k \in 1 .. Len(t), j < k PROVE t[j] < t[k]
    <3>1. j + 1 < k + 1
      BY <1>0, <1>1, <2>2
    <3> QED BY <1>1, <3>1 DEF Ordered, Climbs
  <2> QED BY <2>1, <2>2 DEF Climbs
<1>4. \A j \in 1 .. Len(b), k \in 1 .. Len(t) : b[j] < t[k]
  BY <1>0, <1>1 DEF Ordered
<1>5. \A j \in 1 .. Len(a) : j \in 1 .. Len(b) \/ j = Len(b) + 1
  BY <1>0, <1>2
<1>6. Climbs(a, n)
  <2>1. \A k \in 1 .. Len(a) : a[k] <= n
    BY <1>0, <1>2, <1>5 DEF Ordered, Climbs
  <2>2. ASSUME NEW j \in 1 .. Len(a), NEW k \in 1 .. Len(a), j < k PROVE a[j] < a[k]
    <3>1. j \in 1 .. Len(b)
      BY <1>0, <1>2, <2>2
    <3>2. CASE k \in 1 .. Len(b)
      BY <1>2, <2>2, <3>1, <3>2 DEF Ordered, Climbs
    <3>3. CASE k = Len(b) + 1
      BY <1>0, <1>2, <3>1, <3>3 DEF Ordered
    <3> QED BY <1>5, <3>2, <3>3
  <2> QED BY <2>1, <2>2 DEF Climbs
<1>7. ASSUME NEW j \in 1 .. Len(a), NEW k \in 1 .. Len(t) PROVE a[j] < t[k]
  <2>1. CASE j \in 1 .. Len(b)
    BY <1>2, <1>4, <2>1
  <2>2. CASE j = Len(b) + 1
    <3>1. k + 1 \in 1 .. Len(q) /\ 1 < k + 1 /\ t[k] = q[k + 1]
      BY <1>0, <1>1
    <3>2. q[1] < q[k + 1]
      BY <1>0, <3>1 DEF Ordered, Climbs
    <3> QED BY <1>2, <2>2, <3>1, <3>2
  <2> QED BY <1>5, <2>1, <2>2
<1>8. Climbs(b, n)
  BY DEF Ordered
<1>9. Ordered(b, t, n)
  BY <1>3, <1>4, <1>8 DEF Ordered
<1>10. Ordered(a, t, n)
  BY <1>3, <1>6, <1>7 DEF Ordered
<1> QED BY <1>9, <1>10 DEF t, a

(* A batch of m messages after the first n.                                *)
LEMMA OrderedPublished ==
    ASSUME NEW b \in Seq(Positions), NEW q \in Seq(Positions), NEW n \in Nat, NEW m \in Nat,
           Ordered(b, q, n)
    PROVE  /\ Ordered(b, q, n + m)
           /\ Ordered(b, q \o [j \in 1 .. m |-> n + j], n + m)
<1> DEFINE t == [j \in 1 .. m |-> n + j]
           c == q \o t
<1>0. /\ Len(b) \in Nat /\ Len(q) \in Nat
      /\ (\A j \in 1 .. Len(b) : b[j] \in Nat) /\ (\A j \in 1 .. Len(q) : q[j] \in Nat)
  BY WriteAssumption DEF Positions
<1>1. t \in Seq(Nat) /\ Len(t) = m /\ \A j \in 1 .. m : t[j] = n + j
  OBVIOUS
<1>2. q \in Seq(Nat)
  BY WriteAssumption DEF Positions
<1>3. /\ Len(c) = Len(q) + m
      /\ \A j \in 1 .. Len(q) + m : c[j] = IF j <= Len(q) THEN q[j] ELSE t[j - Len(q)]
  <2> HIDE DEF t
  <2> QED BY <1>1, <1>2, ConcatProperties
<1> HIDE DEF t
<1>4. /\ \A j \in 1 .. Len(q) : c[j] = q[j]
      /\ \A j \in Len(q) + 1 .. Len(c) : c[j] = n + (j - Len(q)) /\ j - Len(q) \in 1 .. m
      /\ \A j \in 1 .. Len(c) : j \in 1 .. Len(q) \/ j \in Len(q) + 1 .. Len(c)
  <2>1. \A j \in 1 .. Len(q) : c[j] = q[j]
    BY <1>0, <1>3
  <2>2. ASSUME NEW j \in Len(q) + 1 .. Len(c)
        PROVE  c[j] = n + (j - Len(q)) /\ j - Len(q) \in 1 .. m
    <3>1. j \in 1 .. Len(q) + m /\ ~(j <= Len(q)) /\ j - Len(q) \in 1 .. m
      BY <1>0, <1>3
    <3> QED BY <1>1, <1>3, <3>1
  <2> QED BY <1>0, <2>1, <2>2
<1> HIDE DEF c
<1>5. Climbs(b, n + m) /\ Climbs(q, n + m)
  BY <1>0 DEF Ordered, Climbs
<1>6. Climbs(c, n + m)
  <2>1. \A k \in 1 .. Len(c) : c[k] <= n + m
    BY <1>0, <1>4 DEF Ordered, Climbs
  <2>2. ASSUME NEW j \in 1 .. Len(c), NEW k \in 1 .. Len(c), j < k PROVE c[j] < c[k]
    <3>1. CASE k \in 1 .. Len(q)
      BY <1>0, <1>4, <2>2, <3>1 DEF Ordered, Climbs
    <3>2. CASE k \in Len(q) + 1 .. Len(c) /\ j \in 1 .. Len(q)
      BY <1>0, <1>4, <3>2 DEF Ordered, Climbs
    <3>3. CASE k \in Len(q) + 1 .. Len(c) /\ j \in Len(q) + 1 .. Len(c)
      BY <1>0, <1>4, <2>2, <3>3
    <3> QED BY <1>4, <3>1, <3>2, <3>3
  <2> QED BY <2>1, <2>2 DEF Climbs
<1>7. ASSUME NEW j \in 1 .. Len(b), NEW k \in 1 .. Len(c) PROVE b[j] < c[k]
  <2>1. CASE k \in 1 .. Len(q)
    BY <1>4, <2>1 DEF Ordered
  <2>2. CASE k \in Len(q) + 1 .. Len(c)
    BY <1>0, <1>4, <2>2 DEF Ordered, Climbs
  <2> QED BY <1>4, <2>1, <2>2
<1>8. Ordered(b, q, n + m)
  BY <1>5 DEF Ordered
<1>9. Ordered(b, c, n + m)
  BY <1>5, <1>6, <1>7 DEF Ordered
<1> QED BY <1>8, <1>9 DEF c, t


LEMMA EmptyEnds == \A n : Ends(<<>>, n)
<1>1. 1 .. Len(<<>>) = {}
  OBVIOUS
<1> QED BY <1>1 DEF Ends

(* What a step of a reader does to its history and its buffer.             *)
LEMMA ReadKeepsOrder ==
    ASSUME SInv, NEW r \in Readers, Read(r)
    PROVE  /\ \A q \in Readers : q # r => reader'[q] = reader[q]
           /\ reader'[r].history \in {reader[r].history, <<>>, HistoryNow(r)}
           /\ reader'[r].buffer \in {reader[r].buffer, <<>>}
           /\ UNCHANGED <<inbox, feed>>
<1>0. reader \in [Readers -> Reader] /\ reader[r] \in Reader
  BY DEF SInv, ReadTypeOK
<1>1. PICK x \in Reader :
           /\ reader' = [reader EXCEPT ![r] = x]
           /\ \/ Open(r) /\ x = Opened(r)
              \/ ReadHistory(r) /\ x = Answered(r)
              \/ FlushHistory(r) /\ x = Flushed(reader[r], Merged(reader[r].history, reader[r].buffer))
              \/ HistoryFails(r) /\ x = Flushed(reader[r], Merged(<<>>, reader[r].buffer))
              \/ \E saturates \in BOOLEAN : Drain(r, saturates) /\ x = Drained(reader[r], saturates)
              \/ \E decremented \in BOOLEAN : Close(r, decremented) /\ x = Stopped(r)
  BY ReadSteps DEF SInv
<1>2. UNCHANGED <<inbox, feed>>
  BY DEF Read, Open, ReadHistory, FlushHistory, HistoryFails, Drain, Close, writeVars
<1>3. reader'[r] = x /\ \A q \in Readers : q # r => reader'[q] = reader[q]
  BY <1>0, <1>1
<1>4. CASE x = Opened(r)
  <2>1. x.history = reader[r].history /\ x.buffer = reader[r].buffer
    BY <1>0, <1>4 DEF Opened, Reader
  <2> QED BY <1>2, <1>3, <2>1
<1>5. CASE x = Answered(r)
  <2>1. x.history = HistoryNow(r) /\ x.buffer = reader[r].buffer
    BY <1>0, <1>5 DEF Answered, Reader
  <2> QED BY <1>2, <1>3, <2>1
<1>6. ASSUME NEW logs, x = Flushed(reader[r], logs)
      PROVE  x.history = <<>> /\ x.buffer \in {reader[r].buffer, <<>>}
  BY <1>0, <1>6 DEF Flushed, Reader
<1>7. ASSUME NEW s, x = Drained(reader[r], s)
      PROVE  x.history = reader[r].history /\ x.buffer = reader[r].buffer
  BY <1>0, <1>7 DEF Drained, Reader
<1>8. CASE x = Stopped(r)
  <2>1. x.history = reader[r].history /\ x.buffer = <<>>
    BY <1>0, <1>8 DEF Stopped, Reader
  <2> QED BY <1>2, <1>3, <2>1
<1> QED BY <1>1, <1>2, <1>3, <1>4, <1>5, <1>6, <1>7, <1>8

LEMMA OnLogBuffers ==
    ASSUME NEW x \in Reader, NEW p, NEW saturates
    PROVE  /\ OnLog(x, p, saturates).history = x.history
           /\ OnLog(x, p, saturates).buffer \in {x.buffer, Append(x.buffer, p)}
BY DEF OnLog, Reader

LEMMA OrderStep ==
    ASSUME SInv, Next, \A r \in Readers : OrderInv(r)
    PROVE  \A r \in Readers : OrderInv(r)'
<1>0. /\ reader \in [Readers -> Reader] /\ inbox \in [Instances -> Seq(Positions)]
      /\ InstanceOf \in [Readers -> Instances] /\ Len(feed) \in Nat /\ Len(inflight) \in Nat
      /\ \A r \in Readers : reader[r].buffer \in Seq(Positions)
  BY ReaderFields, ReadAssumption DEF SInv, ReadTypeOK, WInv, WriteTypeOK
<1>1. CASE Write \/ ExpireCounter
           \/ \E i \in Instances : ExecuteCommand(i) \/ ExecuteChannelCommand(i)
  <2>1. UNCHANGED <<reader, inbox, feed>>
    BY <1>1 DEF Write, readVars, ExpireCounter, ExecuteCommand, ExecuteChannelCommand, writeVars,
                Data, TryPublish, PublishFails, Disconnect, Reconnect
  <2> QED BY <2>1 DEF OrderInv
<1>2. ASSUME NEW r \in Readers, Read(r) PROVE \A q \in Readers : OrderInv(q)'
  <2> TAKE q \in Readers
  <2>1. CASE q # r
    BY <1>2, <2>1, ReadKeepsOrder DEF OrderInv
  <2>2. CASE q = r
    <3>1. /\ reader'[r].history \in {reader[r].history, <<>>, HistoryNow(r)}
          /\ reader'[r].buffer \in {reader[r].buffer, <<>>}
          /\ UNCHANGED <<inbox, feed>>
      BY <1>2, ReadKeepsOrder
    <3>2. Ends(reader'[r].history, Len(feed))
      <4>1. Ends(HistoryNow(r), Len(feed))
        BY HistoryType DEF SInv, Ends
      <4> QED BY <3>1, <4>1, EmptyEnds DEF OrderInv
    <3>3. InstanceOf[r] \notin Compressing =>
             Ordered(reader'[r].buffer, inbox[InstanceOf[r]], Len(feed))
      BY <3>1, EmptyOrdered DEF OrderInv
    <3> QED BY <2>2, <3>1, <3>2, <3>3 DEF OrderInv
  <2> QED BY <2>1, <2>2
<1>3. CASE PublishLogs
  <2> TAKE r \in Readers
  <2> DEFINE i == InstanceOf[r]
             n == Len(feed)
             m == Len(inflight)
  <2>1. UNCHANGED reader /\ feed' = feed \o inflight
    BY <1>3 DEF PublishLogs, Publish
  <2>2. Len(feed') = n + m
    BY <2>1 DEF SInv, WInv, WriteTypeOK
  <2>3. inbox'[i] \in {inbox[i], inbox[i] \o [j \in 1 .. m |-> n + j]}
    BY <1>0, <1>3 DEF PublishLogs
  <2>4. Ends(reader[r].history, n + m)
    <3>1. reader[r].history \in Seq(Positions) /\ \A j \in 1 .. Len(reader[r].history) : reader[r].history[j] \in Nat
      BY <1>0, ReaderFields, WriteAssumption DEF Positions
    <3> QED BY <1>0, <3>1 DEF OrderInv, Ends
  <2>5. i \notin Compressing => Ordered(reader[r].buffer, inbox'[i], n + m)
    <3> SUFFICES ASSUME i \notin Compressing PROVE Ordered(reader[r].buffer, inbox'[i], n + m)
      OBVIOUS
    <3>1. Ordered(reader[r].buffer, inbox[i], n)
      BY DEF OrderInv
    <3>2. reader[r].buffer \in Seq(Positions) /\ inbox[i] \in Seq(Positions) /\ n \in Nat /\ m \in Nat
      BY <1>0
    <3> HIDE DEF i, n, m
    <3> QED BY <2>3, <3>1, <3>2, OrderedPublished
  <2> QED BY <2>1, <2>2, <2>4, <2>5 DEF OrderInv
<1>4. ASSUME NEW i \in Instances, Crash(i) PROVE \A r \in Readers : OrderInv(r)'
  <2> TAKE r \in Readers
  <2>1. UNCHANGED feed
    BY <1>4 DEF Crash, writeVars
  <2>2. inbox'[InstanceOf[r]] \in {inbox[InstanceOf[r]], <<>>}
    BY <1>0, <1>4 DEF Crash
  <2>3. reader'[r] \in {reader[r], [IdleReader EXCEPT !.state = "Closed"]}
    BY <1>4 DEF Crash
  <2>4. reader'[r].history \in {reader[r].history, <<>>} /\ reader'[r].buffer \in {reader[r].buffer, <<>>}
    BY <2>3 DEF IdleReader
  <2>5. Ends(reader'[r].history, Len(feed))
    BY <2>4, EmptyEnds DEF OrderInv
  <2>6. InstanceOf[r] \notin Compressing =>
           Ordered(reader'[r].buffer, inbox'[InstanceOf[r]], Len(feed))
    <3>1. ASSUME NEW b, NEW q, Ordered(b, q, Len(feed))
          PROVE  Ordered(b, <<>>, Len(feed)) /\ Ordered(<<>>, q, Len(feed)) /\ Ordered(<<>>, <<>>, Len(feed))
      BY <3>1, EmptyOrdered
    <3> QED BY <2>2, <2>4, <3>1 DEF OrderInv
  <2> QED BY <2>1, <2>5, <2>6 DEF OrderInv
<1>5. ASSUME NEW i \in Instances, NEW k \in Positions, NEW s \in SUBSET Readers, HandleMessage(i, k, s)
      PROVE  \A r \in Readers : OrderInv(r)'
  <2> TAKE r \in Readers
  <2>1. UNCHANGED feed
    BY <1>5 DEF HandleMessage, writeVars
  <2>2. reader'[r] = IF r \in Listeners(i) THEN OnLog(reader[r], inbox[i][k], r \in s) ELSE reader[r]
    BY <1>5 DEF HandleMessage
  <2>3. inbox' = [inbox EXCEPT ![i] = RemoveAt(@, k)] /\ inbox[i] # <<>>
    BY <1>5 DEF HandleMessage
  <2>4. /\ reader'[r].history = reader[r].history
        /\ r \in Listeners(i) => reader'[r].buffer \in {reader[r].buffer, Append(reader[r].buffer, inbox[i][k])}
        /\ r \notin Listeners(i) => reader'[r].buffer = reader[r].buffer
    BY <1>0, <2>2, OnLogBuffers
  <2>5. InstanceOf[r] \notin Compressing =>
           Ordered(reader'[r].buffer, inbox'[InstanceOf[r]], Len(feed))
    <3> SUFFICES ASSUME InstanceOf[r] \notin Compressing
                 PROVE  Ordered(reader'[r].buffer, inbox'[InstanceOf[r]], Len(feed))
      OBVIOUS
    <3>1. CASE InstanceOf[r] # i
      <4>1. r \notin Listeners(i)
        BY <3>1 DEF Listeners
      <4>2. inbox'[InstanceOf[r]] = inbox[InstanceOf[r]]
        BY <1>0, <2>3, <3>1
      <4> QED BY <2>4, <4>1, <4>2 DEF OrderInv
    <3>2. CASE InstanceOf[r] = i
      <4>1. k = 1
        BY <1>5, <3>2 DEF HandleMessage
      <4>2. inbox'[i] = RemoveAt(inbox[i], 1)
        BY <1>0, <2>3, <4>1
      <4>3. Ordered(reader[r].buffer, inbox[i], Len(feed))
        BY <3>2 DEF OrderInv
      <4>4. Ordered(reader[r].buffer, inbox'[i], Len(feed))
            /\ Ordered(Append(reader[r].buffer, inbox[i][1]), inbox'[i], Len(feed))
        BY <1>0, <2>3, <4>2, <4>3, OrderedHandled
      <4> QED BY <2>4, <3>2, <4>1, <4>4
    <3> QED BY <3>1, <3>2
  <2> QED BY <2>1, <2>4, <2>5 DEF OrderInv
<1> QED BY <1>1, <1>2, <1>3, <1>4, <1>5 DEF Next, Redis


-----------------------------------------------------------------------------
(* What a flush leaves out was in the history, or is older than it.        *)

LEMMA InToSet ==
    ASSUME NEW S, NEW s \in Seq(S), NEW p
    PROVE  p \in ToSet(s) <=> \E j \in 1 .. Len(s) : p = s[j]
BY DEF ToSet

(* Lines of different milliseconds: their order in the list is their order *)
(* in time.                                                                *)
LEMMA LaterInTime ==
    ASSUME LinesApart, WInv, FeedInv, NEW p \in 1 .. Len(feed)
    PROVE  /\ At(p) \in Nat \ {0}
           /\ \A q \in 1 .. Len(feed) : q < p => At(q) < At(p)
<1>1. \A q \in 1 .. Len(feed) : feed[q].from \in 1 .. MaxLogs
  <2>1. \A q \in 1 .. Len(feed) : feed[q] \in Item
    BY DEF WInv, WriteTypeOK
  <2> QED BY <2>1 DEF Item
<1>2. \A q \in 1 .. Len(feed) : q < p => feed[q].from < feed[p].from
  BY DEF FeedInv, Rising
<1>3. CreatedAt[feed[p].from] \in Nat \ {0}
  BY <1>1, ReadAssumption
<1> QED BY <1>1, <1>2, <1>3 DEF At, LinesApart

Ascends(s) == \A j, k \in 1 .. Len(s) : j < k => s[j] < s[k]

(* The oldest of s may be cut off.                                         *)
LEMMA RetainedKeeps ==
    ASSUME NEW s \in Seq(Positions), s # <<>>, Ascends(s), NEW p \in Positions, p \in ToSet(s) \/ p < s[1]
    PROVE  \/ p \in ToSet(Retained(s))
           \/ Retained(s) # <<>> /\ p < Head(Retained(s))
<1>0. Len(s) \in Nat /\ p \in Nat /\ \A j \in 1 .. Len(s) : s[j] \in Nat
  BY WriteAssumption DEF Positions
<1>1. PICK n \in 0 .. Len(s) : Retained(s) = SubSeq(s, n + 1, Len(s)) /\ n < Len(s)
  BY RetainedIs
<1> DEFINE t == Retained(s)
<1>2. /\ t \in Seq(Positions) /\ Len(t) = Len(s) - n
      /\ \A j \in 1 .. Len(s) - n : t[j] = s[n + j]
  <2>1. \A j \in n + 1 .. Len(s) : s[j] \in Positions
    BY <1>0
  <2>2. /\ t \in Seq(Positions)
        /\ Len(t) = IF n + 1 <= Len(s) THEN Len(s) - (n + 1) + 1 ELSE 0
        /\ \A j \in 1 .. Len(s) - (n + 1) + 1 : t[j] = s[(n + 1) + j - 1]
    BY <1>0, <1>1, <2>1, SubSeqProperties
  <2> HIDE DEF t
  <2>3. \A j \in 1 .. Len(s) - n : (n + 1) + j - 1 = n + j /\ j \in 1 .. Len(s) - (n + 1) + 1
    BY <1>0
  <2> QED BY <1>0, <1>1, <2>2, <2>3
<1> HIDE DEF t
<1>3. t # <<>> /\ Head(t) = s[n + 1] /\ n + 1 \in 1 .. Len(s)
  <2>1. 1 \in 1 .. Len(s) - n
    BY <1>0, <1>1
  <2> QED BY <1>0, <1>1, <1>2, <2>1
<1>4. CASE p < s[1]
  <2>1. s[1] <= s[n + 1]
    BY <1>0, <1>3 DEF Ascends
  <2> QED BY <1>0, <1>3, <1>4, <2>1 DEF t
<1>5. CASE p \in ToSet(s)
  <2>1. PICK m \in 1 .. Len(s) : p = s[m]
    BY <1>5, InToSet
  <2>2. CASE m < n + 1
    BY <1>3, <2>1, <2>2 DEF t, Ascends
  <2>3. CASE m > n
    <3>1. m - n \in 1 .. Len(s) - n /\ n + (m - n) = m
      BY <1>0, <2>3
    <3>2. p = t[m - n] /\ m - n \in 1 .. Len(t)
      BY <1>2, <2>1, <3>1
    <3> QED BY <1>2, <3>2, InToSet DEF t
  <2> QED BY <1>0, <2>2, <2>3
<1> QED BY <1>4, <1>5

(* The history and what follows it, in order.                              *)
LEMMA MergedKeeps ==
    ASSUME LinesApart, WInv, FeedInv,
           NEW h \in Seq(Positions), Ends(h, Len(feed)),
           NEW b \in Seq(Positions), Climbs(b, Len(feed)), b # <<>>
    PROVE  /\ Merged(h, b) \in Seq(Positions) /\ Merged(h, b) # <<>>
           /\ Ascends(Merged(h, b))
           /\ \A j \in 1 .. Len(b) : b[j] \in ToSet(Merged(h, b)) \/ b[j] < Merged(h, b)[1]
<1> DEFINE s == Merged(h, b)
           N == Len(h)
           M == Len(b)
<1>0. /\ N \in Nat /\ M \in Nat /\ Len(feed) \in Nat
      /\ (\A j \in 1 .. N : h[j] \in 1 .. Len(feed) /\ h[j] \in Nat)
      /\ (\A j \in 1 .. M : b[j] \in 1 .. Len(feed) /\ b[j] \in Nat)
  BY WriteAssumption, SMTT(30) DEF Positions, Ends, Climbs, WInv, WriteTypeOK
<1>1. PICK k \in 1 .. M + 1 :
           /\ s = h \o SubSeq(b, k, M)
           /\ \A j \in 1 .. k - 1 : ~(At(b[j]) > AfterDate(h))
           /\ k <= M => At(b[k]) > AfterDate(h)
  BY MergedIs
<1> DEFINE t == SubSeq(b, k, M)
<1>2. t \in Seq(Positions) /\ Len(t) = M - k + 1 /\ \A j \in 1 .. M - k + 1 : t[j] = b[k + j - 1]
  <2>1. \A j \in k .. M : b[j] \in Positions
    BY <1>0
  <2>2. /\ t \in Seq(Positions) /\ Len(t) = IF k <= M THEN M - k + 1 ELSE 0
        /\ \A j \in 1 .. M - k + 1 : t[j] = b[k + j - 1]
    BY <1>0, <2>1, SubSeqProperties
  <2> HIDE DEF t
  <2> QED BY <1>0, <2>2
<1>3. /\ s \in Seq(Positions) /\ Len(s) = N + (M - k + 1)
      /\ \A j \in 1 .. N : s[j] = h[j]
      /\ \A j \in N + 1 .. Len(s) : s[j] = b[k + (j - N) - 1] /\ k + (j - N) - 1 \in k .. M
  <2> HIDE DEF s, t
  <2>1. s = h \o t
    BY <1>1 DEF t
  <2>2. /\ s \in Seq(Positions) /\ Len(s) = N + Len(t)
        /\ \A j \in 1 .. N + Len(t) : s[j] = IF j <= N THEN h[j] ELSE t[j - N]
    BY <1>2, <2>1, ConcatProperties
  <2>3. \A j \in 1 .. N : j \in 1 .. N + Len(t) /\ j <= N
    BY <1>0, <1>2
  <2>4. \A j \in N + 1 .. Len(s) : /\ j \in 1 .. N + Len(t) /\ ~(j <= N) /\ j - N \in 1 .. M - k + 1
                                   /\ k + (j - N) - 1 \in k .. M
    BY <1>0, <1>2, <2>2
  <2> QED BY <1>2, <2>2, <2>3, <2>4
<1> HIDE DEF s, t
(* The last of the history, and what is not later than it.                 *)
<1>4. CASE h = <<>>
  <2>1. \A j \in 1 .. M : At(b[j]) > AfterDate(h)
    BY <1>0, <1>4, LaterInTime DEF AfterDate
  <2>2. k = 1
    <3> SUFFICES ASSUME k # 1 PROVE FALSE
      OBVIOUS
    <3>1. 1 \in 1 .. k - 1 /\ 1 \in 1 .. M
      BY <1>0
    <3> QED BY <1>1, <2>1, <3>1
  <2>3. s = b
    <3>1. SubSeq(b, 1, M) = b
      BY SubSeqFull
    <3>2. <<>> \o b = b
      BY ConcatEmptySeq
    <3> QED BY <1>1, <1>4, <2>2, <3>1, <3>2
  <2>4. \A j \in 1 .. Len(b) : b[j] \in ToSet(b)
    BY InToSet
  <2> QED BY <2>3, <2>4 DEF Climbs, Ascends, s
<1>5. CASE h # <<>>
  <2> DEFINE L == Last(h)
  <2>0. N \in 1 .. N /\ 1 \in 1 .. N
    BY <1>0, <1>5
  <2>1. L = h[N] /\ L \in 1 .. Len(feed) /\ AfterDate(h) = At(L)
    BY <1>0, <1>5, <2>0 DEF Last, AfterDate
  <2> HIDE DEF L
  <2>2. ASSUME NEW p \in 1 .. Len(feed) PROVE (At(p) > AfterDate(h)) <=> p > L
    <3>1. At(p) \in Nat /\ At(L) \in Nat
      BY <2>1, LaterInTime
    <3>2. L < p => At(L) < At(p)
      BY <2>1, LaterInTime
    <3>3. p < L => At(p) < At(L)
      BY <2>1, LaterInTime
    <3>4. p = L => At(p) = At(L)
      OBVIOUS
    <3> QED BY <1>0, <2>1, <3>1, <3>2, <3>3, <3>4
  <2>3. \A j \in 1 .. k - 1 : j \in 1 .. M /\ b[j] <= L
    <3> TAKE j \in 1 .. k - 1
    <3>1. j \in 1 .. M /\ b[j] \in 1 .. Len(feed)
      BY <1>0
    <3>2. ~(b[j] > L)
      BY <1>1, <2>2, <3>1
    <3> QED BY <1>0, <2>1, <3>1, <3>2
  <2>4. \A j \in k .. M : j \in 1 .. M /\ b[j] > L
    <3> TAKE j \in k .. M
    <3>1. j \in 1 .. M /\ k \in 1 .. M /\ k <= M
      BY <1>0
    <3>2. b[k] > L
      BY <1>0, <1>1, <2>2, <3>1
    <3>3. k < j => b[k] < b[j]
      BY <3>1 DEF Climbs
    <3> QED BY <1>0, <2>1, <3>1, <3>2, <3>3
  <2>5. \A j \in 1 .. N : h[j] = h[1] + j - 1 /\ h[j] <= L
    <3>1. \A j \in 1 .. N : h[j] = h[1] + j - 1
      BY DEF Ends
    <3>2. L = h[1] + N - 1 /\ h[1] \in Nat
      BY <1>0, <2>0, <2>1, <3>1
    <3> HIDE DEF N
    <3> QED BY <1>0, <3>1, <3>2
  <2>6. ASSUME NEW j \in 1 .. Len(s), NEW m \in 1 .. Len(s), j < m PROVE s[j] < s[m]
    <3>1. CASE m \in 1 .. N
      <4>1. j \in 1 .. N
        BY <1>0, <2>6, <3>1
      <4>2. h[j] = h[1] + j - 1 /\ h[m] = h[1] + m - 1 /\ h[1] \in Nat
        BY <1>0, <2>0, <2>5, <3>1, <4>1
      <4>3. h[j] < h[m]
        BY <1>0, <2>6, <4>1, <4>2
      <4> QED BY <1>3, <3>1, <4>1, <4>3
    <3>2. CASE m \in N + 1 .. Len(s) /\ j \in 1 .. N
      <4> DEFINE d == k + (m - N) - 1
      <4>1. d \in k .. M /\ s[m] = b[d] /\ s[j] = h[j]
        BY <1>3, <3>2
      <4> HIDE DEF d
      <4>2. d \in 1 .. M /\ b[d] > L /\ h[j] <= L
        BY <2>4, <2>5, <3>2, <4>1
      <4>3. h[j] \in Nat /\ L \in Nat /\ b[d] \in Nat
        BY <1>0, <2>1, <3>2, <4>2
      <4> QED BY <4>1, <4>2, <4>3
    <3>3. CASE m \in N + 1 .. Len(s) /\ j \in N + 1 .. Len(s)
      <4> DEFINE c == k + (j - N) - 1
                 d == k + (m - N) - 1
      <4>1. c \in 1 .. M /\ d \in 1 .. M /\ c < d /\ s[j] = b[c] /\ s[m] = b[d]
        BY <1>0, <1>3, <2>4, <2>6, <3>3, SMTT(30)
      <4> HIDE DEF c, d
      <4> QED BY <4>1 DEF Climbs
    <3> QED BY <1>0, <1>3, <3>1, <3>2, <3>3
  <2>7. ASSUME NEW j \in 1 .. M PROVE b[j] \in ToSet(s) \/ b[j] < s[1]
    <3>1. CASE j \in k .. M
      <4> DEFINE c == N + (j - k + 1)
      <4>1. c \in N + 1 .. Len(s) /\ k + (c - N) - 1 = j /\ c \in 1 .. Len(s)
        BY <1>0, <1>3, <3>1
      <4> HIDE DEF c
      <4>2. s[c] = b[k + (c - N) - 1]
        BY <1>3, <4>1
      <4> QED BY <1>3, <4>1, <4>2, InToSet
    <3>2. CASE j \in 1 .. k - 1 /\ b[j] < h[1]
      BY <1>3, <2>0, <3>2
    <3>3. CASE j \in 1 .. k - 1 /\ ~(b[j] < h[1])
      <4> DEFINE c == b[j] - h[1] + 1
      <4>1. b[j] <= L /\ L = h[1] + N - 1 /\ h[1] \in Nat /\ b[j] \in Nat
        BY <1>0, <2>0, <2>1, <2>3, <2>5, <3>3
      <4>2. c \in 1 .. N /\ h[1] + c - 1 = b[j]
        BY <1>0, <3>3, <4>1
      <4> HIDE DEF c
      <4>3. s[c] = b[j] /\ c \in 1 .. Len(s)
        BY <1>0, <1>3, <2>5, <4>2
      <4> QED BY <1>3, <4>3, InToSet
    <3> QED BY <1>0, <3>1, <3>2, <3>3
  <2>8. s # <<>>
    BY <1>0, <1>3, <2>0
  <2>9. Ascends(s)
    BY <2>6 DEF Ascends
  <2> QED BY <1>3, <2>7, <2>8, <2>9 DEF s
<1> QED BY <1>4, <1>5


-----------------------------------------------------------------------------
(* Message p is with reader r, or on its way in q, or older than all that  *)
(* was written of a history.                                               *)
Has(r, x, q, p) ==
    \/ p \in ToSet(x.sent) \/ p \in ToSet(x.buffer) \/ p \in ToSet(q)
    \/ p \in x.dropped \/ p \in x.warned
    \/ Count[r] > 0 /\ x.sent # <<>> /\ p < Head(x.sent)

LEMMA ToSetAppend ==
    ASSUME NEW s \in Seq(Positions), NEW p \in Positions
    PROVE  /\ ToSet(s) \subseteq ToSet(Append(s, p)) /\ p \in ToSet(Append(s, p))
           /\ s # <<>> => Append(s, p) # <<>> /\ Head(Append(s, p)) = Head(s)
<1> DEFINE t == Append(s, p)
<1>1. /\ t \in Seq(Positions) /\ Len(s) \in Nat /\ Len(t) = Len(s) + 1 /\ t[Len(s) + 1] = p
      /\ \A j \in 1 .. Len(s) : t[j] = s[j]
  BY AppendProperties
<1> HIDE DEF t
<1>2. ASSUME NEW e \in ToSet(s) PROVE e \in ToSet(t)
  <2>1. PICK j \in 1 .. Len(s) : e = s[j]
    BY InToSet
  <2>2. j \in 1 .. Len(t) /\ e = t[j]
    BY <1>1, <2>1
  <2> QED BY <1>1, <2>2, InToSet
<1>3. p \in ToSet(t)
  <2>1. Len(s) + 1 \in 1 .. Len(t)
    BY <1>1
  <2> QED BY <1>1, <2>1, InToSet
<1>4. s # <<>> => t # <<>> /\ Head(t) = Head(s)
  <2> HAVE s # <<>>
  <2>1. 1 \in 1 .. Len(s) /\ t # <<>>
    BY <1>1
  <2> QED BY <1>1, <2>1
<1> QED BY <1>2, <1>3, <1>4 DEF t

LEMMA ToSetRemoved ==
    ASSUME NEW s \in Seq(Positions), NEW k \in 1 .. Len(s), NEW p \in ToSet(s)
    PROVE  p = s[k] \/ p \in ToSet(RemoveAt(s, k))
<1> DEFINE t == RemoveAt(s, k)
<1>1. /\ t \in Seq(Positions) /\ Len(s) \in Nat /\ Len(t) = Len(s) - 1
      /\ \A j \in 1 .. Len(s) - 1 : t[j] = IF j < k THEN s[j] ELSE s[j + 1]
  BY RemoveAtIs
<1> HIDE DEF t
<1>2. PICK j \in 1 .. Len(s) : p = s[j]
  BY InToSet
<1>3. CASE j < k
  <2>1. j \in 1 .. Len(s) - 1
    BY <1>1, <1>3
  <2>2. t[j] = p /\ j \in 1 .. Len(t)
    BY <1>1, <1>2, <1>3, <2>1
  <2> QED BY <1>1, <2>2, InToSet DEF t
<1>4. CASE j > k
  <2>1. j - 1 \in 1 .. Len(s) - 1 /\ ~(j - 1 < k) /\ (j - 1) + 1 = j
    BY <1>1, <1>4
  <2>2. t[j - 1] = p /\ j - 1 \in 1 .. Len(t)
    BY <1>1, <1>2, <2>1
  <2> QED BY <1>1, <2>2, InToSet DEF t
<1> QED BY <1>1, <1>2, <1>3, <1>4

LEMMA OnLogHas ==
    ASSUME NEW r \in Readers, NEW x \in Reader, NEW q \in Seq(Positions), NEW k \in 1 .. Len(q),
           NEW saturates \in BOOLEAN, NEW p \in Positions, Has(r, x, q, p)
    PROVE  Has(r, OnLog(x, q[k], saturates), RemoveAt(q, k), p)
<1> SUFFICES ASSUME NEW y, y = OnLog(x, q[k], saturates) PROVE Has(r, y, RemoveAt(q, k), p)
  OBVIOUS
<1>0. q[k] \in Positions /\ x.sent \in Seq(Positions) /\ x.buffer \in Seq(Positions)
  BY ReaderFields
<1>1. /\ ToSet(x.sent) \subseteq ToSet(y.sent) /\ ToSet(x.buffer) \subseteq ToSet(y.buffer)
      /\ x.dropped \subseteq y.dropped /\ y.warned = x.warned
      /\ x.sent # <<>> => y.sent # <<>> /\ Head(y.sent) = Head(x.sent)
      /\ q[k] \in ToSet(y.sent) \/ q[k] \in ToSet(y.buffer) \/ q[k] \in y.dropped
  <2>1. CASE x.state = "Buffering"
    <3>1. /\ y.sent = x.sent /\ y.buffer = Append(x.buffer, q[k])
          /\ y.dropped = x.dropped /\ y.warned = x.warned
      BY <2>1 DEF OnLog, Reader
    <3> QED BY <1>0, <3>1, ToSetAppend
  <2>2. CASE x.state = "Saturated"
    <3>1. /\ y.sent = x.sent /\ y.buffer = x.buffer
          /\ y.dropped = x.dropped \cup {q[k]} /\ y.warned = x.warned
      BY <2>2 DEF OnLog, Reader
    <3> QED BY <3>1
  <2>3. CASE x.state \notin {"Buffering", "Saturated"}
    <3>1. /\ y.sent = Append(x.sent, q[k]) /\ y.buffer = x.buffer
          /\ y.dropped = x.dropped /\ y.warned = x.warned
      BY <2>3 DEF OnLog, Reader
    <3> QED BY <1>0, <3>1, ToSetAppend
  <2> QED BY <2>1, <2>2, <2>3
<1>2. CASE p \in ToSet(q)
  BY <1>1, <1>2, ToSetRemoved DEF Has
<1>3. CASE p \notin ToSet(q)
  BY <1>1, <1>3 DEF Has
<1> QED BY <1>2, <1>3

LEMMA FlushedHas ==
    ASSUME LinesApart, WInv, FeedInv, NEW r \in Readers, NEW x \in Reader, Fits(r, x),
           x.state = "Buffering", NEW h \in Seq(Positions), Ends(h, Len(feed)),
           Climbs(x.buffer, Len(feed)), NEW q, NEW p \in Positions, Has(r, x, q, p)
    PROVE  Has(r, Flushed(x, Merged(h, x.buffer)), q, p)
<1> DEFINE b == x.buffer
           s == Merged(h, b)
           y == Flushed(x, s)
<1>1. y.sent = Retained(s) /\ Count[r] > 0
  BY DEF Flushed, Reader, Fits
<1>2. p \in ToSet(q) \/ p \in ToSet(b)
  <2>1. x.sent = <<>> /\ x.dropped = {} /\ x.warned = {}
    BY DEF Fits
  <2>2. ToSet(<<>>) = {}
    BY DEF ToSet
  <2> QED BY <2>1, <2>2 DEF Has
<1>3. CASE p \in ToSet(q)
  BY <1>3 DEF Has
<1>4. CASE p \in ToSet(b)
  <2>1. b \in Seq(Positions) /\ b # <<>>
    BY <1>4, ReaderFields DEF ToSet
  <2>2. PICK j \in 1 .. Len(b) : p = b[j]
    BY <1>4, <2>1, InToSet
  <2> HIDE DEF b
  <2>3. /\ s \in Seq(Positions) /\ s # <<>>
        /\ Ascends(s)
        /\ p \in ToSet(s) \/ p < s[1]
    BY <2>1, <2>2, MergedKeeps DEF b
  <2> HIDE DEF s
  <2>4. p \in ToSet(Retained(s)) \/ (Retained(s) # <<>> /\ p < Head(Retained(s)))
    BY <2>3, RetainedKeeps
  <2> HIDE DEF y
  <2>5. Has(r, y, q, p)
    BY <1>1, <2>4 DEF Has
  <2> QED BY <2>5 DEF y, s, b
<1> QED BY <1>2, <1>3, <1>4


(* A reader misses nothing while a step keeps its subscription in place.   *)
LEMMA HasStep ==
    ASSUME LinesApart, SInv, \A q \in Readers : OrderInv(q), Next, WInv', FeedInv',
           NEW r \in Readers, Established(r), Established(r)',
           Count[r] = 0 \/ InstanceOf[r] \notin Compressing,
           NEW p \in Positions,
           p > Len(feed) \/ Has(r, reader[r], inbox[InstanceOf[r]], p), p <= Len(feed')
    PROVE  Has(r, reader'[r], inbox'[InstanceOf[r]], p)
<1> DEFINE i == InstanceOf[r]
           x == reader[r]
           q == inbox[i]
<1>0. /\ reader \in [Readers -> Reader] /\ x \in Reader
      /\ inbox \in [Instances -> Seq(Positions)] /\ i \in Instances /\ q \in Seq(Positions)
      /\ WInv /\ FeedInv /\ Fits(r, x) /\ x.listening /\ p \in Nat
      /\ Len(feed) \in Nat /\ Len(inflight) \in Nat
      /\ inflight \in Seq(Item) /\ feed \in Seq(Item)
  <2>1. /\ reader \in [Readers -> Reader] /\ inbox \in [Instances -> Seq(Positions)]
        /\ WInv /\ FeedInv /\ Fits(r, x)
    BY DEF SInv, ReadTypeOK, ReaderInv
  <2>2. inflight \in Seq(Item) /\ feed \in Seq(Item)
    BY <2>1 DEF WInv, WriteTypeOK
  <2>3. i \in Instances /\ p \in Nat
    BY ReadAssumption, WriteAssumption DEF Positions
  <2>4. x.listening
    BY DEF Established
  <2> QED BY <2>1, <2>2, <2>3, <2>4
<1>1. ASSUME UNCHANGED feed PROVE Has(r, x, q, p)
  BY <1>0, <1>1
<1>2. ASSUME UNCHANGED <<feed, inbox>>, reader'[r] = x
      PROVE  Has(r, reader'[r], inbox'[i], p)
  BY <1>1, <1>2
<1>3. CASE Write \/ ExpireCounter
           \/ \E k \in Instances : ExecuteCommand(k) \/ ExecuteChannelCommand(k)
  <2>1. UNCHANGED <<reader, inbox, feed>>
    BY <1>3 DEF Write, readVars, ExpireCounter, ExecuteCommand, ExecuteChannelCommand, writeVars,
                Data, TryPublish, PublishFails, Disconnect, Reconnect
  <2> QED BY <1>2, <2>1
<1>4. ASSUME NEW z \in Readers, Read(z) PROVE Has(r, reader'[r], inbox'[i], p)
  <2>1. UNCHANGED <<feed, inbox>> /\ (z # r => reader'[r] = x)
    BY <1>4, ReadKeepsOrder
  <2>2. CASE z # r
    BY <1>2, <2>1, <2>2
  <2>3. CASE z = r
    <3>1. PICK y \in Reader :
               /\ reader' = [reader EXCEPT ![r] = y]
               /\ \/ Open(r) /\ y = Opened(r)
                  \/ ReadHistory(r) /\ y = Answered(r)
                  \/ FlushHistory(r) /\ y = Flushed(reader[r], Merged(reader[r].history, reader[r].buffer))
                  \/ HistoryFails(r) /\ y = Flushed(reader[r], Merged(<<>>, reader[r].buffer))
                  \/ \E saturates \in BOOLEAN : Drain(r, saturates) /\ y = Drained(reader[r], saturates)
                  \/ \E decremented \in BOOLEAN : Close(r, decremented) /\ y = Stopped(r)
      BY <1>4, <2>3, ReadSteps DEF SInv
    <3>2. reader'[r] = y /\ y.listening /\ Has(r, x, q, p) /\ inbox'[i] = q
      BY <1>0, <1>1, <2>1, <3>1 DEF Established
    <3>3. ~Open(r)
      BY <1>0 DEF Open, Fits
    <3>4. ASSUME y = Answered(r) PROVE Has(r, y, q, p)
      <4>1. /\ y.sent = x.sent /\ y.buffer = x.buffer /\ y.dropped = x.dropped /\ y.warned = x.warned
        BY <1>0, <3>4 DEF Answered, Reader
      <4> QED BY <3>2, <4>1 DEF Has
    <3>5. ASSUME NEW s \in BOOLEAN, y = Drained(reader[r], s) PROVE Has(r, y, q, p)
      <4>1. /\ y.sent = x.sent /\ y.buffer = x.buffer /\ y.dropped = {} /\ y.warned = x.warned \cup x.dropped
        BY <1>0, <3>5 DEF Drained, Reader
      <4> QED BY <3>2, <4>1 DEF Has
    <3>6. y # Stopped(r)
      BY <1>0, <3>2 DEF Stopped, Reader
    <3>7. ASSUME NEW h \in Seq(Positions), Ends(h, Len(feed)), x.asked # "no", y = Flushed(x, Merged(h, x.buffer))
          PROVE  Has(r, y, q, p)
      <4>1. x.state = "Buffering" /\ Count[r] > 0
        BY <1>0, <3>7 DEF Fits
      <4>2. Climbs(x.buffer, Len(feed))
        BY <4>1, ReadAssumption DEF OrderInv, Ordered
      <4> HIDE DEF x, q, i
      <4> QED BY <1>0, <3>2, <3>7, <4>1, <4>2, FlushedHas
    <3>8. <<>> \in Seq(Positions) /\ x.history \in Seq(Positions) /\ Ends(x.history, Len(feed))
          /\ Ends(<<>>, Len(feed))
      BY <1>0, EmptyEnds, ReaderFields DEF OrderInv
    <3>9. CASE FlushHistory(r) /\ y = Flushed(reader[r], Merged(reader[r].history, reader[r].buffer))
      <4>1. x.asked # "no"
        BY <3>9 DEF FlushHistory
      <4> QED BY <3>2, <3>7, <3>8, <3>9, <4>1
    <3>10. CASE HistoryFails(r) /\ y = Flushed(reader[r], Merged(<<>>, reader[r].buffer))
      <4>1. x.asked # "no"
        BY <3>10 DEF HistoryFails
      <4> QED BY <3>2, <3>7, <3>8, <3>10, <4>1
    <3> QED BY <3>1, <3>2, <3>3, <3>4, <3>5, <3>6, <3>9, <3>10
  <2> QED BY <2>2, <2>3
<1>5. CASE PublishLogs
  <2> DEFINE n == Len(feed)
             m == Len(inflight)
             t == [j \in 1 .. m |-> n + j]
  <2>1. UNCHANGED reader /\ Len(feed') = n + m
    BY <1>0, <1>5 DEF PublishLogs, Publish
  <2>2. counter > 0 /\ subscribed[i]
    <3>1. r \in Listeners(i) /\ commands[i] = <<>> /\ channelCmds[i] = <<>>
      BY DEF Established, Listeners
    <3>2. CommandsInv(i) /\ SubscribersCounted
      BY <1>0, CountCovers DEF SInv
    <3> QED BY <1>0, <3>1, <3>2 DEF SubscribersCounted, CommandsInv
  <2>3. inbox'[i] = q \o t
    BY <1>0, <1>5, <2>2 DEF PublishLogs
  <2>4. t \in Seq(Nat) /\ Len(t) = m /\ \A j \in 1 .. m : t[j] = n + j
    BY <1>0
  <2>5. q \in Seq(Nat)
    BY <1>0, WriteAssumption DEF Positions
  <2> HIDE DEF t
  <2>6. /\ q \o t \in Seq(Nat) /\ Len(q \o t) = Len(q) + m
        /\ \A j \in 1 .. Len(q) + m : (q \o t)[j] = IF j <= Len(q) THEN q[j] ELSE t[j - Len(q)]
    <3> HIDE DEF q, m
    <3> QED BY <2>4, <2>5, ConcatProperties
  <2>7. CASE p > n
    <3> DEFINE j == Len(q) + (p - n)
    <3>1. j \in 1 .. Len(q) + m /\ ~(j <= Len(q)) /\ j - Len(q) = p - n /\ p - n \in 1 .. m /\ n + (p - n) = p
      BY <1>0, <2>1, <2>7
    <3> HIDE DEF j
    <3>2. (q \o t)[j] = p
      BY <2>4, <2>6, <3>1
    <3>3. p \in ToSet(inbox'[i])
      BY <2>3, <2>6, <3>1, <3>2, InToSet
    <3> QED BY <3>3 DEF Has
  <2>8. CASE ~(p > n)
    <3>1. Has(r, x, q, p)
      BY <2>8
    <3>2. ASSUME p \in ToSet(q) PROVE p \in ToSet(q \o t)
      <4>1. PICK j \in 1 .. Len(q) : p = q[j]
        BY <1>0, <3>2, InToSet
      <4>2. j \in 1 .. Len(q) + m /\ j <= Len(q)
        BY <1>0
      <4>3. (q \o t)[j] = p
        BY <2>6, <4>1, <4>2
      <4> QED BY <2>6, <4>2, <4>3, InToSet
    <3> QED BY <2>1, <2>3, <3>1, <3>2 DEF Has
  <2> QED BY <2>7, <2>8
<1>6. ASSUME NEW k \in Instances, Crash(k) PROVE Has(r, reader'[r], inbox'[i], p)
  <2>1. CASE k = i
    <3>1. x.state # "idle"
      BY <1>0 DEF Fits
    <3>2. reader'[r] = [IdleReader EXCEPT !.state = "Closed"]
      BY <1>6, <2>1, <3>1 DEF Crash
    <3>3. reader'[r].listening = FALSE
      BY <3>2 DEF IdleReader
    <3> QED BY <3>3 DEF Established
  <2>2. CASE k # i
    <3>1. reader'[r] = x /\ inbox'[i] = q /\ UNCHANGED feed
      BY <1>0, <1>6, <2>2 DEF Crash, writeVars
    <3> QED BY <1>1, <3>1
  <2> QED BY <2>1, <2>2
<1>7. ASSUME NEW l \in Instances, NEW k \in Positions, NEW s \in SUBSET Readers, HandleMessage(l, k, s)
      PROVE  Has(r, reader'[r], inbox'[i], p)
  <2>1. UNCHANGED feed /\ inbox' = [inbox EXCEPT ![l] = RemoveAt(@, k)] /\ k \in 1 .. Len(inbox[l])
    BY <1>7 DEF HandleMessage, writeVars
  <2>2. reader'[r] = IF r \in Listeners(l) THEN OnLog(reader[r], inbox[l][k], r \in s) ELSE reader[r]
    BY <1>7 DEF HandleMessage
  <2>3. CASE l = i
    <3>1. r \in Listeners(i)
      BY DEF Listeners, Established
    <3>2. reader'[r] = OnLog(x, q[k], r \in s) /\ inbox'[i] = RemoveAt(q, k) /\ k \in 1 .. Len(q)
      BY <1>0, <2>1, <2>2, <2>3, <3>1
    <3>3. Has(r, x, q, p)
      BY <1>1, <2>1
    <3> DEFINE saturates == r \in s
    <3>4. saturates \in BOOLEAN
      OBVIOUS
    <3>5. reader'[r] = OnLog(x, q[k], saturates)
      BY <3>2
    <3> HIDE DEF x, q, i, saturates
    <3>6. Has(r, OnLog(x, q[k], saturates), RemoveAt(q, k), p)
      BY <1>0, <3>2, <3>3, <3>4, OnLogHas
    <3> QED BY <3>2, <3>5, <3>6
  <2>4. CASE l # i
    <3>1. r \notin Listeners(l)
      BY <2>4 DEF Listeners
    <3>2. reader'[r] = x /\ inbox'[i] = q
      BY <1>0, <2>1, <2>2, <2>4, <3>1
    <3> QED BY <1>1, <2>1, <3>2
  <2> QED BY <2>3, <2>4
<1> QED BY <1>3, <1>4, <1>5, <1>6, <1>7 DEF Next, Redis


LEMMA OrderInit == Init => \A r \in Readers : OrderInv(r)
<1> SUFFICES ASSUME Init, NEW r \in Readers PROVE OrderInv(r)
  OBVIOUS
<1>1. reader[r].history = <<>> /\ reader[r].buffer = <<>> /\ inbox[InstanceOf[r]] = <<>>
  BY ReadAssumption DEF Init, IdleReader
<1>2. 1 .. Len(<<>>) = {}
  OBVIOUS
<1>3. Ordered(<<>>, <<>>, Len(feed))
  BY <1>2 DEF Ordered, Climbs
<1> QED BY <1>1, <1>3, EmptyEnds DEF OrderInv

LEMMA HeldIs ==
    ASSUME NEW r \in Readers, NEW p
    PROVE  p \in Held(r) \/ BeforeFirst(r, p) <=> Has(r, reader[r], inbox[InstanceOf[r]], p)
BY DEF Held, BeforeFirst, Has

(* All that NothingMissed rests on.                                        *)
MInv ==
    /\ SInv
    /\ joined \in [Readers -> {-1} \cup Nat]
    /\ JoinedInv
    /\ \A r \in Readers : OrderInv(r)
    /\ NothingMissed

LEMMA MInvInit == ReadersConnected /\ Init => MInv
<1> SUFFICES ASSUME ReadersConnected, Init PROVE MInv
  OBVIOUS
<1>1. NothingMissed
  BY DEF Init, NothingMissed
<1> QED BY <1>1, SInvInit, JoinedBegins, OrderInit DEF MInv

LEMMA MInvStep == ReadersConnected /\ LinesApart /\ MInv /\ [Next]_vars => MInv'
<1> SUFFICES ASSUME ReadersConnected, LinesApart, MInv, [Next]_vars PROVE MInv'
  OBVIOUS
<1>1. SInv'
  BY SInvStep DEF MInv
<1>2. WInv' /\ FeedInv' /\ SInv /\ WInv /\ FeedInv
  BY <1>1 DEF SInv, MInv
<1>3. CASE Next
  <2>1. joined' \in [Readers -> {-1} \cup Nat] /\ JoinedInv'
    BY <1>2, <1>3, JoinedStep DEF MInv
  <2>2. \A r \in Readers : OrderInv(r)'
    BY <1>2, <1>3, OrderStep DEF MInv
  <2>3. NothingMissed'
    <3> SUFFICES ASSUME NEW r \in Readers, joined'[r] # -1,
                        Count[r] = 0 \/ InstanceOf[r] \notin Compressing,
                        NEW p \in joined'[r] + 1 .. Len(feed')
                 PROVE  (p \in Held(r) \/ BeforeFirst(r, p))'
      BY DEF NothingMissed
    <3>1. /\ Established(r)'
          /\ joined'[r] = IF joined[r] = -1 THEN Len(feed') ELSE joined[r]
      BY <1>3 DEF Next, Observe
    <3>2. Len(feed') \in 0 .. MaxLogs /\ Len(feed) \in Nat /\ MaxLogs \in Nat
      <4>1. (WInv /\ FeedInv => Len(feed) \in 0 .. MaxLogs)'
        BY FeedPositions, PTL
      <4> QED BY <1>2, <4>1, WriteAssumption DEF WInv, WriteTypeOK
    <3>3. joined[r] \in Nat /\ joined'[r] = joined[r]
      <4>1. joined[r] \in {-1} \cup Nat
        BY DEF MInv
      <4>2. joined[r] # -1
        BY <3>1, <3>2
      <4> QED BY <3>1, <4>1, <4>2
    <3>4. Established(r)
      BY <3>3 DEF MInv, JoinedInv
    <3>5. p \in Positions /\ p <= Len(feed') /\ p \in Nat
      BY <3>2, <3>3 DEF Positions
    <3>6. p > Len(feed) \/ Has(r, reader[r], inbox[InstanceOf[r]], p)
      <4> SUFFICES ASSUME ~(p > Len(feed)) PROVE Has(r, reader[r], inbox[InstanceOf[r]], p)
        OBVIOUS
      <4>1. p \in joined[r] + 1 .. Len(feed) /\ joined[r] # -1
        BY <3>2, <3>3, <3>5
      <4>2. p \in Held(r) \/ BeforeFirst(r, p)
        BY <4>1 DEF MInv, NothingMissed
      <4> QED BY <4>2, HeldIs
    <3>7. Has(r, reader'[r], inbox'[InstanceOf[r]], p)
      BY <1>2, <1>3, <3>1, <3>4, <3>5, <3>6, HasStep DEF MInv
    <3> QED BY <3>7 DEF Held, BeforeFirst, Has
  <2> QED BY <1>1, <2>1, <2>2, <2>3 DEF MInv
<1>4. CASE UNCHANGED vars
  <2>1. UNCHANGED <<feed, inbox, reader, joined, commands, channelCmds>>
    BY <1>4 DEF vars, readVars, writeVars
  <2>2. JoinedInv' /\ (\A r \in Readers : OrderInv(r)') /\ NothingMissed'
    BY <2>1 DEF MInv, JoinedInv, Established, OrderInv, NothingMissed, Held, BeforeFirst
  <2> QED BY <1>1, <2>1, <2>2 DEF MInv
<1> QED BY <1>3, <1>4

(* "Subscribe in parallel so we don't miss logs in between": once the      *)
(* subscription of a reader is in place it misses nothing that is          *)
(* published, whatever other readers and instances do and wherever the     *)
(* answer of its history query falls; for any number of readers, history   *)
(* lengths and retention limits.  It takes lines of different              *)
(* milliseconds: the merge of the history compares nothing but times.      *)
THEOREM NothingIsMissed == ReadersConnected /\ LinesApart => (Spec => []NothingMissed)
<1> SUFFICES ASSUME ReadersConnected, LinesApart PROVE Spec => []NothingMissed
  OBVIOUS
<1>1. Init => MInv
  BY MInvInit
<1>2. MInv /\ [Next]_vars => MInv'
  BY MInvStep
<1>3. MInv => NothingMissed
  BY DEF MInv
<1> QED BY <1>1, <1>2, <1>3, PTL DEF Spec
=============================================================================
