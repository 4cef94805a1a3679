------------------------------ MODULE FtpProofs ------------------------------
(***************************************************************************)
(* Proofs about FtpDownload, for files, retries, losses and channels of    *)
(* any size: its type, that no byte is lost or read twice, and that        *)
(* downloads end rightly.                                                  *)
(*                                                                         *)
(* The inductive invariant adds what is on its way.  An answer to an open  *)
(* is that of the download under way, because the numbers in between are   *)
(* fewer than there are; it is then the last message in flight, so what    *)
(* follows it is this download's (Session).  A read in flight lies in the  *)
(* first gap or before it (ReadsFit).  While no answer is later than its   *)
(* timer the packets in flight continue what was received (InStep), and    *)
(* while nothing at all goes wrong one thing is always under way (Calm).   *)
(***************************************************************************)
EXTENDS FtpDownload, FiniteSetTheorems, FunctionTheorems, SequenceTheorems, TLAPS

\* Fewer downloads are begun, or cancelled, than there are numbers.
Distinct == 4 * MaxDownloads + 2 * MaxCancels + 2 < SeqMod

\* A file has fewer packets than there are numbers.
Short == Size <= DataLen * (SeqMod - 2) /\ SeqMod >= 5

Numbers == 0 .. SeqMod - 1

Requests ==
  [op : {"Open"}, file : 1 .. MaxDownloads] \cup [op : {"Reset", "Terminate"}]
  \cup [op : {"Burst"}, offset : 0 .. Size]
  \cup [op : {"Read"}, offset : Bytes, count : 1 .. DataLen]
Asked == [seq : Numbers, request : Requests]

Packets ==
  {m \in [type : {"Data"}, op : {"Burst", "Read"}, seq : Numbers, file : 1 .. MaxDownloads,
          offset : Bytes, count : 1 .. DataLen, complete : BOOLEAN] : m.offset + m.count <= Size}
Replied ==
  [type : {"Ack"}, op : {"Open", "Reset", "Terminate"}, seq : Numbers]
  \cup [type : {"Nak"}, op : {"Open", "Terminate", "Burst", "Read"}, seq : Numbers]
  \cup [type : {"Eof"}, op : {"Burst"}, seq : Numbers]
  \cup Packets

GapType == [offset : Bytes, bytes : 1 .. Size]

Typed ==
  /\ file \in 0 .. MaxDownloads /\ checkSize \in BOOLEAN /\ phase \in Phases
  /\ expectedSeq \in Numbers /\ expectedOffset \in 0 .. Size
  /\ got \subseteq (1 .. MaxDownloads) \X Bytes /\ missing \in Seq(GapType)
  /\ retries \in 0 .. MaxRetry + 1 /\ due \in BOOLEAN /\ result \in {"None", "Ok", "Failed"}
  /\ phase # "Idle" => file # 0 /\ retries <= MaxRetry /\ result = "None"
  /\ opened \in 0 .. MaxDownloads
  /\ stream # NoStream => stream \in [seq : Numbers, offset : 0 .. Size] /\ opened # 0
  /\ toVehicle \in Seq(Asked) /\ toStation \in Seq(Replied)
  /\ faults \in 0 .. MaxFaults /\ cancels \in 0 .. MaxCancels
  /\ dead \in BOOLEAN /\ late \in BOOLEAN /\ refused \in BOOLEAN

\* bytes and gaps are the offsets up to n, each once, the gaps in their order.
Covers(n, bytes, gaps) ==
  /\ \A b, c \in bytes : b[2] = c[2] => b = c
  /\ \A b \in bytes : b[2] < n
  /\ \A i \in DOMAIN gaps : gaps[i].offset + gaps[i].bytes <= n
  /\ \A i, j \in DOMAIN gaps : i < j => gaps[i].offset + gaps[i].bytes <= gaps[j].offset
  /\ \A x \in 0 .. n - 1 :
       (\E b \in bytes : b[2] = x)
         <=> ~\E i \in DOMAIN gaps : gaps[i].offset <= x /\ x < gaps[i].offset + gaps[i].bytes

Accounted ==
  /\ written = Cardinality(got)
  /\ \A b \in got : b[1] = file
  /\ \E n \in 0 .. Size :
       /\ Covers(n, got, missing)
       /\ phase \in {"Open", "Burst"} => n = expectedOffset
  /\ phase = "Fill" => missing # <<>> /\ expectedOffset = missing[1].offset

\* How far the numbers have gone since an open that is still in flight.
Back(seq) == (expectedSeq - seq) % SeqMod
Reach == 4 * file + 2 * cancels - IF phase = "Open" THEN 2 ELSE 0
OpensAreNear ==
  /\ \A i \in DOMAIN toVehicle :
       toVehicle[i].request.op = "Open" => Back(Forward(toVehicle[i].seq, 1)) <= Reach
  /\ \A i \in DOMAIN toStation : toStation[i].op = "Open" => Back(toStation[i].seq) <= Reach

Opening ==
  /\ \A i \in DOMAIN toVehicle :
       toVehicle[i].request.op = "Open" /\ Forward(toVehicle[i].seq, 1) = expectedSeq =>
         i = Len(toVehicle) /\ toVehicle[i].request.file = file
  /\ \A i \in DOMAIN toStation :
       toStation[i].op = "Open" /\ toStation[i].type = "Ack" /\ toStation[i].seq = expectedSeq =>
         i = Len(toStation) /\ toVehicle = <<>> /\ stream = NoStream /\ opened = file

\* A read lies in the first gap, or before it.
Fits(offset, count, gap) == offset < gap.offset \/ (offset = gap.offset /\ count <= gap.bytes)
ReadsFit ==
  /\ \A i \in DOMAIN toVehicle :
       toVehicle[i].request.op = "Read" =>
         Fits(toVehicle[i].request.offset, toVehicle[i].request.count, missing[1])
  /\ \A i \in DOMAIN toStation :
       toStation[i].op = "Read" /\ toStation[i].type = "Data" =>
         Fits(toStation[i].offset, toStation[i].count, missing[1])
NoReads ==
  /\ \A i \in DOMAIN toVehicle : toVehicle[i].request.op # "Read"
  /\ \A i \in DOMAIN toStation : toStation[i].op # "Read"

Opened ==
  /\ opened = file
  /\ \A i \in DOMAIN toVehicle : toVehicle[i].request.op \in {"Burst", "Read"}
  /\ \A i \in DOMAIN toStation : toStation[i].op = "Open" => i = 1
  /\ \A i \in DOMAIN toStation : toStation[i].type = "Data" => toStation[i].file = file

Session ==
  /\ OpensAreNear
  /\ phase = "Open" => Opening
  /\ phase \in {"Burst", "Fill"} => Opened
  /\ phase = "Burst" => NoReads
  /\ phase = "Fill" => ReadsFit

Whole == got = {file} \X Bytes
EndsWhole == (phase = "Reset" \/ result = "Ok") /\ (checkSize \/ ~late) => Whole

\* The offset of packet k of the burst, from the one expected.
Place(k) == expectedOffset + k * DataLen
PastEnd(k) == Place(k) >= Size /\ (k >= 1 => Place(k - 1) < Size)

\* The station ignores a message it has had already, and ends with a refusal.
Spent(i) ==
  LET m == toStation[i] IN
  \/ m.op # "Burst" \/ m.type = "Nak"
  \/ m.type = "Data" /\ m.offset < expectedOffset
  \/ m.type = "Eof" /\ i = 1 /\ m.seq = Forward(expectedSeq, -2)
Ahead(m) ==
  /\ m.op = "Burst"
  /\ \E k \in Numbers :
       /\ m.seq = Forward(expectedSeq, k)
       /\ \/ m.type = "Data" /\ m.offset = Place(k) /\ m.count = Least(DataLen, Size - m.offset)
          \/ m.type = "Eof" /\ PastEnd(k)

Last(i) == i = Len(toStation) /\ stream = NoStream

\* A packet that ends what the server sends.
Ending(m) == m.type = "Data" => m.complete

AsksNext ==
  toVehicle # <<>> =>
    /\ toVehicle = <<[seq |-> Forward(expectedSeq, -1),
                      request |-> [op |-> "Burst", offset |-> expectedOffset]]>>
    /\ stream = NoStream /\ \A i \in DOMAIN toStation : Spent(i)
Continued == \A i \in DOMAIN toStation : Spent(i) \/ Ahead(toStation[i])
StreamContinues ==
  stream # NoStream =>
    \E k \in Numbers :
      /\ stream.seq = Forward(expectedSeq, k) /\ stream.offset = Least(Place(k), Size)
      /\ k >= 1 => Place(k - 1) < Size
Rising ==
  \A i, j \in DOMAIN toStation :
    i < j /\ toStation[i].op = "Burst" /\ toStation[i].type = "Data"
          /\ toStation[j].op = "Burst" /\ toStation[j].type = "Data" =>
      toStation[i].offset < toStation[j].offset
EndsLast == \A i \in DOMAIN toStation : ~Spent(i) /\ Ending(toStation[i]) => Last(i)
StreamIsAhead ==
  \A i \in DOMAIN toStation :
    ~Spent(i) /\ toStation[i].type = "Data" /\ stream # NoStream => toStation[i].offset < stream.offset

InStep == AsksNext /\ Continued /\ StreamContinues /\ Rising /\ EndsLast /\ StreamIsAhead

Calm == ~refused /\ ~late /\ ~dead /\ faults = 0 /\ cancels = 0

\* The offset that follows the first i messages in flight.
After(i) == IF i = 0 THEN expectedOffset ELSE toStation[i].offset + toStation[i].count

Streaming ==
  /\ \A i \in DOMAIN toStation :
       /\ toStation[i].op = "Burst" /\ toStation[i].seq = Forward(expectedSeq, i - 1)
       /\ \/ toStation[i].type = "Data" /\ toStation[i].offset = After(i - 1)
          \/ toStation[i].type = "Eof" /\ After(i - 1) = Size
  /\ IF stream # NoStream
     THEN stream.seq = Forward(expectedSeq, Len(toStation)) /\ stream.offset = After(Len(toStation))
     ELSE toStation # <<>> /\ Ending(toStation[Len(toStation)])

UnderWay ==
  /\ result # "Failed" /\ missing = <<>> /\ phase \in {"Idle", "Open", "Burst", "Reset"}
  /\ phase = "Idle" => toVehicle = <<>> /\ toStation = <<>> /\ stream = NoStream
  /\ phase \in {"Open", "Reset"} =>
       /\ stream = NoStream
       /\ \/ /\ toStation = <<>> /\ Len(toVehicle) = 1
             /\ toVehicle[1].request.op = phase /\ Forward(toVehicle[1].seq, 1) = expectedSeq
          \/ toVehicle = <<>> /\ toStation = <<[type |-> "Ack", op |-> phase, seq |-> expectedSeq]>>
  /\ phase = "Burst" =>
       IF toVehicle # <<>> THEN toStation = <<>> ELSE Streaming

IInv ==
  /\ Typed /\ Accounted /\ Session
  /\ (phase = "Reset" \/ result = "Ok") /\ checkSize => Whole

WholeInv ==
  /\ phase = "Open" => expectedOffset = 0
  /\ phase = "Burst" /\ ~late => InStep
  /\ phase = "Fill" /\ ~late => Covers(Size, got, missing)
  /\ EndsWhole

InTimeInv == WholeInv /\ (Calm => UnderWay)

-----------------------------------------------------------------------------
(* Lemmas about sequence numbers.                                          *)

LEMMA Distribute ==
  ASSUME NEW m \in Int, NEW q \in Int, NEW t \in Int
  PROVE  m * (q - t) = m * q - m * t /\ m * (q + t) = m * q + m * t
OBVIOUS

LEMMA DivMod ==
  ASSUME NEW a \in Int
  PROVE  a % SeqMod \in Numbers /\ a \div SeqMod \in Int /\ a = SeqMod * (a \div SeqMod) + (a % SeqMod)
<1>1. SeqMod \in Nat /\ SeqMod >= 1
  BY ConstantsAssumption
<1> QED BY <1>1 DEF Numbers

LEMMA Factor ==
  ASSUME NEW p \in Int, NEW d \in Int, d = SeqMod * p, -SeqMod < d, d < SeqMod
  PROVE  p = 0
<1>0. SeqMod \in Nat /\ SeqMod >= 1
  BY ConstantsAssumption
<1>1. CASE p >= 1
  <2>1. SeqMod * p >= SeqMod
    BY <1>0, <1>1
  <2> QED BY <1>0, <2>1
<1>2. CASE p <= -1
  <2>1. SeqMod * p <= -SeqMod
    BY <1>0, <1>2
  <2> QED BY <1>0, <2>1
<1> QED BY <1>1, <1>2

\* The remainder is the only one.
LEMMA Remainder ==
  ASSUME NEW a \in Int, NEW r \in Numbers, NEW q \in Int, a = SeqMod * q + r
  PROVE  a % SeqMod = r
<1>0. SeqMod \in Nat /\ SeqMod >= 1
  BY ConstantsAssumption
<1>1. /\ a % SeqMod \in 0 .. SeqMod - 1 /\ a \div SeqMod \in Int
      /\ a = SeqMod * (a \div SeqMod) + (a % SeqMod)
  BY DivMod DEF Numbers
<1>2. PICK s, t : s = a % SeqMod /\ t = a \div SeqMod
  OBVIOUS
<1>3. SeqMod * (q - t) = s - r /\ q - t \in Int
  <2>1. SeqMod * q - SeqMod * t = s - r
    <3>1. SeqMod * q + r = SeqMod * t + s
      BY <1>1, <1>2
    <3>2. SeqMod * q \in Int /\ SeqMod * t \in Int /\ r \in Int /\ s \in Int
      BY <1>0, <1>1, <1>2 DEF Numbers
    <3> QED BY <3>1, <3>2
  <2>2. t \in Int /\ q - t \in Int
    BY <1>1, <1>2
  <2>3. SeqMod * (q - t) = SeqMod * q - SeqMod * t
    BY <1>0, <2>2, Distribute
  <2> QED BY <2>1, <2>2, <2>3
<1>4. q - t = 0
  <2>1. s - r \in Int /\ -SeqMod < s - r /\ s - r < SeqMod
    BY <1>0, <1>1, <1>2 DEF Numbers
  <2>2. PICK p \in Int, d \in Int : p = q - t /\ d = s - r
    BY <1>3, <2>1
  <2> QED BY <1>3, <2>1, <2>2, Factor
<1> QED
  <2>1. q = t
    BY <1>1, <1>2, <1>4
  <2>2. SeqMod * q + r = SeqMod * q + s
    BY <1>1, <1>2, <2>1
  <2>3. SeqMod * q \in Int /\ r \in Int /\ s \in Int
    BY <1>0, <1>1, <1>2 DEF Numbers
  <2> QED BY <1>2, <2>2, <2>3

LEMMA ForwardType == ASSUME NEW a \in Int, NEW n \in Int PROVE Forward(a, n) \in Numbers
BY DivMod DEF Forward

LEMMA ModAdd ==
  ASSUME NEW a \in Int, NEW b \in Int
  PROVE  ((a % SeqMod) + b) % SeqMod = (a + b) % SeqMod
<1>0. SeqMod \in Nat /\ SeqMod >= 1
  BY ConstantsAssumption
<1>1. PICK r \in Numbers, q \in Int : r = a % SeqMod /\ a = SeqMod * q + r
  BY DivMod
<1>2. PICK s \in Numbers, t \in Int : s = (a + b) % SeqMod /\ a + b = SeqMod * t + s
  BY DivMod
<1>3. r + b = SeqMod * (t - q) + s
  <2>1. SeqMod * (t - q) = SeqMod * t - SeqMod * q
    BY <1>0, <1>1, <1>2, Distribute
  <2>2. SeqMod * q + r + b = SeqMod * t + s
    BY <1>1, <1>2
  <2>3. SeqMod * q \in Int /\ SeqMod * t \in Int /\ r \in Int /\ s \in Int
    BY <1>0, <1>1, <1>2 DEF Numbers
  <2> QED BY <2>1, <2>2, <2>3
<1>4. r + b \in Int /\ t - q \in Int
  BY <1>0, <1>1, <1>2 DEF Numbers
<1> HIDE DEF Numbers
<1>5. (r + b) % SeqMod = s
  BY <1>2, <1>3, <1>4, Remainder
<1> QED BY <1>1, <1>2, <1>5

LEMMA ForwardForward ==
  ASSUME NEW a \in Int, NEW m \in Int, NEW n \in Int
  PROVE  Forward(Forward(a, m), n) = Forward(a, m + n)
<1>1. (((a + m) % SeqMod) + n) % SeqMod = (a + m + n) % SeqMod
  BY ModAdd
<1>2. a + m + n = a + (m + n)
  OBVIOUS
<1> QED BY <1>1, <1>2 DEF Forward

LEMMA ForwardSame == ASSUME NEW a \in Numbers PROVE Forward(a, 0) = a
<1>0. SeqMod \in Nat /\ SeqMod >= 1
  BY ConstantsAssumption
<1>1. a \in Int /\ a = SeqMod * 0 + a
  BY <1>0 DEF Numbers
<1> QED BY <1>1, Remainder DEF Forward

\* Numbers less than SeqMod apart differ.
LEMMA ForwardDiffers ==
  ASSUME NEW a \in Int, NEW m \in Int, NEW n \in Int, Forward(a, m) = Forward(a, n),
         m - n < SeqMod, n - m < SeqMod
  PROVE  m = n
<1>0. SeqMod \in Nat /\ SeqMod >= 1
  BY ConstantsAssumption
<1>1. PICK r \in Numbers, q \in Int : r = Forward(a, m) /\ a + m = SeqMod * q + r
  BY DivMod DEF Forward
<1>2. PICK t \in Int : a + n = SeqMod * t + r
  BY <1>1, DivMod DEF Forward
<1>3. m - n = SeqMod * (q - t) /\ q - t \in Int
  BY <1>0, <1>1, <1>2 DEF Numbers
<1>4. q - t = 0
  BY <1>0, <1>3, Factor
<1> QED BY <1>0, <1>3, <1>4

\* A number is as far back as it was, and as far as they went on.
LEMMA ForwardBack ==
  ASSUME NEW a \in Int, NEW s \in Int, NEW n \in Nat
  PROVE  (Forward(a, n) - s) % SeqMod <= ((a - s) % SeqMod) + n
<1>0. SeqMod \in Nat /\ SeqMod >= 1
  BY ConstantsAssumption
<1>1. (Forward(a, n) - s) % SeqMod = (a - s + n) % SeqMod
  <2>1. (((a + n) % SeqMod) + (-s)) % SeqMod = (a + n + (-s)) % SeqMod
    BY ModAdd
  <2>2. (a + n) % SeqMod \in Int
    BY <1>0, DivMod DEF Numbers
  <2>3. ((a + n) % SeqMod) + (-s) = ((a + n) % SeqMod) - s /\ a + n + (-s) = a - s + n
    BY <2>2
  <2> QED BY <2>1, <2>3 DEF Forward
<1>2. (a - s + n) % SeqMod = (((a - s) % SeqMod) + n) % SeqMod
  BY ModAdd
<1>3. PICK d : d = ((a - s) % SeqMod) + n /\ d \in Nat
  BY <1>0, DivMod DEF Numbers
<1>4. d % SeqMod <= d
  <2>1. PICK r \in Numbers, q \in Int : r = d % SeqMod /\ d = SeqMod * q + r
    BY <1>3, DivMod
  <2>2. CASE q >= 0
    <3>1. SeqMod * q >= 0
      BY <1>0, <2>2
    <3> QED BY <1>0, <2>1, <3>1 DEF Numbers
  <2>3. CASE q <= -1
    <3>1. SeqMod * q <= -SeqMod
      BY <1>0, <2>3
    <3> QED BY <1>0, <1>3, <2>1, <3>1 DEF Numbers
  <2> QED BY <2>2, <2>3
<1> QED BY <1>1, <1>2, <1>3, <1>4

-----------------------------------------------------------------------------
(* Lemmas about messages and channels.                                     *)

LEMMA AskedFields ==
  ASSUME NEW m \in Asked
  PROVE  /\ m.seq \in Numbers /\ m.request \in Requests
         /\ m.request.op \in {"Open", "Reset", "Terminate", "Burst", "Read"}
         /\ m.request.op = "Open" => m.request.file \in 1 .. MaxDownloads
         /\ m.request.op = "Burst" => m.request.offset \in 0 .. Size
         /\ m.request.op = "Read" => m.request.offset \in Bytes /\ m.request.count \in 1 .. DataLen
BY DEF Asked, Requests

LEMMA RepliedFields ==
  ASSUME NEW m \in Replied
  PROVE  /\ m.seq \in Numbers /\ m.type \in {"Ack", "Nak", "Eof", "Data"}
         /\ m.op \in {"Open", "Reset", "Terminate", "Burst", "Read"}
         /\ m.type = "Ack" => m.op \in {"Open", "Reset", "Terminate"}
         /\ m.type = "Eof" => m.op = "Burst"
         /\ m.type = "Nak" => m.op # "Reset"
         /\ m.type = "Data" => m \in Packets /\ m.op \in {"Burst", "Read"}
BY DEF Replied, Packets

LEMMA PacketFields ==
  ASSUME NEW m \in Packets
  PROVE  /\ m.file \in 1 .. MaxDownloads /\ m.offset \in 0 .. Size - 1 /\ m.count \in 1 .. DataLen
         /\ m.offset \in Nat /\ m.count \in Nat /\ m.count >= 1 /\ m.offset + m.count <= Size
         /\ m.complete \in BOOLEAN
BY ConstantsAssumption DEF Packets, Bytes

LEMMA TailFacts ==
  ASSUME NEW S, NEW c \in Seq(S), c # <<>>
  PROVE  /\ Tail(c) \in Seq(S) /\ Len(Tail(c)) = Len(c) - 1 /\ Len(c) \in Nat /\ Len(c) >= 1
         /\ DOMAIN c = 1 .. Len(c) /\ DOMAIN Tail(c) = 1 .. Len(c) - 1
         /\ \A i \in DOMAIN Tail(c) : i + 1 \in DOMAIN c /\ Tail(c)[i] = c[i + 1]
         /\ Head(c) = c[1] /\ 1 \in DOMAIN c /\ Head(c) \in S
<1>1. /\ Head(c) \in S /\ Tail(c) \in Seq(S) /\ Len(Tail(c)) = Len(c) - 1
      /\ \A i \in 1 .. Len(Tail(c)) : Tail(c)[i] = c[i + 1]
  BY HeadTailProperties
<1>2. Len(c) \in Nat /\ Len(c) # 0 /\ DOMAIN c = 1 .. Len(c)
  BY EmptySeq, LenProperties
<1>3. DOMAIN Tail(c) = 1 .. Len(Tail(c))
  BY <1>1, LenProperties
<1>4. Head(c) = c[1]
  OBVIOUS
<1> QED BY <1>1, <1>2, <1>3, <1>4

LEMMA AppendFacts ==
  ASSUME NEW S, NEW c \in Seq(S), NEW m \in S
  PROVE  /\ Append(c, m) \in Seq(S) /\ Len(Append(c, m)) = Len(c) + 1 /\ Len(c) \in Nat
         /\ DOMAIN c = 1 .. Len(c) /\ DOMAIN Append(c, m) = 1 .. Len(c) + 1
         /\ \A i \in DOMAIN c : Append(c, m)[i] = c[i]
         /\ Append(c, m)[Len(c) + 1] = m /\ Append(c, m) # <<>>
<1>1. /\ Append(c, m) \in Seq(S) /\ Len(Append(c, m)) = Len(c) + 1
      /\ \A i \in 1 .. Len(c) : Append(c, m)[i] = c[i]
      /\ Append(c, m)[Len(c) + 1] = m
  BY AppendProperties
<1>2. Len(c) \in Nat /\ DOMAIN c = 1 .. Len(c)
  BY LenProperties
<1>3. DOMAIN Append(c, m) = 1 .. Len(Append(c, m))
  BY <1>1, LenProperties
<1>4. Append(c, m) # <<>>
  BY <1>1, <1>2, EmptySeq
<1> QED BY <1>1, <1>2, <1>3, <1>4

\* What was sent is the last message, or there was no room.
LEMMA Sent ==
  ASSUME Typed, NEW base \in Int, NEW request \in Requests, Send(base, request)
  PROVE  /\ expectedSeq' = Forward(base, 2) /\ expectedSeq' \in Numbers
         /\ toVehicle' \in Seq(Asked)
         /\ Len(toVehicle) \in Nat /\ DOMAIN toVehicle = 1 .. Len(toVehicle)
         /\ \/ toVehicle' = toVehicle
            \/ /\ DOMAIN toVehicle' = 1 .. Len(toVehicle) + 1 /\ Len(toVehicle') = Len(toVehicle) + 1
               /\ \A i \in DOMAIN toVehicle : toVehicle'[i] = toVehicle[i]
               /\ toVehicle'[Len(toVehicle) + 1] = [seq |-> Forward(base, 1), request |-> request]
         /\ toVehicle = <<>> =>
              IF dead THEN toVehicle' = <<>>
              ELSE toVehicle' = <<[seq |-> Forward(base, 1), request |-> request]>>
<1> DEFINE m == [seq |-> Forward(base, 1), request |-> request]
<1>1. m \in Asked
  BY ForwardType DEF Asked
<1>2. toVehicle \in Seq(Asked)
  BY DEF Typed
<1> HIDE DEF m
<1>3. /\ Append(toVehicle, m) \in Seq(Asked) /\ Len(Append(toVehicle, m)) = Len(toVehicle) + 1
      /\ Len(toVehicle) \in Nat
      /\ DOMAIN toVehicle = 1 .. Len(toVehicle) /\ DOMAIN Append(toVehicle, m) = 1 .. Len(toVehicle) + 1
      /\ \A i \in DOMAIN toVehicle : Append(toVehicle, m)[i] = toVehicle[i]
      /\ Append(toVehicle, m)[Len(toVehicle) + 1] = m
  BY <1>1, <1>2, AppendFacts
<1>4. toVehicle' = toVehicle \/ toVehicle' = Append(toVehicle, m)
  BY DEF Send, m
<1>5. expectedSeq' = Forward(base, 2) /\ expectedSeq' \in Numbers
  BY ForwardType DEF Send
<1>6. toVehicle = <<>> => IF dead THEN toVehicle' = <<>> ELSE toVehicle' = <<m>>
  BY ConstantsAssumption DEF Send, m
<1> QED BY <1>2, <1>3, <1>4, <1>5, <1>6 DEF m

LEMMA SentOrOld ==
  ASSUME Typed, NEW base \in Int, NEW request \in Requests, Send(base, request)
  PROVE  /\ expectedSeq' \in Numbers /\ toVehicle' \in Seq(Asked)
         /\ \A i \in DOMAIN toVehicle' :
              \/ i \in DOMAIN toVehicle /\ toVehicle'[i] = toVehicle[i]
              \/ toVehicle'[i].request = request
<1>1. /\ expectedSeq' \in Numbers /\ toVehicle' \in Seq(Asked)
      /\ Len(toVehicle) \in Nat /\ DOMAIN toVehicle = 1 .. Len(toVehicle)
      /\ \/ toVehicle' = toVehicle
         \/ /\ DOMAIN toVehicle' = 1 .. Len(toVehicle) + 1
            /\ \A i \in DOMAIN toVehicle : toVehicle'[i] = toVehicle[i]
            /\ toVehicle'[Len(toVehicle) + 1] = [seq |-> Forward(base, 1), request |-> request]
  BY Sent
<1>2. \A i \in 1 .. Len(toVehicle) + 1 : i \in 1 .. Len(toVehicle) \/ i = Len(toVehicle) + 1
  BY <1>1
<1> QED BY <1>1, <1>2

\* The message received goes, or stays the first.
LEMMA Delivered ==
  ASSUME Typed, toStation # <<>>, DeliveredOnceMore
  PROVE  /\ toStation' \in Seq(Replied) /\ faults' \in 0 .. MaxFaults
         /\ Head(toStation) = toStation[1] /\ Head(toStation) \in Replied /\ 1 \in DOMAIN toStation
         /\ Len(toStation) \in Nat /\ DOMAIN toStation = 1 .. Len(toStation)
         /\ Len(toStation') \in Nat /\ DOMAIN toStation' = 1 .. Len(toStation')
         /\ \/ toStation' = toStation
            \/ /\ Len(toStation') = Len(toStation) - 1
               /\ \A i \in DOMAIN toStation' : i + 1 \in DOMAIN toStation /\ toStation'[i] = toStation[i + 1]
<1>1. toStation \in Seq(Replied)
  BY DEF Typed
<1>2. /\ Tail(toStation) \in Seq(Replied) /\ Len(Tail(toStation)) = Len(toStation) - 1
      /\ Len(toStation) \in Nat /\ Len(toStation) >= 1
      /\ DOMAIN toStation = 1 .. Len(toStation) /\ DOMAIN Tail(toStation) = 1 .. Len(toStation) - 1
      /\ \A i \in DOMAIN Tail(toStation) : i + 1 \in DOMAIN toStation /\ Tail(toStation)[i] = toStation[i + 1]
      /\ Head(toStation) = toStation[1] /\ 1 \in DOMAIN toStation /\ Head(toStation) \in Replied
  BY <1>1, TailFacts
<1>3. faults' \in 0 .. MaxFaults
  BY ConstantsAssumption DEF DeliveredOnceMore, Typed
<1>4. toStation' = toStation \/ toStation' = Tail(toStation)
  BY DEF DeliveredOnceMore
<1>5. CASE toStation' = toStation
  BY <1>1, <1>2, <1>3, <1>5
<1>6. CASE toStation' = Tail(toStation)
  <2>1. /\ Len(toStation') = Len(toStation) - 1 /\ Len(toStation') \in Nat
        /\ DOMAIN toStation' = 1 .. Len(toStation')
    BY <1>2, <1>6
  <2>2. \A i \in DOMAIN toStation' : i + 1 \in DOMAIN toStation /\ toStation'[i] = toStation[i + 1]
    BY <1>2, <1>6
  <2> QED BY <1>2, <1>3, <1>6, <2>1, <2>2
<1> QED BY <1>4, <1>5, <1>6

-----------------------------------------------------------------------------
(* Lemmas about the bytes and the gaps.                                    *)

\* A packet's bytes are as many as it says, one at each of its offsets.
LEMMA BytesOfPacket ==
  ASSUME NEW m \in Packets
  PROVE  /\ IsFiniteSet(BytesOf(m)) /\ Cardinality(BytesOf(m)) = m.count
         /\ \A b \in BytesOf(m) : /\ b[1] = m.file /\ b[2] \in m.offset .. m.offset + m.count - 1
                                  /\ b \in (1 .. MaxDownloads) \X Bytes
         /\ \A x \in m.offset .. m.offset + m.count - 1 : <<m.file, x>> \in BytesOf(m)
<1> DEFINE J == 0 .. m.count - 1
           f == [n \in J |-> <<m.file, m.offset + n>>]
<1>1. /\ m.file \in 1 .. MaxDownloads /\ m.offset \in Nat /\ m.count \in Nat /\ m.count >= 1
      /\ m.offset + m.count <= Size
  BY PacketFields
<1>2. f \in Bijection(J, BytesOf(m))
  <2>1. f \in [J -> BytesOf(m)]
    BY DEF BytesOf
  <2>2. ASSUME NEW i \in J, NEW j \in J, f[i] = f[j] PROVE i = j
    <3>1. <<m.file, m.offset + i>> = <<m.file, m.offset + j>>
      BY <2>2
    <3>2. m.offset + i = m.offset + j
      BY <3>1
    <3> QED BY <1>1, <3>2
  <2>3. \A b \in BytesOf(m) : \E n \in J : f[n] = b
    BY DEF BytesOf
  <2> QED BY <2>1, <2>2, <2>3, Fun_IsBij, Zenon
<1>3. IsFiniteSet(J) /\ Cardinality(J) = m.count
  <2>1. 0 \in Int /\ m.count - 1 \in Int /\ ~(0 > m.count - 1)
    BY <1>1
  <2>2. IsFiniteSet(J) /\ Cardinality(J) = (m.count - 1) - 0 + 1
    BY <2>1, FS_Interval
  <2> QED BY <1>1, <2>2
<1>4. IsFiniteSet(BytesOf(m)) /\ Cardinality(BytesOf(m)) = m.count
  <2>1. ExistsBijection(J, BytesOf(m))
    BY <1>2 DEF ExistsBijection
  <2> HIDE DEF J
  <2> QED BY <1>3, <2>1, FS_Bijection
<1>5. ASSUME NEW b \in BytesOf(m)
      PROVE /\ b[1] = m.file /\ b[2] \in m.offset .. m.offset + m.count - 1
            /\ b \in (1 .. MaxDownloads) \X Bytes
  <2>1. PICK n \in J : b = <<m.file, m.offset + n>>
    BY DEF BytesOf
  <2>2. m.offset + n \in Bytes /\ m.offset + n \in m.offset .. m.offset + m.count - 1
    BY <1>1, ConstantsAssumption DEF Bytes
  <2> QED BY <1>1, <2>1, <2>2
<1>6. ASSUME NEW x \in m.offset .. m.offset + m.count - 1 PROVE <<m.file, x>> \in BytesOf(m)
  <2>1. x - m.offset \in J /\ m.offset + (x - m.offset) = x
    BY <1>1
  <2> QED BY <2>1 DEF BytesOf
<1> QED BY <1>4, <1>5, <1>6

\* Bytes that are new are counted once.
LEMMA CountNew ==
  ASSUME NEW bytes, bytes \subseteq (1 .. MaxDownloads) \X Bytes, NEW m \in Packets,
         \A b \in bytes : b[2] \notin m.offset .. m.offset + m.count - 1
  PROVE  /\ IsFiniteSet(bytes) /\ Cardinality(bytes) \in Nat
         /\ Cardinality(bytes \cup BytesOf(m)) = Cardinality(bytes) + m.count
<1>1. IsFiniteSet((1 .. MaxDownloads) \X Bytes)
  <2>1. IsFiniteSet(1 .. MaxDownloads) /\ IsFiniteSet(0 .. Size - 1)
    BY ConstantsAssumption, FS_Interval
  <2> QED BY <2>1, FS_Product DEF Bytes
<1>2. IsFiniteSet(bytes) /\ Cardinality(bytes) \in Nat
  BY <1>1, FS_Subset, FS_CardinalityType
<1>3. /\ IsFiniteSet(BytesOf(m)) /\ Cardinality(BytesOf(m)) = m.count
      /\ \A b \in BytesOf(m) : b[2] \in m.offset .. m.offset + m.count - 1
  BY BytesOfPacket
<1>4. bytes \cap BytesOf(m) = {}
  BY <1>3
<1>5. Cardinality(bytes \cup BytesOf(m)) = Cardinality(bytes) + Cardinality(BytesOf(m)) - 0
  BY <1>2, <1>3, <1>4, FS_Union, FS_EmptySet
<1>6. m.count \in Nat
  BY PacketFields
<1> QED BY <1>2, <1>3, <1>5, <1>6

LEMMA GapFields ==
  ASSUME NEW gaps \in Seq(GapType)
  PROVE  /\ Len(gaps) \in Nat /\ DOMAIN gaps = 1 .. Len(gaps)
         /\ \A i \in DOMAIN gaps : /\ gaps[i] \in GapType
                                   /\ gaps[i].offset \in Nat /\ gaps[i].bytes \in Nat
                                   /\ gaps[i].bytes >= 1 /\ gaps[i].offset < Size
<1>1. Len(gaps) \in Nat /\ DOMAIN gaps = 1 .. Len(gaps)
  BY LenProperties
<1>2. ASSUME NEW i \in DOMAIN gaps PROVE gaps[i] \in GapType
  BY <1>1, ElementOfSeq
<1>3. ASSUME NEW g \in GapType
      PROVE  g.offset \in Nat /\ g.bytes \in Nat /\ g.bytes >= 1 /\ g.offset < Size
  BY ConstantsAssumption DEF GapType, Bytes
<1> QED BY <1>1, <1>2, <1>3

\* Whether an offset lies in a gap.
InGap(x, gaps) == \E i \in DOMAIN gaps : gaps[i].offset <= x /\ x < gaps[i].offset + gaps[i].bytes

\* Gaps whose ends are numbers, in their order and up to n.
Sorted(gaps, n) ==
  /\ \A i \in DOMAIN gaps : /\ gaps[i].offset \in Nat /\ gaps[i].bytes \in Nat
                            /\ gaps[i].offset + gaps[i].bytes <= n
  /\ \A i, j \in DOMAIN gaps : i < j => gaps[i].offset + gaps[i].bytes <= gaps[j].offset

LEMMA CoversParts ==
  ASSUME NEW n \in Nat, NEW bytes, bytes \subseteq (1 .. MaxDownloads) \X Bytes,
         NEW gaps \in Seq(GapType)
  PROVE  Covers(n, bytes, gaps) <=>
           /\ \A b, c \in bytes : b[2] = c[2] => b = c
           /\ \A b \in bytes : b[2] \in 0 .. n - 1
           /\ Sorted(gaps, n)
           /\ \A x \in 0 .. n - 1 : (\E b \in bytes : b[2] = x) <=> ~InGap(x, gaps)
<1>1. \A b \in bytes : b[2] \in Nat
  BY ConstantsAssumption DEF Bytes
<1>2. \A i \in DOMAIN gaps : gaps[i].offset \in Nat /\ gaps[i].bytes \in Nat
  BY GapFields
<1>3. \A b \in bytes : b[2] < n <=> b[2] \in 0 .. n - 1
  BY <1>1
<1> QED BY <1>2, <1>3 DEF Covers, Sorted, InGap

\* A gap more, after the others.
LEMMA GapsGrow ==
  ASSUME NEW n \in Nat, NEW o \in Nat, NEW p \in Nat, n < o, o <= p,
         NEW k \in Nat, NEW gaps, DOMAIN gaps = 1 .. k, Sorted(gaps, n),
         NEW after, DOMAIN after = 1 .. k + 1, \A i \in 1 .. k : after[i] = gaps[i],
         after[k + 1].offset = n, after[k + 1].bytes = o - n
  PROVE  /\ Sorted(after, p)
         /\ \A x \in 0 .. n - 1 : InGap(x, after) <=> InGap(x, gaps)
         /\ \A x \in n .. o - 1 : InGap(x, after)
         /\ \A x \in Nat : x >= o => ~InGap(x, after)
<1>1. ASSUME NEW i \in 1 .. k
      PROVE  /\ after[i] = gaps[i] /\ gaps[i].offset \in Nat /\ gaps[i].bytes \in Nat
             /\ gaps[i].offset + gaps[i].bytes <= n
  BY DEF Sorted
<1>2. \A i \in DOMAIN after : i \in 1 .. k \/ i = k + 1
  OBVIOUS
<1>3. k + 1 \in DOMAIN after /\ \A i \in 1 .. k : i \in DOMAIN after /\ i \in DOMAIN gaps
  OBVIOUS
<1>4. Sorted(after, p)
  <2>1. ASSUME NEW i \in DOMAIN after
        PROVE  after[i].offset \in Nat /\ after[i].bytes \in Nat /\ after[i].offset + after[i].bytes <= p
    BY <1>1, <1>2
  <2>2. ASSUME NEW i \in DOMAIN after, NEW j \in DOMAIN after, i < j
        PROVE  after[i].offset + after[i].bytes <= after[j].offset
    <3>1. i \in 1 .. k
      BY <2>2
    <3>2. CASE j \in 1 .. k
      BY <1>1, <2>2, <3>1, <3>2 DEF Sorted
    <3>3. CASE j = k + 1
      BY <1>1, <3>1, <3>3
    <3> QED BY <1>2, <3>2, <3>3
  <2> QED BY <2>1, <2>2 DEF Sorted
<1>5. ASSUME NEW x \in 0 .. n - 1 PROVE InGap(x, after) <=> InGap(x, gaps)
  <2>1. ~(after[k + 1].offset <= x)
    OBVIOUS
  <2> QED BY <1>1, <1>2, <1>3, <2>1 DEF InGap
<1>6. ASSUME NEW x \in n .. o - 1 PROVE InGap(x, after)
  BY <1>3 DEF InGap
<1>7. ASSUME NEW x \in Nat, x >= o, NEW i \in DOMAIN after
      PROVE  ~(x < after[i].offset + after[i].bytes)
  <2>1. CASE i \in 1 .. k
    BY <1>1, <1>7, <2>1
  <2>2. CASE i = k + 1
    BY <1>7, <2>2
  <2> QED BY <1>2, <2>1, <2>2
<1> QED BY <1>4, <1>5, <1>6, <1>7 DEF InGap

\* The first gap has its first c bytes no more,
LEMMA GapShrinks ==
  ASSUME NEW n \in Nat, NEW c \in Nat, c >= 1,
         NEW k \in Nat, k >= 1, NEW gaps, DOMAIN gaps = 1 .. k, Sorted(gaps, n),
         NEW after, DOMAIN after = 1 .. k, c < gaps[1].bytes,
         after[1].offset = gaps[1].offset + c, after[1].bytes = gaps[1].bytes - c,
         \A i \in 2 .. k : after[i] = gaps[i]
  PROVE  /\ Sorted(after, n)
         /\ \A x \in gaps[1].offset .. gaps[1].offset + c - 1 : InGap(x, gaps) /\ ~InGap(x, after)
         /\ \A x \in Nat : x \notin gaps[1].offset .. gaps[1].offset + c - 1 =>
                             (InGap(x, after) <=> InGap(x, gaps))
         /\ gaps[1].offset < after[1].offset
         /\ gaps[1].offset + c <= n
<1>0. /\ 1 \in DOMAIN gaps /\ gaps[1].offset \in Nat /\ gaps[1].bytes \in Nat
      /\ gaps[1].offset + gaps[1].bytes <= n
  BY DEF Sorted
<1>1. ASSUME NEW i \in 2 .. k
      PROVE  /\ gaps[1].offset + gaps[1].bytes <= gaps[i].offset /\ after[i] = gaps[i]
             /\ gaps[i].offset \in Nat /\ gaps[i].bytes \in Nat /\ i \in DOMAIN gaps
  <2>1. i \in DOMAIN gaps /\ 1 < i
    OBVIOUS
  <2> QED BY <1>0, <2>1 DEF Sorted
<1>2. \A i \in 1 .. k : i = 1 \/ i \in 2 .. k
  OBVIOUS
<1>3. ASSUME NEW i \in 1 .. k
      PROVE  /\ after[i].offset \in Nat /\ after[i].bytes \in Nat
             /\ after[i].offset + after[i].bytes = gaps[i].offset + gaps[i].bytes
             /\ gaps[i].offset <= after[i].offset
  <2>1. CASE i = 1
    BY <1>0, <2>1
  <2>2. CASE i \in 2 .. k
    BY <1>1, <2>2
  <2> QED BY <1>2, <2>1, <2>2
<1>4. Sorted(after, n)
  <2>1. ASSUME NEW i \in DOMAIN after, NEW j \in DOMAIN after, i < j
        PROVE  after[i].offset + after[i].bytes <= after[j].offset
    <3>0. i \in DOMAIN gaps /\ j \in DOMAIN gaps
      OBVIOUS
    <3>1. gaps[i].offset + gaps[i].bytes <= gaps[j].offset
      BY <2>1, <3>0 DEF Sorted
    <3>2. gaps[j].offset \in Nat
      BY <3>0 DEF Sorted
    <3>3. /\ after[i].offset + after[i].bytes = gaps[i].offset + gaps[i].bytes
          /\ gaps[j].offset <= after[j].offset /\ after[j].offset \in Nat
      BY <1>3
    <3>4. after[i].offset + after[i].bytes \in Nat
      BY <1>3
    <3> QED BY <3>1, <3>2, <3>3, <3>4
  <2>2. ASSUME NEW i \in DOMAIN after PROVE after[i].offset + after[i].bytes <= n
    <3>1. gaps[i].offset + gaps[i].bytes <= n
      BY DEF Sorted
    <3> QED BY <1>3, <3>1
  <2> QED BY <1>3, <2>1, <2>2 DEF Sorted
<1>5. ASSUME NEW x \in gaps[1].offset .. gaps[1].offset + c - 1, NEW i \in 1 .. k
      PROVE  ~(after[i].offset <= x)
  <2>1. CASE i = 1
    BY <1>0, <2>1
  <2>2. CASE i \in 2 .. k
    BY <1>0, <1>1, <2>2
  <2> QED BY <1>2, <2>1, <2>2
<1>6. ASSUME NEW x \in gaps[1].offset .. gaps[1].offset + c - 1
      PROVE  gaps[1].offset <= x /\ x < gaps[1].offset + gaps[1].bytes
  BY <1>0
<1>7. ASSUME NEW x \in Nat, x \notin gaps[1].offset .. gaps[1].offset + c - 1, NEW i \in 1 .. k
      PROVE  (after[i].offset <= x /\ x < after[i].offset + after[i].bytes)
               <=> (gaps[i].offset <= x /\ x < gaps[i].offset + gaps[i].bytes)
  <2>1. CASE i = 1
    BY <1>0, <1>7, <2>1
  <2>2. CASE i \in 2 .. k
    BY <1>1, <2>2
  <2> QED BY <1>2, <2>1, <2>2
<1>8. gaps[1].offset < after[1].offset /\ gaps[1].offset + c <= n
  BY <1>0
<1>9. ASSUME NEW x \in Nat, x \notin gaps[1].offset .. gaps[1].offset + c - 1
      PROVE  InGap(x, after) <=> InGap(x, gaps)
  BY <1>7, <1>9 DEF InGap
<1>10. ASSUME NEW x \in gaps[1].offset .. gaps[1].offset + c - 1
       PROVE  InGap(x, gaps) /\ ~InGap(x, after)
  BY <1>0, <1>5, <1>6 DEF InGap
<1> QED BY <1>4, <1>8, <1>9, <1>10

\* or is read as a whole.
LEMMA GapCloses ==
  ASSUME NEW n \in Nat, NEW c \in Nat, c >= 1,
         NEW gaps \in Seq(GapType), gaps # <<>>, Sorted(gaps, n), c = gaps[1].bytes
  PROVE  /\ Sorted(Tail(gaps), n)
         /\ \A x \in gaps[1].offset .. gaps[1].offset + c - 1 : InGap(x, gaps) /\ ~InGap(x, Tail(gaps))
         /\ \A x \in Nat : x \notin gaps[1].offset .. gaps[1].offset + c - 1 =>
                             (InGap(x, Tail(gaps)) <=> InGap(x, gaps))
         /\ 1 \in DOMAIN Tail(gaps) => gaps[1].offset < Tail(gaps)[1].offset
         /\ gaps[1].offset + c <= n
<1> DEFINE after == Tail(gaps)
<1>10. PICK k \in Nat : k = Len(gaps) - 1
  BY TailFacts
<1>11. DOMAIN gaps = 1 .. k + 1 /\ DOMAIN after = 1 .. k /\ \A i \in 1 .. k : after[i] = gaps[i + 1]
  BY <1>10, TailFacts
<1> HIDE DEF after
<1>0. /\ 1 \in DOMAIN gaps /\ gaps[1].offset \in Nat /\ gaps[1].bytes \in Nat
      /\ gaps[1].offset + gaps[1].bytes <= n
  BY <1>11 DEF Sorted
<1>9. c = gaps[1].bytes
  OBVIOUS
<1>1. ASSUME NEW i \in DOMAIN after
      PROVE  i + 1 \in DOMAIN gaps /\ after[i] = gaps[i + 1] /\ 1 < i + 1 /\ i \in Nat
  BY <1>11
<1>2. ASSUME NEW i \in DOMAIN after
      PROVE  /\ gaps[1].offset + gaps[1].bytes <= after[i].offset
             /\ after[i].offset \in Nat /\ after[i].bytes \in Nat
  BY <1>0, <1>1 DEF Sorted
<1>3. Sorted(after, n)
  <2>1. ASSUME NEW i \in DOMAIN after, NEW j \in DOMAIN after, i < j
        PROVE  after[i].offset + after[i].bytes <= after[j].offset
    <3>1. i + 1 < j + 1
      BY <1>1, <2>1
    <3> QED BY <1>1, <3>1 DEF Sorted
  <2> QED BY <1>1, <2>1 DEF Sorted
<1>4. ASSUME NEW x \in gaps[1].offset .. gaps[1].offset + c - 1, NEW i \in DOMAIN after
      PROVE  ~(after[i].offset <= x)
  BY <1>0, <1>2, <1>9
<1>5. ASSUME NEW x \in gaps[1].offset .. gaps[1].offset + c - 1
      PROVE  gaps[1].offset <= x /\ x < gaps[1].offset + gaps[1].bytes
  BY <1>0, <1>9
<1>6. ASSUME NEW x \in Nat, x \notin gaps[1].offset .. gaps[1].offset + c - 1
      PROVE  InGap(x, after) <=> InGap(x, gaps)
  <2>1. ~(gaps[1].offset <= x /\ x < gaps[1].offset + gaps[1].bytes)
    BY <1>0, <1>6, <1>9
  <2>2. ASSUME NEW i \in DOMAIN gaps, i # 1 PROVE i - 1 \in DOMAIN after /\ after[i - 1] = gaps[i]
    <3>1. i - 1 \in 1 .. k /\ (i - 1) + 1 = i
      BY <1>11, <2>2
    <3> QED BY <1>11, <3>1
  <2> QED BY <1>1, <2>1, <2>2 DEF InGap
<1>7. 1 \in DOMAIN after => gaps[1].offset < after[1].offset
  BY <1>0, <1>2
<1> QED BY <1>0, <1>3, <1>4, <1>5, <1>6, <1>7, <1>9 DEF InGap, after

\* A byte at each offset of a packet.
LEMMA BytesGrow ==
  ASSUME NEW bytes, bytes \subseteq (1 .. MaxDownloads) \X Bytes, NEW m \in Packets,
         \A b, c \in bytes : b[2] = c[2] => b = c,
         \A b \in bytes : b[2] \notin m.offset .. m.offset + m.count - 1
  PROVE  /\ \A b, c \in bytes \cup BytesOf(m) : b[2] = c[2] => b = c
         /\ \A x : (\E b \in bytes \cup BytesOf(m) : b[2] = x)
                     <=> (\E b \in bytes : b[2] = x) \/ x \in m.offset .. m.offset + m.count - 1
         /\ bytes \cup BytesOf(m) \subseteq (1 .. MaxDownloads) \X Bytes
<1>1. /\ \A b \in BytesOf(m) : b[1] = m.file /\ b[2] \in m.offset .. m.offset + m.count - 1
      /\ \A x \in m.offset .. m.offset + m.count - 1 : <<m.file, x>> \in BytesOf(m)
      /\ BytesOf(m) \subseteq (1 .. MaxDownloads) \X Bytes
  BY BytesOfPacket
<1>2. ASSUME NEW b \in bytes \cup BytesOf(m), NEW c \in bytes \cup BytesOf(m), b[2] = c[2]
      PROVE  b = c
  <2>1. CASE b \in bytes /\ c \in bytes
    BY <1>2, <2>1
  <2>2. CASE b \in BytesOf(m) /\ c \in BytesOf(m)
    <3>1. b = <<b[1], b[2]>> /\ c = <<c[1], c[2]>>
      BY <1>1, <2>2
    <3> QED BY <1>1, <1>2, <2>2, <3>1
  <2>3. CASE b \in bytes /\ c \in BytesOf(m)
    BY <1>1, <1>2, <2>3
  <2>4. CASE b \in BytesOf(m) /\ c \in bytes
    BY <1>1, <1>2, <2>4
  <2> QED BY <2>1, <2>2, <2>3, <2>4
<1>3. ASSUME NEW x \in m.offset .. m.offset + m.count - 1
      PROVE  \E b \in bytes \cup BytesOf(m) : b[2] = x
  <2>1. <<m.file, x>> \in BytesOf(m) /\ <<m.file, x>>[2] = x
    BY <1>1
  <2> QED BY <2>1
<1> QED BY <1>1, <1>2, <1>3

\* A packet of the burst, from the offset expected or from a later one.
LEMMA BurstCovers ==
  ASSUME NEW bytes, bytes \subseteq (1 .. MaxDownloads) \X Bytes, NEW gaps \in Seq(GapType),
         NEW n \in 0 .. Size, NEW m \in Packets, n <= m.offset, Covers(n, bytes, gaps)
  PROVE  LET after == IF m.offset > n
                      THEN Append(gaps, [offset |-> n, bytes |-> m.offset - n]) ELSE gaps IN
         /\ Covers(m.offset + m.count, bytes \cup BytesOf(m), after)
         /\ after \in Seq(GapType)
         /\ \A b \in bytes : b[2] \notin m.offset .. m.offset + m.count - 1
<1> DEFINE after == IF m.offset > n
                    THEN Append(gaps, [offset |-> n, bytes |-> m.offset - n]) ELSE gaps
<1>0. /\ m.offset \in Nat /\ m.count \in Nat /\ m.count >= 1 /\ m.offset + m.count <= Size
      /\ n \in Nat /\ Size \in Nat /\ m.offset + m.count \in Nat
  BY PacketFields, ConstantsAssumption
<1>1. /\ \A b, c \in bytes : b[2] = c[2] => b = c
      /\ \A b \in bytes : b[2] \in 0 .. n - 1
      /\ Sorted(gaps, n)
      /\ \A x \in 0 .. n - 1 : (\E b \in bytes : b[2] = x) <=> ~InGap(x, gaps)
  BY <1>0, CoversParts
<1>2. \A b \in bytes : b[2] \notin m.offset .. m.offset + m.count - 1
  BY <1>0, <1>1
<1>3. /\ \A b, c \in bytes \cup BytesOf(m) : b[2] = c[2] => b = c
      /\ \A x : (\E b \in bytes \cup BytesOf(m) : b[2] = x)
                  <=> (\E b \in bytes : b[2] = x) \/ x \in m.offset .. m.offset + m.count - 1
      /\ bytes \cup BytesOf(m) \subseteq (1 .. MaxDownloads) \X Bytes
  BY <1>1, <1>2, BytesGrow
<1>4. /\ after \in Seq(GapType) /\ Sorted(after, m.offset + m.count)
      /\ \A x \in 0 .. n - 1 : InGap(x, after) <=> InGap(x, gaps)
      /\ \A x \in n .. m.offset - 1 : InGap(x, after)
      /\ \A x \in Nat : x >= m.offset => ~InGap(x, after)
  <2>1. CASE m.offset > n
    <3> DEFINE gap == [offset |-> n, bytes |-> m.offset - n]
    <3>1. gap \in GapType /\ gap.offset = n /\ gap.bytes = m.offset - n
      BY <1>0, <2>1 DEF GapType, Bytes
    <3> HIDE DEF gap
    <3>2. after = Append(gaps, gap)
      BY <2>1 DEF gap
    <3> HIDE DEF after
    <3>3. /\ after \in Seq(GapType) /\ Len(gaps) \in Nat
          /\ DOMAIN gaps = 1 .. Len(gaps) /\ DOMAIN after = 1 .. Len(gaps) + 1
          /\ \A i \in DOMAIN gaps : after[i] = gaps[i]
          /\ after[Len(gaps) + 1] = gap
      BY <3>1, <3>2, AppendFacts
    <3>4. PICK k \in Nat, o \in Nat, p \in Nat : k = Len(gaps) /\ o = m.offset /\ p = m.offset + m.count
      BY <1>0, <3>3
    <3>5. n < o /\ o <= p /\ DOMAIN gaps = 1 .. k /\ DOMAIN after = 1 .. k + 1
      BY <1>0, <2>1, <3>3, <3>4
    <3>6. /\ \A i \in 1 .. k : after[i] = gaps[i]
          /\ after[k + 1].offset = n /\ after[k + 1].bytes = o - n
      BY <3>1, <3>3, <3>4
    <3>7. /\ Sorted(after, p)
          /\ \A x \in 0 .. n - 1 : InGap(x, after) <=> InGap(x, gaps)
          /\ \A x \in n .. o - 1 : InGap(x, after)
          /\ \A x \in Nat : x >= o => ~InGap(x, after)
      BY <1>0, <1>1, <3>5, <3>6, GapsGrow
    <3> QED BY <3>3, <3>4, <3>7
  <2>2. CASE m.offset = n
    <3>1. after = gaps
      BY <1>0, <2>2
    <3>2. Sorted(gaps, m.offset + m.count)
      <4>1. ASSUME NEW i \in DOMAIN gaps PROVE gaps[i].offset + gaps[i].bytes <= m.offset + m.count
        <5>1. gaps[i].offset + gaps[i].bytes <= n /\ gaps[i].offset + gaps[i].bytes \in Nat
          BY <1>1 DEF Sorted
        <5> QED BY <1>0, <2>2, <5>1
      <4> QED BY <1>1, <4>1 DEF Sorted
    <3>3. ASSUME NEW x \in Nat, x >= m.offset PROVE ~InGap(x, gaps)
      BY <1>0, <1>1, <2>2, <3>3 DEF Sorted, InGap
    <3>4. n .. m.offset - 1 = {}
      BY <1>0, <2>2
    <3> QED BY <3>1, <3>2, <3>3, <3>4
  <2> QED BY <1>0, <2>1, <2>2
<1> HIDE DEF after
<1>5. \A b \in bytes \cup BytesOf(m) : b[2] \in 0 .. m.offset + m.count - 1
  <2> SUFFICES ASSUME NEW b \in bytes \cup BytesOf(m) PROVE b[2] \in 0 .. m.offset + m.count - 1
    OBVIOUS
  <2>1. (\E d \in bytes : d[2] = b[2]) \/ b[2] \in m.offset .. m.offset + m.count - 1
    BY <1>3
  <2>2. b[2] \in 0 .. n - 1 \/ b[2] \in m.offset .. m.offset + m.count - 1
    BY <1>1, <2>1
  <2> QED BY <1>0, <2>2
<1>6. ASSUME NEW x \in 0 .. m.offset + m.count - 1
      PROVE  (\E b \in bytes \cup BytesOf(m) : b[2] = x) <=> ~InGap(x, after)
  <2>1. CASE x \in 0 .. n - 1
    <3>1. x \notin m.offset .. m.offset + m.count - 1
      BY <1>0, <2>1
    <3> QED BY <1>1, <1>3, <1>4, <2>1, <3>1
  <2>2. CASE x \in n .. m.offset - 1
    <3>1. x \notin m.offset .. m.offset + m.count - 1 /\ x \notin 0 .. n - 1
      BY <1>0, <2>2
    <3> QED BY <1>1, <1>3, <1>4, <2>2, <3>1
  <2>3. CASE x \in m.offset .. m.offset + m.count - 1
    <3>1. x \in Nat /\ x >= m.offset
      BY <1>0, <2>3
    <3> QED BY <1>3, <1>4, <2>3, <3>1
  <2> QED BY <1>0, <2>1, <2>2, <2>3
<1>7. Covers(m.offset + m.count, bytes \cup BytesOf(m), after)
  <2> DEFINE p == m.offset + m.count
             all == bytes \cup BytesOf(m)
  <2>1. /\ p \in Nat /\ all \subseteq (1 .. MaxDownloads) \X Bytes /\ after \in Seq(GapType)
        /\ \A b, c \in all : b[2] = c[2] => b = c
        /\ \A b \in all : b[2] \in 0 .. p - 1
        /\ Sorted(after, p)
        /\ \A x \in 0 .. p - 1 : (\E b \in all : b[2] = x) <=> ~InGap(x, after)
    BY <1>0, <1>3, <1>4, <1>5, <1>6
  <2> HIDE DEF p, all
  <2>2. Covers(p, all, after)
    BY <2>1, CoversParts
  <2> QED BY <2>2 DEF p, all
<1> QED BY <1>2, <1>4, <1>7 DEF after

\* A read of the first gap, or of what comes first of it.
LEMMA FillCovers ==
  ASSUME NEW bytes, bytes \subseteq (1 .. MaxDownloads) \X Bytes, NEW gaps \in Seq(GapType),
         NEW n \in 0 .. Size, NEW m \in Packets, Covers(n, bytes, gaps),
         gaps # <<>>, m.offset = gaps[1].offset, m.count <= gaps[1].bytes
  PROVE  LET after == IF m.count < gaps[1].bytes
                      THEN [gaps EXCEPT ![1] = [offset |-> @.offset + m.count, bytes |-> @.bytes - m.count]]
                      ELSE Tail(gaps) IN
         /\ Covers(n, bytes \cup BytesOf(m), after)
         /\ after \in Seq(GapType)
         /\ \A b \in bytes : b[2] \notin m.offset .. m.offset + m.count - 1
         /\ after # <<>> => m.offset < after[1].offset
<1> DEFINE after == IF m.count < gaps[1].bytes
                    THEN [gaps EXCEPT ![1] = [offset |-> @.offset + m.count, bytes |-> @.bytes - m.count]]
                    ELSE Tail(gaps)
<1>0. /\ m.offset \in Nat /\ m.count \in Nat /\ m.count >= 1 /\ m.offset + m.count <= Size
      /\ n \in Nat /\ n <= Size /\ Size \in Nat
  BY PacketFields, ConstantsAssumption
<1>1. /\ \A b, c \in bytes : b[2] = c[2] => b = c
      /\ \A b \in bytes : b[2] \in 0 .. n - 1
      /\ Sorted(gaps, n)
      /\ \A x \in 0 .. n - 1 : (\E b \in bytes : b[2] = x) <=> ~InGap(x, gaps)
  BY <1>0, CoversParts
<1>2. PICK k \in Nat : k = Len(gaps) /\ k >= 1 /\ DOMAIN gaps = 1 .. k /\ 1 \in DOMAIN gaps
  BY GapFields, TailFacts
<1>3. /\ gaps[1].offset \in Nat /\ gaps[1].bytes \in Nat /\ gaps[1].bytes >= 1
      /\ gaps[1].offset + gaps[1].bytes <= n
  BY <1>1, <1>2, GapFields DEF Sorted
<1>4. /\ after \in Seq(GapType) /\ Sorted(after, n)
      /\ \A x \in m.offset .. m.offset + m.count - 1 : InGap(x, gaps) /\ ~InGap(x, after)
      /\ \A x \in Nat : x \notin m.offset .. m.offset + m.count - 1 => (InGap(x, after) <=> InGap(x, gaps))
      /\ after # <<>> => m.offset < after[1].offset
      /\ m.offset + m.count <= n
  <2>1. CASE m.count < gaps[1].bytes
    <3> DEFINE rest == [offset |-> gaps[1].offset + m.count, bytes |-> gaps[1].bytes - m.count]
    <3>1. rest \in GapType /\ rest.offset = gaps[1].offset + m.count /\ rest.bytes = gaps[1].bytes - m.count
      <4>1. gaps[1].offset + m.count \in 0 .. Size - 1 /\ gaps[1].bytes - m.count \in 1 .. Size
        BY <1>0, <1>3, <2>1
      <4> QED BY <4>1 DEF GapType, Bytes
    <3>2. after = [gaps EXCEPT ![1] = rest]
      BY <2>1
    <3> HIDE DEF rest, after
    <3>3. 1 \in 1 .. Len(gaps)
      BY <1>2
    <3>4. /\ after \in Seq(GapType) /\ Len(after) = Len(gaps)
          /\ \A j \in 1 .. Len(gaps) : after[j] = IF j = 1 THEN rest ELSE gaps[j]
      BY <3>1, <3>2, <3>3, ExceptSeq
    <3>5. DOMAIN after = 1 .. k /\ \A i \in 2 .. k : after[i] = gaps[i]
      BY <1>2, <3>4, LenProperties
    <3>6. after[1] = rest
      BY <1>2, <3>4
    <3>7. PICK c \in Nat : c = m.count
      BY <1>0
    <3>8. /\ c >= 1 /\ c < gaps[1].bytes
          /\ after[1].offset = gaps[1].offset + c /\ after[1].bytes = gaps[1].bytes - c
      BY <1>0, <2>1, <3>1, <3>6, <3>7
    <3>9. /\ Sorted(after, n)
          /\ \A x \in gaps[1].offset .. gaps[1].offset + c - 1 : InGap(x, gaps) /\ ~InGap(x, after)
          /\ \A x \in Nat : x \notin gaps[1].offset .. gaps[1].offset + c - 1 =>
                              (InGap(x, after) <=> InGap(x, gaps))
          /\ gaps[1].offset < after[1].offset
          /\ gaps[1].offset + c <= n
      BY <1>0, <1>1, <1>2, <3>5, <3>8, GapShrinks
    <3> QED BY <3>4, <3>7, <3>9
  <2>2. CASE m.count = gaps[1].bytes
    <3>1. after = Tail(gaps)
      BY <1>0, <2>2
    <3> HIDE DEF after
    <3>2. /\ after \in Seq(GapType) /\ DOMAIN after = 1 .. k - 1
          /\ \A i \in 1 .. k - 1 : after[i] = gaps[i + 1]
      BY <1>2, <3>1, TailFacts
    <3>7. PICK c \in Nat : c = m.count
      BY <1>0
    <3>8. c >= 1 /\ c = gaps[1].bytes
      BY <1>0, <2>2, <3>7
    <3>3. /\ Sorted(after, n)
          /\ \A x \in gaps[1].offset .. gaps[1].offset + c - 1 : InGap(x, gaps) /\ ~InGap(x, after)
          /\ \A x \in Nat : x \notin gaps[1].offset .. gaps[1].offset + c - 1 =>
                              (InGap(x, after) <=> InGap(x, gaps))
          /\ 1 \in DOMAIN after => gaps[1].offset < after[1].offset
          /\ gaps[1].offset + c <= n
      BY <1>0, <1>1, <3>1, <3>8, GapCloses
    <3>4. after # <<>> => 1 \in DOMAIN after
      BY <3>2, TailFacts
    <3>6. after # <<>> => m.offset < after[1].offset
      BY <3>3, <3>4
    <3> QED BY <3>2, <3>3, <3>6, <3>7
  <2>3. m.count < gaps[1].bytes \/ m.count = gaps[1].bytes
    BY <1>0, <1>3
  <2> QED BY <2>1, <2>2, <2>3
<1> HIDE DEF after
<1>5. \A b \in bytes : b[2] \notin m.offset .. m.offset + m.count - 1
  BY <1>1, <1>4
<1>6. /\ \A b, c \in bytes \cup BytesOf(m) : b[2] = c[2] => b = c
      /\ \A x : (\E b \in bytes \cup BytesOf(m) : b[2] = x)
                  <=> (\E b \in bytes : b[2] = x) \/ x \in m.offset .. m.offset + m.count - 1
      /\ bytes \cup BytesOf(m) \subseteq (1 .. MaxDownloads) \X Bytes
  BY <1>1, <1>5, BytesGrow
<1>7. \A b \in bytes \cup BytesOf(m) : b[2] \in 0 .. n - 1
  <2> SUFFICES ASSUME NEW b \in bytes \cup BytesOf(m) PROVE b[2] \in 0 .. n - 1
    OBVIOUS
  <2>1. (\E d \in bytes : d[2] = b[2]) \/ b[2] \in m.offset .. m.offset + m.count - 1
    BY <1>6
  <2>2. b[2] \in 0 .. n - 1 \/ b[2] \in m.offset .. m.offset + m.count - 1
    BY <1>1, <2>1
  <2>3. m.offset + m.count <= n
    BY <1>4
  <2> QED BY <1>0, <2>2, <2>3
<1>8. ASSUME NEW x \in 0 .. n - 1
      PROVE  (\E b \in bytes \cup BytesOf(m) : b[2] = x) <=> ~InGap(x, after)
  <2>1. CASE x \in m.offset .. m.offset + m.count - 1
    BY <1>4, <1>6, <2>1
  <2>2. CASE x \notin m.offset .. m.offset + m.count - 1
    <3>1. x \in Nat
      OBVIOUS
    <3>2. InGap(x, after) <=> InGap(x, gaps)
      BY <1>4, <2>2, <3>1
    <3> QED BY <1>1, <1>6, <2>2, <3>2
  <2> QED BY <2>1, <2>2
<1>9. Covers(n, bytes \cup BytesOf(m), after)
  BY <1>0, <1>4, <1>6, <1>7, <1>8, CoversParts
<1> QED BY <1>4, <1>5, <1>9 DEF after

-----------------------------------------------------------------------------
(* Lemmas about the messages of a session.                                 *)

\* What is left of a channel once its first messages are gone.
Rest(c, d) ==
  \E k \in Nat : Len(d) = Len(c) - k /\ \A i \in DOMAIN d : i + k \in DOMAIN c /\ d[i] = c[i + k]

LEMMA RestFacts ==
  ASSUME NEW S, NEW c \in Seq(S)
  PROVE  /\ Rest(c, c)
         /\ <<>> \in Seq(S) /\ Rest(c, <<>>)
         /\ c # <<>> => Tail(c) \in Seq(S) /\ Rest(c, Tail(c))
         /\ \A n \in DOMAIN c : SubSeq(c, n + 1, Len(c)) \in Seq(S) /\ Rest(c, SubSeq(c, n + 1, Len(c)))
<1>1. Len(c) \in Nat /\ DOMAIN c = 1 .. Len(c) /\ \A i \in 1 .. Len(c) : c[i] \in S
  BY LenProperties, ElementOfSeq
<1>2. Rest(c, c)
  <2>1. Len(c) = Len(c) - 0 /\ \A i \in DOMAIN c : i + 0 \in DOMAIN c /\ c[i] = c[i + 0]
    BY <1>1
  <2> QED BY <2>1 DEF Rest
<1>3. <<>> \in Seq(S) /\ Rest(c, <<>>)
  <2>1. <<>> \in Seq(S) /\ Len(<<>>) = Len(c) - Len(c) /\ DOMAIN <<>> = {}
    BY <1>1
  <2> QED BY <1>1, <2>1 DEF Rest
<1>4. ASSUME c # <<>> PROVE Tail(c) \in Seq(S) /\ Rest(c, Tail(c))
  BY <1>4, TailFacts DEF Rest
<1>5. ASSUME NEW n \in DOMAIN c
      PROVE  SubSeq(c, n + 1, Len(c)) \in Seq(S) /\ Rest(c, SubSeq(c, n + 1, Len(c)))
  <2>1. PICK l \in Nat : l = Len(c) /\ n \in 1 .. l
    BY <1>1
  <2> DEFINE d == SubSeq(c, n + 1, l)
  <2>2. \A i \in n + 1 .. l : c[i] \in S
    BY <1>1, <2>1
  <2>3. /\ d \in Seq(S) /\ Len(d) = IF n + 1 <= l THEN l - (n + 1) + 1 ELSE 0
        /\ \A i \in 1 .. l - (n + 1) + 1 : d[i] = c[n + 1 + i - 1]
    BY <2>1, <2>2, SubSeqProperties
  <2> HIDE DEF d
  <2>4. Len(d) = l - n
    BY <2>1, <2>3
  <2>5. DOMAIN d = 1 .. l - n
    BY <2>3, <2>4, LenProperties
  <2>6. ASSUME NEW i \in DOMAIN d PROVE i + n \in DOMAIN c /\ d[i] = c[i + n]
    <3>1. i \in Int /\ i + n \in 1 .. l /\ n + 1 + i - 1 = i + n /\ i \in 1 .. l - (n + 1) + 1
      BY <2>1, <2>5
    <3> QED BY <1>1, <2>1, <2>3, <3>1
  <2>7. Rest(c, d)
    BY <2>1, <2>4, <2>6 DEF Rest
  <2> QED BY <2>1, <2>3, <2>7 DEF d
<1> QED BY <1>2, <1>3, <1>4, <1>5

\* What is left was there, and is the last if it was.
LEMMA RestParts ==
  ASSUME NEW S, NEW c \in Seq(S), NEW d \in Seq(S), Rest(c, d)
  PROVE  /\ \A i \in DOMAIN d : \E j \in DOMAIN c :
              j >= i /\ d[i] = c[j] /\ (j = Len(c) => i = Len(d)) /\ (j = 1 => i = 1)
         /\ c = <<>> => d = <<>>
<1>1. PICK k \in Nat : Len(d) = Len(c) - k /\ \A i \in DOMAIN d : i + k \in DOMAIN c /\ d[i] = c[i + k]
  BY DEF Rest
<1>2. Len(c) \in Nat /\ Len(d) \in Nat /\ DOMAIN d = 1 .. Len(d)
  BY LenProperties
<1>3. ASSUME NEW i \in DOMAIN d
      PROVE  \E j \in DOMAIN c :
               j >= i /\ d[i] = c[j] /\ (j = Len(c) => i = Len(d)) /\ (j = 1 => i = 1)
  <2>1. i \in Int /\ i >= 1
    BY <1>2
  <2>2. i + k >= i /\ (i + k = Len(c) => i = Len(d)) /\ (i + k = 1 => i = 1)
    BY <1>1, <1>2, <2>1
  <2> QED BY <1>1, <2>2
<1>4. c = <<>> => d = <<>>
  BY <1>1, <1>2, EmptySeq
<1> QED BY <1>3, <1>4

LEMMA InFlight ==
  ASSUME Typed
  PROVE  /\ toVehicle \in Seq(Asked) /\ toStation \in Seq(Replied)
         /\ Len(toVehicle) \in Nat /\ DOMAIN toVehicle = 1 .. Len(toVehicle)
         /\ Len(toStation) \in Nat /\ DOMAIN toStation = 1 .. Len(toStation)
         /\ \A i \in DOMAIN toVehicle : toVehicle[i] \in Asked /\ toVehicle[i].seq \in Int
         /\ \A i \in DOMAIN toStation : toStation[i] \in Replied /\ toStation[i].seq \in Int
<1>1. toVehicle \in Seq(Asked) /\ toStation \in Seq(Replied)
  BY DEF Typed
<1>2. /\ Len(toVehicle) \in Nat /\ DOMAIN toVehicle = 1 .. Len(toVehicle)
      /\ Len(toStation) \in Nat /\ DOMAIN toStation = 1 .. Len(toStation)
  BY <1>1, LenProperties
<1>3. \A i \in DOMAIN toVehicle : toVehicle[i] \in Asked
  BY <1>1, <1>2, ElementOfSeq
<1>4. \A i \in DOMAIN toStation : toStation[i] \in Replied
  BY <1>1, <1>2, ElementOfSeq
<1>5. (\A m \in Asked : m.seq \in Int) /\ (\A m \in Replied : m.seq \in Int)
  BY AskedFields, RepliedFields, ConstantsAssumption DEF Numbers
<1> QED BY <1>1, <1>2, <1>3, <1>4, <1>5

\* Messages that go, on either channel, leave the session as it is.
LEMMA LossKeepsSession ==
  ASSUME Typed, Session, toVehicle' \in Seq(Asked), toStation' \in Seq(Replied),
         Rest(toVehicle, toVehicle'), Rest(toStation, toStation'),
         UNCHANGED <<file, phase, expectedSeq, cancels, missing, opened, stream>>
  PROVE  Session'
<1>1. toVehicle \in Seq(Asked) /\ toStation \in Seq(Replied)
  BY DEF Typed
<1>2. /\ \A i \in DOMAIN toVehicle' : \E j \in DOMAIN toVehicle :
            toVehicle'[i] = toVehicle[j] /\ (j = Len(toVehicle) => i = Len(toVehicle'))
      /\ toVehicle = <<>> => toVehicle' = <<>>
      /\ \A i \in DOMAIN toStation' : \E j \in DOMAIN toStation :
            /\ toStation'[i] = toStation[j] /\ (j = Len(toStation) => i = Len(toStation'))
            /\ j = 1 => i = 1
  BY <1>1, RestParts
<1>3. OpensAreNear'
  BY <1>2 DEF Session, OpensAreNear, Back, Reach
<1>4. phase = "Open" => Opening'
  BY <1>2 DEF Session, Opening
<1>5. phase \in {"Burst", "Fill"} => Opened'
  BY <1>2 DEF Session, Opened
<1>6. phase = "Burst" => NoReads'
  BY <1>2 DEF Session, NoReads
<1>7. phase = "Fill" => ReadsFit'
  BY <1>2 DEF Session, ReadsFit
<1> QED BY <1>3, <1>4, <1>5, <1>6, <1>7 DEF Session

\* Opens are as near as before, and as far as the numbers went on.
LEMMA NearStays ==
  ASSUME Typed, Typed', OpensAreNear, NEW n \in Nat, expectedSeq' = Forward(expectedSeq, n),
         Reach' \in Int, Reach + n <= Reach', 0 <= Reach',
         \A i \in DOMAIN toVehicle' : toVehicle'[i].request.op = "Open" =>
           \/ \E j \in DOMAIN toVehicle : toVehicle[j] = toVehicle'[i]
           \/ Forward(toVehicle'[i].seq, 1) = expectedSeq',
         \A i \in DOMAIN toStation' : toStation'[i].op = "Open" =>
           \/ \E j \in DOMAIN toStation : toStation[j] = toStation'[i]
           \/ \E j \in DOMAIN toVehicle : /\ toVehicle[j].request.op = "Open"
                                          /\ toStation'[i].seq = Forward(toVehicle[j].seq, 1)
  PROVE  OpensAreNear'
<1>0. Reach \in Int /\ expectedSeq \in Int /\ expectedSeq' \in Int
  BY ConstantsAssumption DEF Typed, Reach, Numbers
<1>1. ASSUME NEW s \in Int, (expectedSeq - s) % SeqMod <= Reach
      PROVE  (expectedSeq' - s) % SeqMod <= Reach'
  <2>1. (expectedSeq' - s) % SeqMod <= ((expectedSeq - s) % SeqMod) + n
    BY <1>0, ForwardBack
  <2>2. (expectedSeq' - s) % SeqMod \in Int /\ (expectedSeq - s) % SeqMod \in Int
    BY <1>0, DivMod, ConstantsAssumption DEF Numbers
  <2> QED BY <1>0, <1>1, <2>1, <2>2
<1>2. ASSUME NEW s, s = expectedSeq' PROVE (expectedSeq' - s) % SeqMod <= Reach'
  <2>1. 0 = SeqMod * 0 + 0 /\ 0 \in Numbers
    BY ConstantsAssumption DEF Numbers
  <2>2. 0 % SeqMod = 0
    BY <2>1, Remainder
  <2>3. expectedSeq' - s = 0
    BY <1>0, <1>2
  <2> QED BY <2>2, <2>3
<1>3. ASSUME NEW i \in DOMAIN toVehicle PROVE toVehicle[i].seq \in Int
  BY InFlight
<1>4. ASSUME NEW i \in DOMAIN toStation PROVE toStation[i].seq \in Int
  BY InFlight
<1>5. ASSUME NEW i \in DOMAIN toVehicle', toVehicle'[i].request.op = "Open"
      PROVE  (expectedSeq' - Forward(toVehicle'[i].seq, 1)) % SeqMod <= Reach'
  <2>1. CASE \E j \in DOMAIN toVehicle : toVehicle[j] = toVehicle'[i]
    <3>1. PICK j \in DOMAIN toVehicle : toVehicle[j] = toVehicle'[i]
      BY <2>1
    <3>2. Forward(toVehicle[j].seq, 1) \in Int
      <4>1. Forward(toVehicle[j].seq, 1) \in Numbers
        BY <1>3, ForwardType
      <4> QED BY <4>1, ConstantsAssumption DEF Numbers
    <3>3. (expectedSeq - Forward(toVehicle[j].seq, 1)) % SeqMod <= Reach
      BY <1>5, <3>1 DEF OpensAreNear, Back
    <3> QED BY <1>1, <3>1, <3>2, <3>3
  <2>2. CASE Forward(toVehicle'[i].seq, 1) = expectedSeq'
    BY <1>2, <2>2
  <2> QED BY <1>5, <2>1, <2>2
<1>6. ASSUME NEW i \in DOMAIN toStation', toStation'[i].op = "Open"
      PROVE  (expectedSeq' - toStation'[i].seq) % SeqMod <= Reach'
  <2>1. CASE \E j \in DOMAIN toStation : toStation[j] = toStation'[i]
    <3>1. PICK j \in DOMAIN toStation : toStation[j] = toStation'[i]
      BY <2>1
    <3>2. (expectedSeq - toStation[j].seq) % SeqMod <= Reach
      BY <1>6, <3>1 DEF OpensAreNear, Back
    <3> QED BY <1>1, <1>4, <3>1, <3>2
  <2>2. CASE \E j \in DOMAIN toVehicle : /\ toVehicle[j].request.op = "Open"
                                         /\ toStation'[i].seq = Forward(toVehicle[j].seq, 1)
    <3>1. PICK j \in DOMAIN toVehicle : /\ toVehicle[j].request.op = "Open"
                                        /\ toStation'[i].seq = Forward(toVehicle[j].seq, 1)
      BY <2>2
    <3>2. Forward(toVehicle[j].seq, 1) \in Int
      <4>1. Forward(toVehicle[j].seq, 1) \in Numbers
        BY <1>3, ForwardType
      <4> QED BY <4>1, ConstantsAssumption DEF Numbers
    <3>3. (expectedSeq - Forward(toVehicle[j].seq, 1)) % SeqMod <= Reach
      BY <3>1 DEF OpensAreNear, Back
    <3> QED BY <1>1, <3>1, <3>2, <3>3
  <2> QED BY <1>6, <2>1, <2>2
<1> QED BY <1>5, <1>6 DEF OpensAreNear, Back

\* Once what comes is no answer to an open, no open is in flight.
LEMMA NoOpensLeft ==
  ASSUME Typed, Opened, toStation # <<>>, Head(toStation).op # "Open"
  PROVE  /\ \A i \in DOMAIN toVehicle : toVehicle[i].request.op # "Open"
         /\ \A i \in DOMAIN toStation : toStation[i].op # "Open"
<1>1. toStation \in Seq(Replied) /\ Head(toStation) = toStation[1]
  BY TailFacts DEF Typed
<1> QED BY <1>1 DEF Opened

\* The session goes on: the file stays open.
LEMMA OpenedGoesOn ==
  ASSUME Typed, Opened, \A i \in DOMAIN toStation : toStation[i].op # "Open",
         toStation' \in Seq(Replied), Rest(toStation, toStation'), UNCHANGED <<file, opened>>,
         \A i \in DOMAIN toVehicle' : toVehicle'[i].request.op \in {"Burst", "Read"}
  PROVE  Opened' /\ OpensAreNear'
<1>1. toStation \in Seq(Replied)
  BY DEF Typed
<1>2. \A i \in DOMAIN toStation' : \E j \in DOMAIN toStation : toStation'[i] = toStation[j]
  BY <1>1, RestParts
<1> QED BY <1>2 DEF Opened, OpensAreNear

\* A step that leaves the bytes alone, and begins no download and no reads.
LEMMA AccountedStays ==
  ASSUME Accounted, UNCHANGED <<file, written, got, missing>>,
         \/ phase' \in {"Idle", "Reset", "Terminate"}
         \/ phase' = phase /\ UNCHANGED expectedOffset
         \/ phase = "Open" /\ phase' = "Burst" /\ UNCHANGED expectedOffset
  PROVE  Accounted'
BY DEF Accounted, Covers

\* As many bytes of a file as it has are the file.
LEMMA AllBytes ==
  ASSUME NEW f \in 1 .. MaxDownloads, NEW bytes, bytes \subseteq (1 .. MaxDownloads) \X Bytes,
         \A b \in bytes : b[1] = f
  PROVE  /\ Cardinality(bytes) \in Nat /\ Cardinality(bytes) <= Size
         /\ Cardinality(bytes) = Size <=> bytes = {f} \X Bytes
<1>1. bytes \subseteq {f} \X Bytes
  OBVIOUS
<1>2. IsFiniteSet({f} \X Bytes) /\ Cardinality({f} \X Bytes) = Size
  <2>1. IsFiniteSet(Bytes) /\ Cardinality(Bytes) = Size
    <3>1. 0 \in Int /\ Size - 1 \in Int /\ Size \in Nat
      BY ConstantsAssumption
    <3>2. IsFiniteSet(0 .. Size - 1)
          /\ Cardinality(0 .. Size - 1) = IF 0 > Size - 1 THEN 0 ELSE Size - 1 - 0 + 1
      BY <3>1, FS_Interval
    <3> QED BY <3>1, <3>2 DEF Bytes
  <2>2. IsFiniteSet({f}) /\ Cardinality({f}) = 1
    BY FS_Singleton
  <2>3. IsFiniteSet({f} \X Bytes) /\ Cardinality({f} \X Bytes) = Cardinality({f}) * Cardinality(Bytes)
    BY <2>1, <2>2, FS_Product
  <2>4. 1 * Size = Size
    BY ConstantsAssumption
  <2> QED BY <2>1, <2>2, <2>3, <2>4
<1>3. /\ IsFiniteSet(bytes) /\ Cardinality(bytes) <= Cardinality({f} \X Bytes)
      /\ Cardinality({f} \X Bytes) = Cardinality(bytes) => {f} \X Bytes = bytes
  BY <1>1, <1>2, FS_Subset
<1>4. Cardinality(bytes) \in Nat
  BY <1>3, FS_CardinalityType
<1> QED BY <1>2, <1>3, <1>4

-----------------------------------------------------------------------------
(* Each step keeps the invariant.                                          *)

\* The invariant holds of a station that fetched nothing yet: no request is on its way,
\* and nothing is received.
THEOREM Begins == Init => IInv
<1> SUFFICES ASSUME Init PROVE IInv
  OBVIOUS
<1> USE DEF Init
<1>1. Typed
  <2>1. {} \subseteq (1 .. MaxDownloads) \X Bytes /\ <<>> \in Seq(GapType)
        /\ <<>> \in Seq(Asked) /\ <<>> \in Seq(Replied)
    OBVIOUS
  <2>2. /\ checkSize \in BOOLEAN /\ due \in BOOLEAN
        /\ dead \in BOOLEAN /\ late \in BOOLEAN /\ refused \in BOOLEAN
    OBVIOUS
  <2>3. /\ file \in 0 .. MaxDownloads /\ expectedOffset \in 0 .. Size /\ retries \in 0 .. MaxRetry + 1
        /\ opened \in 0 .. MaxDownloads /\ faults \in 0 .. MaxFaults /\ cancels \in 0 .. MaxCancels
    BY ConstantsAssumption
  <2>4. expectedSeq \in Numbers
    BY ConstantsAssumption DEF Numbers
  <2>5. phase \in Phases /\ phase = "Idle" /\ result \in {"None", "Ok", "Failed"} /\ stream = NoStream
    BY DEF Phases
  <2>6. got = {} /\ missing = <<>> /\ toVehicle = <<>> /\ toStation = <<>>
    OBVIOUS
  <2> QED BY <2>1, <2>2, <2>3, <2>4, <2>5, <2>6 DEF Typed
<1>2. Accounted
  <2>1. 0 \in 0 .. Size /\ Covers(0, {}, <<>>)
    BY ConstantsAssumption DEF Covers
  <2> QED BY <2>1, FS_EmptySet DEF Accounted
<1>3. Session
  BY DEF Session, OpensAreNear
<1> QED BY <1>1, <1>2, <1>3 DEF IInv

\* The number after the next is as far back as can be.
LEMMA BackOfNext ==
  ASSUME NEW a \in Int, SeqMod > 2
  PROVE  (a - Forward(a, 2)) % SeqMod = SeqMod - 2
<1>0. SeqMod \in Nat
  BY ConstantsAssumption
<1>1. PICK q \in Int, r \in Numbers : r = Forward(a, 2) /\ a + 2 = SeqMod * q + r
  BY DivMod DEF Forward
<1>2. SeqMod * (q - 1) = SeqMod * q - SeqMod * 1
  BY <1>0, <1>1, Distribute
<1>3. a - r = SeqMod * (q - 1) + (SeqMod - 2)
  <2>1. SeqMod * q \in Int /\ SeqMod * 1 = SeqMod /\ r \in Int
    BY <1>0, <1>1 DEF Numbers
  <2> QED BY <1>0, <1>1, <1>2, <2>1
<1>4. SeqMod - 2 \in Numbers /\ q - 1 \in Int /\ a - r \in Int
  BY <1>0, <1>1 DEF Numbers
<1> QED BY <1>1, <1>3, <1>4, Remainder

LEMMA StartKeeps ==
  ASSUME Distinct, IInv, NEW check \in BOOLEAN, Start(check)
  PROVE  IInv'
<1> DEFINE request == [op |-> "Open", file |-> file + 1]
<1>0. Typed /\ Accounted /\ Session
  BY DEF IInv
<1>1. /\ request \in Requests /\ file \in 0 .. MaxDownloads - 1 /\ cancels \in 0 .. MaxCancels
      /\ request.op = "Open" /\ request.file = file + 1 /\ expectedSeq \in Int
      /\ file \in Int /\ cancels \in Int
  BY <1>0, ConstantsAssumption DEF Start, Typed, Requests, Numbers
<1>2. Send(expectedSeq, request)
  BY DEF Start, Ask
<1> HIDE DEF request
<1>3. /\ expectedSeq' = Forward(expectedSeq, 2) /\ expectedSeq' \in Numbers
      /\ toVehicle' \in Seq(Asked)
      /\ Len(toVehicle) \in Nat /\ DOMAIN toVehicle = 1 .. Len(toVehicle)
      /\ \/ toVehicle' = toVehicle
         \/ /\ DOMAIN toVehicle' = 1 .. Len(toVehicle) + 1 /\ Len(toVehicle') = Len(toVehicle) + 1
            /\ \A i \in DOMAIN toVehicle : toVehicle'[i] = toVehicle[i]
            /\ toVehicle'[Len(toVehicle) + 1] = [seq |-> Forward(expectedSeq, 1), request |-> request]
  BY <1>0, <1>1, <1>2, Sent
<1>4. Typed'
  BY <1>0, <1>1, <1>3, ConstantsAssumption DEF Start, Ask, Typed, Phases, vars, server
<1>5. Accounted'
  <2>1. 0 \in 0 .. Size /\ Covers(0, {}, <<>>)
    BY ConstantsAssumption DEF Covers
  <2> QED BY <2>1, FS_EmptySet DEF Accounted, Start
<1>6. Forward(Forward(expectedSeq, 1), 1) = expectedSeq'
  <2>1. Forward(Forward(expectedSeq, 1), 1) = Forward(expectedSeq, 1 + 1)
    BY <1>1, ForwardForward
  <2>2. 1 + 1 = 2
    OBVIOUS
  <2> QED BY <1>3, <2>1, <2>2
<1>7. \A i \in DOMAIN toVehicle' :
        \/ i \in DOMAIN toVehicle /\ toVehicle'[i] = toVehicle[i]
        \/ /\ i = Len(toVehicle') /\ toVehicle'[i].request = request
           /\ Forward(toVehicle'[i].seq, 1) = expectedSeq'
  BY <1>3, <1>6
<1>8. /\ UNCHANGED <<toStation, cancels>> /\ file' = file + 1 /\ phase = "Idle" /\ phase' = "Open"
  BY DEF Start
<1>9. OpensAreNear'
  <2>1. Reach' \in Int /\ Reach + 2 <= Reach' /\ 0 <= Reach'
    BY <1>1, <1>8 DEF Reach
  <2> QED BY <1>0, <1>3, <1>4, <1>7, <1>8, <2>1, NearStays DEF Session
<1>10. ASSUME NEW s, (expectedSeq - s) % SeqMod <= Reach PROVE s # expectedSeq'
  <2>1. SeqMod > 2 /\ Reach < SeqMod - 2
    BY <1>1, <1>8, ConstantsAssumption DEF Distinct, Reach
  <2>2. (expectedSeq - Forward(expectedSeq, 2)) % SeqMod = SeqMod - 2
    BY <1>1, <2>1, BackOfNext
  <2>3. Reach \in Int /\ SeqMod \in Int
    BY <1>1, <1>8, ConstantsAssumption DEF Reach
  <2> QED BY <1>3, <1>10, <2>1, <2>2, <2>3
<1>11. Opening'
  <2>1. ASSUME NEW i \in DOMAIN toVehicle', toVehicle'[i].request.op = "Open",
               Forward(toVehicle'[i].seq, 1) = expectedSeq'
        PROVE  i = Len(toVehicle') /\ toVehicle'[i].request.file = file'
    <3>1. CASE i \in DOMAIN toVehicle /\ toVehicle'[i] = toVehicle[i]
      BY <1>0, <1>10, <2>1, <3>1 DEF Session, OpensAreNear, Back
    <3>2. CASE i = Len(toVehicle') /\ toVehicle'[i].request = request
      BY <1>1, <1>8, <3>2
    <3> QED BY <1>7, <3>1, <3>2
  <2>2. ASSUME NEW i \in DOMAIN toStation', toStation'[i].op = "Open" PROVE toStation'[i].seq # expectedSeq'
    BY <1>0, <1>8, <1>10, <2>2 DEF Session, OpensAreNear, Back
  <2> QED BY <2>1, <2>2 DEF Opening
<1>12. Session'
  BY <1>8, <1>9, <1>11 DEF Session
<1>13. ~(phase' = "Reset" \/ result' = "Ok")
  BY DEF Start
<1> QED BY <1>4, <1>5, <1>12, <1>13 DEF IInv

LEMMA ReachGrows ==
  ASSUME Typed, Typed', phase' \in {"Idle", "Reset", "Terminate"}, file' = file, NEW n \in Nat,
         (n = 0 /\ cancels' \in {cancels, cancels + 1}) \/ (n = 2 /\ cancels' = cancels + 1)
  PROVE  Reach' \in Int /\ Reach + n <= Reach' /\ 0 <= Reach'
<1>1. PICK f \in Nat, c \in Nat, d \in Nat : f = file /\ c = cancels /\ d = cancels'
  BY DEF Typed
<1>2. Reach' = 4 * f + 2 * d
  BY <1>1 DEF Reach
<1>3. Reach \in Int /\ Reach <= 4 * f + 2 * c
  BY <1>1 DEF Reach
<1>4. (n = 0 /\ d = c) \/ (n = 0 /\ d = c + 1) \/ (n = 2 /\ d = c + 1)
  BY <1>1
<1>5. 2 * c + n <= 2 * d
  <2>1. c \in Int /\ d \in Int
    OBVIOUS
  <2> QED BY <1>4, <2>1
<1> QED BY <1>2, <1>3, <1>5

\* A download that ends, or has only to end its session.
LEMMA QuietKeeps ==
  ASSUME Typed, Typed', Accounted, Session, phase' \in {"Idle", "Reset", "Terminate"},
         UNCHANGED <<file, written, got, missing>>,
         NEW n \in Nat, expectedSeq' = Forward(expectedSeq, n),
         (n = 0 /\ cancels' \in {cancels, cancels + 1}) \/ (n = 2 /\ cancels' = cancels + 1),
         \A i \in DOMAIN toVehicle' : toVehicle'[i].request.op = "Open" =>
           \E j \in DOMAIN toVehicle : toVehicle[j] = toVehicle'[i],
         Rest(toStation, toStation')
  PROVE  Accounted' /\ Session'
<1>1. Accounted'
  BY AccountedStays
<1>2. \A i \in DOMAIN toStation' : \E j \in DOMAIN toStation : toStation[j] = toStation'[i]
  <2>1. toStation \in Seq(Replied) /\ toStation' \in Seq(Replied)
    BY DEF Typed
  <2> QED BY <2>1, RestParts
<1>3. Reach' \in Int /\ Reach + n <= Reach' /\ 0 <= Reach'
  BY ReachGrows
<1>4. OpensAreNear
  BY DEF Session
<1>5. OpensAreNear'
  BY <1>2, <1>3, <1>4, NearStays
<1> QED BY <1>1, <1>5 DEF Session

\* A request made again, or none, while the session goes on.
LEMMA AgainKeeps ==
  ASSUME Typed, Typed', Accounted, Session, phase \in {"Burst", "Fill"},
         UNCHANGED <<file, phase, expectedSeq, transfer, cancels, opened>>,
         \A i \in DOMAIN toVehicle' :
           \/ \E j \in DOMAIN toVehicle : toVehicle[j] = toVehicle'[i]
           \/ phase = "Burst" /\ toVehicle'[i].request.op = "Burst"
           \/ /\ phase = "Fill" /\ toVehicle'[i].request.op = "Read"
              /\ Fits(toVehicle'[i].request.offset, toVehicle'[i].request.count, missing[1]),
         Rest(toStation, toStation')
  PROVE  Accounted' /\ Session'
<1>1. Accounted'
  BY AccountedStays DEF transfer
<1>2. \A i \in DOMAIN toStation' : \E j \in DOMAIN toStation :
        toStation[j] = toStation'[i] /\ (j = 1 => i = 1)
  <2>1. toStation \in Seq(Replied) /\ toStation' \in Seq(Replied)
    BY DEF Typed
  <2> QED BY <2>1, RestParts
<1>3. missing' = missing
  BY DEF transfer
<1>4. OpensAreNear'
  BY <1>2 DEF Session, OpensAreNear, Back, Reach
<1>5. Opened'
  BY <1>2 DEF Session, Opened
<1>6. phase = "Burst" => NoReads'
  BY <1>2 DEF Session, NoReads
<1>7. phase = "Fill" => ReadsFit'
  BY <1>2, <1>3 DEF Session, ReadsFit
<1> QED BY <1>1, <1>4, <1>5, <1>6, <1>7 DEF Session

LEMMA RequestFacts ==
  /\ [op |-> "Terminate"] \in Requests /\ [op |-> "Reset"] \in Requests
  /\ \A offset \in 0 .. Size : [op |-> "Burst", offset |-> offset] \in Requests
  /\ \A gap \in GapType : /\ ReadOf(gap) \in Requests /\ ReadOf(gap).op = "Read"
                          /\ Fits(ReadOf(gap).offset, ReadOf(gap).count, gap)
<1>1. ASSUME NEW gap \in GapType
      PROVE  /\ ReadOf(gap) \in Requests /\ ReadOf(gap).op = "Read"
             /\ Fits(ReadOf(gap).offset, ReadOf(gap).count, gap)
  <2>1. gap.offset \in Bytes /\ gap.bytes \in 1 .. Size /\ DataLen \in Nat /\ DataLen >= 1
    BY ConstantsAssumption DEF GapType
  <2>2. Least(gap.bytes, DataLen) \in 1 .. DataLen /\ Least(gap.bytes, DataLen) <= gap.bytes
    BY <2>1, ConstantsAssumption DEF Least
  <2>3. /\ ReadOf(gap).op = "Read" /\ ReadOf(gap).offset = gap.offset
        /\ ReadOf(gap).count = Least(gap.bytes, DataLen)
    BY DEF ReadOf
  <2>4. ReadOf(gap) \in [op : {"Read"}, offset : Bytes, count : 1 .. DataLen]
    BY <2>1, <2>2 DEF ReadOf
  <2> QED BY <2>2, <2>3, <2>4 DEF Requests, Fits
<1> QED BY <1>1 DEF Requests

\* A request sent again has the number it had.
LEMMA SentAgain ==
  ASSUME Typed, NEW request \in Requests, Send(Again, request)
  PROVE  /\ expectedSeq' = expectedSeq /\ toVehicle' \in Seq(Asked)
         /\ \A i \in DOMAIN toVehicle' :
              \/ i \in DOMAIN toVehicle /\ toVehicle'[i] = toVehicle[i]
              \/ toVehicle'[i] = [seq |-> Forward(expectedSeq, -1), request |-> request]
         /\ toVehicle = <<>> =>
              IF dead THEN toVehicle' = <<>>
              ELSE toVehicle' = <<[seq |-> Forward(expectedSeq, -1), request |-> request]>>
<1>1. expectedSeq \in Numbers /\ expectedSeq \in Int
  BY ConstantsAssumption DEF Typed, Numbers
<1>2. Again \in Int
  <2>1. Forward(expectedSeq, -2) \in Numbers
    BY <1>1, ForwardType
  <2> QED BY <2>1, ConstantsAssumption DEF Again, Numbers
<1>3. Forward(Again, 2) = Forward(expectedSeq, 0) /\ Forward(Again, 1) = Forward(expectedSeq, -1)
  <2>1. PICK m \in Int : m = -2
    OBVIOUS
  <2>2. Forward(Forward(expectedSeq, m), 2) = Forward(expectedSeq, m + 2)
    BY <1>1, <2>1, ForwardForward
  <2>3. Forward(Forward(expectedSeq, m), 1) = Forward(expectedSeq, m + 1)
    BY <1>1, <2>1, ForwardForward
  <2>4. m + 2 = 0 /\ m + 1 = -1
    BY <2>1
  <2> QED BY <2>1, <2>2, <2>3, <2>4 DEF Again
<1>4. Forward(expectedSeq, 0) = expectedSeq
  BY <1>1, ForwardSame
<1>5. PICK base \in Int : base = Again
  BY <1>2
<1>6. Send(base, request)
  BY <1>5
<1>7. /\ expectedSeq' = Forward(base, 2) /\ toVehicle' \in Seq(Asked)
      /\ Len(toVehicle) \in Nat /\ DOMAIN toVehicle = 1 .. Len(toVehicle)
      /\ \/ toVehicle' = toVehicle
         \/ /\ DOMAIN toVehicle' = 1 .. Len(toVehicle) + 1 /\ Len(toVehicle') = Len(toVehicle) + 1
            /\ \A i \in DOMAIN toVehicle : toVehicle'[i] = toVehicle[i]
            /\ toVehicle'[Len(toVehicle) + 1] = [seq |-> Forward(base, 1), request |-> request]
      /\ toVehicle = <<>> =>
           IF dead THEN toVehicle' = <<>>
           ELSE toVehicle' = <<[seq |-> Forward(base, 1), request |-> request]>>
  BY <1>6, Sent
<1> QED BY <1>3, <1>4, <1>5, <1>7

LEMMA CancelKeeps ==
  ASSUME IInv, Cancel \/ Abandon
  PROVE  IInv'
<1>0. Typed /\ Accounted /\ Session
  BY DEF IInv
<1>1. /\ UNCHANGED <<file, checkSize, transfer, server, toStation, faults, dead, late, refused>>
      /\ cancels < MaxCancels /\ cancels' = cancels + 1
      /\ phase' \in {"Idle", "Terminate"} /\ phase # "Idle"
      /\ due' \in BOOLEAN /\ retries' \in {0, retries} /\ result' \in {result, "Failed"}
      /\ phase' = "Idle" \/ result' = result
  BY DEF Cancel, Abandon, MayCancel, Continue, Ask, Cancellable
<1>2. \/ Send(expectedSeq, [op |-> "Terminate"])
      \/ UNCHANGED <<expectedSeq, toVehicle>>
  BY DEF Cancel, Abandon, Ask
<1>3. expectedSeq \in Numbers /\ expectedSeq \in Int /\ cancels \in Nat /\ cancels \in 0 .. MaxCancels
  BY <1>0, ConstantsAssumption DEF Typed, Numbers
<1>4. PICK n \in {0, 2} :
        /\ expectedSeq' = Forward(expectedSeq, n) /\ expectedSeq' \in Numbers
        /\ toVehicle' \in Seq(Asked)
        /\ \A i \in DOMAIN toVehicle' :
             \/ i \in DOMAIN toVehicle /\ toVehicle'[i] = toVehicle[i]
             \/ toVehicle'[i].request.op = "Terminate"
  <2>1. CASE Send(expectedSeq, [op |-> "Terminate"])
    <3>1. PICK request \in Requests : request = [op |-> "Terminate"]
      BY RequestFacts
    <3>2. Send(expectedSeq, request) /\ request.op = "Terminate"
      BY <2>1, <3>1
    <3>3. /\ expectedSeq' = Forward(expectedSeq, 2) /\ expectedSeq' \in Numbers
          /\ toVehicle' \in Seq(Asked)
          /\ Len(toVehicle) \in Nat /\ DOMAIN toVehicle = 1 .. Len(toVehicle)
          /\ \/ toVehicle' = toVehicle
             \/ /\ DOMAIN toVehicle' = 1 .. Len(toVehicle) + 1 /\ Len(toVehicle') = Len(toVehicle) + 1
                /\ \A i \in DOMAIN toVehicle : toVehicle'[i] = toVehicle[i]
                /\ toVehicle'[Len(toVehicle) + 1] = [seq |-> Forward(expectedSeq, 1), request |-> request]
      BY <1>0, <1>3, <3>2, Sent
    <3> QED BY <3>2, <3>3
  <2>2. CASE UNCHANGED <<expectedSeq, toVehicle>>
    <3>1. expectedSeq' = Forward(expectedSeq, 0)
      BY <1>3, <2>2, ForwardSame
    <3> QED BY <1>0, <1>3, <2>2, <3>1 DEF Typed
  <2> QED BY <1>2, <2>1, <2>2
<1>5. Typed'
  BY <1>0, <1>1, <1>3, <1>4, ConstantsAssumption DEF Typed, Phases, transfer, server
<1>6. Rest(toStation, toStation')
  BY <1>0, <1>1, InFlight, RestFacts
<1>7. Accounted' /\ Session'
  <2>1. n \in Nat /\ ((n = 0 /\ cancels' \in {cancels, cancels + 1}) \/ (n = 2 /\ cancels' = cancels + 1))
    BY <1>1, <1>4
  <2>2. UNCHANGED <<file, written, got, missing>>
    BY <1>1 DEF transfer
  <2>3. \A i \in DOMAIN toVehicle' : toVehicle'[i].request.op = "Open" =>
          \E j \in DOMAIN toVehicle : toVehicle[j] = toVehicle'[i]
    BY <1>4
  <2> QED BY <1>0, <1>1, <1>4, <1>5, <1>6, <2>1, <2>2, <2>3, QuietKeeps
<1>8. (phase' = "Reset" \/ result' = "Ok") /\ checkSize' => Whole'
  BY <1>1 DEF IInv, Whole, transfer
<1> QED BY <1>5, <1>7, <1>8 DEF IInv

\* A download ends.
LEMMA EndsKeep ==
  ASSUME IInv, phase # "Idle", retries' \in {retries, retries + 1},
         End("Failed") \/ (phase = "Reset" /\ End("Ok")),
         UNCHANGED <<file, checkSize, transfer, server, cancels, dead, refused>>,
         late' \in BOOLEAN, faults' \in 0 .. MaxFaults,
         toStation' \in Seq(Replied), Rest(toStation, toStation')
  PROVE  IInv'
<1>0. /\ Typed /\ Accounted /\ Session /\ expectedSeq \in Numbers
      /\ (phase = "Reset" \/ result = "Ok") /\ checkSize => Whole
  BY DEF IInv, Typed
<1>1. /\ phase' = "Idle" /\ due' = FALSE /\ result' \in {"Ok", "Failed"}
      /\ UNCHANGED <<expectedSeq, toVehicle>> /\ (result' = "Ok" => phase = "Reset")
  BY DEF End
<1>2. retries' \in 0 .. MaxRetry + 1
  BY <1>0, ConstantsAssumption DEF Typed
<1>3. Typed'
  BY <1>0, <1>1, <1>2 DEF Typed, Phases, transfer, server
<1>4. expectedSeq' = Forward(expectedSeq, 0)
  BY <1>0, <1>1, ForwardSame
<1>5. UNCHANGED <<file, written, got, missing, cancels, toVehicle>>
  BY <1>1 DEF transfer
<1>6. Accounted' /\ Session'
  BY <1>0, <1>1, <1>3, <1>4, <1>5, QuietKeeps
<1>7. Whole => Whole'
  BY <1>5 DEF Whole
<1> QED BY <1>0, <1>1, <1>3, <1>6, <1>7 DEF IInv

LEMMA TimeoutKeeps ==
  ASSUME IInv, Timeout
  PROVE  IInv'
<1>0. /\ Typed /\ Accounted /\ Session /\ expectedSeq \in Numbers
      /\ (phase = "Reset" \/ result = "Ok") /\ checkSize => Whole
  BY DEF IInv, Typed
<1>1. UNCHANGED <<file, checkSize, transfer, server, toStation, faults, cancels, dead, refused>>
      /\ late' \in BOOLEAN
  BY <1>0 DEF Timeout, Typed
<1>2. Rest(toStation, toStation')
  BY <1>0, <1>1, InFlight, RestFacts
<1>3. Whole => Whole'
  BY <1>1 DEF Whole, transfer
<1>4. CASE /\ phase \in {"Open", "Reset", "Burst", "Fill", "Terminate"}
           /\ retries' \in {retries, retries + 1}
           /\ End("Failed") \/ (phase = "Reset" /\ End("Ok"))
  <2>1. /\ phase # "Idle" /\ late' \in BOOLEAN /\ faults' \in 0 .. MaxFaults /\ toStation' \in Seq(Replied)
        /\ UNCHANGED <<file, checkSize, transfer, server, cancels, dead, refused>>
    BY <1>0, <1>1, <1>4 DEF Typed
  <2> QED BY <1>2, <1>4, <2>1, EndsKeep
<1>5. CASE /\ phase \in {"Burst", "Fill"} /\ retries' = retries + 1 /\ MayRetry /\ UNCHANGED <<phase, result>>
           /\ due' = TRUE
           /\ \E request \in Requests :
                /\ Send(Again, request)
                /\ \/ phase = "Burst" /\ request.op = "Burst"
                   \/ phase = "Fill" /\ request.op = "Read" /\ Fits(request.offset, request.count, missing[1])
  <2>1. PICK request \in Requests :
          /\ Send(Again, request)
          /\ \/ phase = "Burst" /\ request.op = "Burst"
             \/ phase = "Fill" /\ request.op = "Read" /\ Fits(request.offset, request.count, missing[1])
    BY <1>5
  <2>2. /\ expectedSeq' = expectedSeq /\ toVehicle' \in Seq(Asked)
        /\ \A i \in DOMAIN toVehicle' :
             \/ i \in DOMAIN toVehicle /\ toVehicle'[i] = toVehicle[i]
             \/ toVehicle'[i] = [seq |-> Forward(expectedSeq, -1), request |-> request]
    BY <1>0, <2>1, SentAgain
  <2>3. Typed'
    BY <1>0, <1>1, <1>5, <2>2, ConstantsAssumption DEF Typed, MayRetry, transfer, server
  <2>4. Accounted' /\ Session'
    <3>1. \A i \in DOMAIN toVehicle' :
            \/ \E j \in DOMAIN toVehicle : toVehicle[j] = toVehicle'[i]
            \/ phase = "Burst" /\ toVehicle'[i].request.op = "Burst"
            \/ /\ phase = "Fill" /\ toVehicle'[i].request.op = "Read"
               /\ Fits(toVehicle'[i].request.offset, toVehicle'[i].request.count, missing[1])
      BY <2>1, <2>2
    <3>2. UNCHANGED <<file, phase, expectedSeq, transfer, cancels, opened>>
      BY <1>1, <1>5, <2>2 DEF server
    <3> QED BY <1>0, <1>2, <1>5, <2>3, <3>1, <3>2, AgainKeeps
  <2> QED BY <1>0, <1>1, <1>3, <1>5, <2>3, <2>4 DEF IInv
<1>6. CASE /\ phase = "Terminate" /\ retries' = retries + 1 /\ MayRetry /\ Continue("Terminate")
           /\ Ask(Again, [op |-> "Terminate"])
  <2>1. PICK request \in Requests : request = [op |-> "Terminate"]
    BY RequestFacts
  <2>2. Send(Again, request) /\ request.op = "Terminate"
    BY <1>6, <2>1 DEF Ask
  <2>3. /\ expectedSeq' = expectedSeq /\ toVehicle' \in Seq(Asked)
        /\ \A i \in DOMAIN toVehicle' :
             \/ i \in DOMAIN toVehicle /\ toVehicle'[i] = toVehicle[i]
             \/ toVehicle'[i] = [seq |-> Forward(expectedSeq, -1), request |-> request]
    BY <1>0, <2>2, SentAgain
  <2>4. phase' = phase /\ result' = result /\ due' = TRUE
    BY <1>6 DEF Continue, Ask
  <2>5. Typed'
    BY <1>0, <1>1, <1>6, <2>3, <2>4, ConstantsAssumption DEF Typed, MayRetry, transfer, server
  <2>6. Accounted' /\ Session'
    <3>1. \A i \in DOMAIN toVehicle' : toVehicle'[i].request.op = "Open" =>
            \E j \in DOMAIN toVehicle : toVehicle[j] = toVehicle'[i]
      BY <2>2, <2>3
    <3>2. expectedSeq' = Forward(expectedSeq, 0)
      BY <1>0, <2>3, ForwardSame
    <3>3. UNCHANGED <<file, written, got, missing, cancels>> /\ phase' = "Terminate"
      BY <1>1, <1>6, <2>4 DEF transfer
    <3> QED BY <1>0, <1>2, <2>5, <3>1, <3>2, <3>3, QuietKeeps
  <2> QED BY <1>0, <1>1, <1>3, <2>4, <2>5, <2>6 DEF IInv
<1>7. missing \in Seq(GapType) /\ (phase = "Fill" => missing # <<>>)
  BY <1>0 DEF Typed, Accounted
<1>8. CASE phase = "Burst" /\ CountedRetry /\ MayRetry /\ Burst(Again, expectedOffset)
  <2>1. [op |-> "Burst", offset |-> expectedOffset] \in Requests
    BY <1>0, RequestFacts DEF Typed
  <2> QED BY <1>5, <1>8, <2>1 DEF CountedRetry, Burst, Continue, Ask
<1>9. CASE phase = "Fill" /\ CountedRetry /\ MayRetry /\ Ask(Again, ReadOf(missing[1])) /\ Continue("Fill")
  <2>1. missing[1] \in GapType
    BY <1>7, <1>9, TailFacts
  <2>2. /\ ReadOf(missing[1]) \in Requests /\ ReadOf(missing[1]).op = "Read"
        /\ Fits(ReadOf(missing[1]).offset, ReadOf(missing[1]).count, missing[1])
    BY <2>1, RequestFacts
  <2> QED BY <1>5, <1>9, <2>2 DEF CountedRetry, Continue, Ask
<1> QED BY <1>4, <1>6, <1>8, <1>9 DEF Timeout, CountedRetry

\* Messages that are lost, or ignored, change nothing else.
LEMMA LossKeeps ==
  ASSUME IInv, UNCHANGED station, UNCHANGED <<server, cancels, late, refused>>,
         dead' \in BOOLEAN, faults' \in 0 .. MaxFaults,
         toVehicle' \in Seq(Asked), Rest(toVehicle, toVehicle'),
         toStation' \in Seq(Replied), Rest(toStation, toStation')
  PROVE  IInv'
<1>0. Typed /\ Accounted /\ Session /\ ((phase = "Reset" \/ result = "Ok") /\ checkSize => Whole)
  BY DEF IInv
<1>1. Typed'
  BY <1>0 DEF Typed, station, transfer, server
<1>2. UNCHANGED <<file, written, got, missing, phase, expectedOffset, result, checkSize>>
  BY DEF station, transfer
<1>3. Accounted'
  BY <1>0, <1>2, AccountedStays
<1>4. Session'
  <2>1. UNCHANGED <<file, phase, expectedSeq, cancels, missing, opened, stream>>
    BY DEF station, transfer, server
  <2> QED BY <1>0, <2>1, LossKeepsSession
<1>5. Whole => Whole'
  BY <1>2 DEF Whole
<1> QED BY <1>0, <1>1, <1>2, <1>3, <1>4, <1>5 DEF IInv

LEMMA LinkKeeps ==
  ASSUME IInv, Lose \/ Die \/ UNCHANGED vars
  PROVE  IInv'
<1>1. /\ toVehicle \in Seq(Asked) /\ toStation \in Seq(Replied)
      /\ dead \in BOOLEAN /\ faults \in 0 .. MaxFaults
  BY DEF IInv, Typed
<1>2. CASE UNCHANGED vars
  BY <1>1, <1>2, RestFacts, LossKeeps DEF vars
<1>3. CASE Die
  BY <1>1, <1>3, RestFacts, LossKeeps DEF Die
<1>4. CASE Lose
  <2>1. faults' \in 0 .. MaxFaults
    BY <1>1, <1>4, ConstantsAssumption DEF Lose
  <2>2. /\ toVehicle' \in Seq(Asked) /\ Rest(toVehicle, toVehicle')
        /\ toStation' \in Seq(Replied) /\ Rest(toStation, toStation')
    BY <1>1, <1>4, RestFacts DEF Lose
  <2> QED BY <1>1, <1>4, <2>1, <2>2, LossKeeps DEF Lose
<1> QED BY <1>2, <1>3, <1>4

\* The server answers the first request, or begins to.
LEMMA ServedKeepsSession ==
  ASSUME Typed, Typed', Session, UNCHANGED <<file, phase, expectedSeq, cancels, missing>>,
         phase = "Fill" => missing # <<>>,
         NEW m, toVehicle # <<>>, m = toVehicle[1], toVehicle' = Tail(toVehicle),
         m.request.op \in {"Burst", "Read"} => opened' = opened,
         \A i \in DOMAIN toStation' :
           \/ i \in DOMAIN toStation /\ toStation'[i] = toStation[i]
           \/ /\ i = Len(toStation')
              /\ toStation'[i].op = m.request.op /\ toStation'[i].seq = Forward(m.seq, 1)
              /\ toStation'[i].type = "Data" =>
                   /\ m.request.op = "Read" /\ toStation'[i].file = opened
                   /\ toStation'[i].offset = m.request.offset /\ toStation'[i].count <= m.request.count
              /\ toStation'[i].op = "Open" /\ toStation'[i].type = "Ack" =>
                   opened' = m.request.file /\ stream' = NoStream
  PROVE  Session'
<1>1. /\ toVehicle \in Seq(Asked) /\ m = toVehicle[1] /\ m \in Asked
      /\ DOMAIN toVehicle = 1 .. Len(toVehicle) /\ 1 \in DOMAIN toVehicle /\ Len(toVehicle) \in Nat
      /\ toVehicle' \in Seq(Asked) /\ Len(toVehicle') = Len(toVehicle) - 1
  BY TailFacts DEF Typed
<1>2. \A i \in DOMAIN toVehicle' : \E j \in DOMAIN toVehicle :
        toVehicle'[i] = toVehicle[j] /\ (j = Len(toVehicle) => i = Len(toVehicle'))
  <2>1. Rest(toVehicle, toVehicle')
    BY <1>1, RestFacts
  <2> QED BY <1>1, <2>1, RestParts
<1>3. OpensAreNear'
  <2>1. expectedSeq' = Forward(expectedSeq, 0)
    BY ForwardSame DEF Typed
  <2>2. Reach' = Reach /\ Reach \in Int /\ 0 <= Reach /\ Reach + 0 <= Reach'
    <3>1. PICK f \in Nat, c \in Nat : f = file /\ c = cancels /\ (phase = "Open" => f >= 1)
      BY DEF Typed
    <3>2. Reach' = Reach
      BY DEF Reach
    <3>3. Reach = 4 * f + 2 * c - IF phase = "Open" THEN 2 ELSE 0
      BY <3>1 DEF Reach
    <3>4. Reach \in Int /\ 0 <= Reach
      BY <3>1, <3>3
    <3> QED BY <3>2, <3>4
  <2>3. \A i \in DOMAIN toVehicle' : \E j \in DOMAIN toVehicle : toVehicle[j] = toVehicle'[i]
    BY <1>2
  <2>4. \A i \in DOMAIN toStation' : toStation'[i].op = "Open" =>
           \/ \E j \in DOMAIN toStation : toStation[j] = toStation'[i]
           \/ \E j \in DOMAIN toVehicle : /\ toVehicle[j].request.op = "Open"
                                          /\ toStation'[i].seq = Forward(toVehicle[j].seq, 1)
    BY <1>1
  <2>5. OpensAreNear
    BY DEF Session
  <2> QED BY <2>1, <2>2, <2>3, <2>4, <2>5, NearStays
<1>4. ASSUME phase = "Open" PROVE Opening'
  <2>1. Opening
    BY <1>4 DEF Session
  <2>2. \A i \in DOMAIN toVehicle' :
          toVehicle'[i].request.op = "Open" /\ Forward(toVehicle'[i].seq, 1) = expectedSeq' =>
            i = Len(toVehicle') /\ toVehicle'[i].request.file = file'
    BY <1>2, <2>1 DEF Opening
  <2>3. ASSUME NEW i \in DOMAIN toStation', toStation'[i].op = "Open", toStation'[i].type = "Ack",
               toStation'[i].seq = expectedSeq'
        PROVE  i = Len(toStation') /\ toVehicle' = <<>> /\ stream' = NoStream /\ opened' = file'
    <3>1. ~(i \in DOMAIN toStation /\ toStation'[i] = toStation[i])
      BY <2>1, <2>3 DEF Opening
    <3>2. /\ i = Len(toStation') /\ toStation'[i].op = m.request.op
          /\ toStation'[i].seq = Forward(m.seq, 1)
          /\ opened' = m.request.file /\ stream' = NoStream
      BY <2>3, <3>1
    <3>3. 1 = Len(toVehicle) /\ m.request.file = file
      BY <1>1, <2>1, <2>3, <3>2 DEF Opening
    <3>4. toVehicle' = <<>>
      BY <1>1, <3>3, EmptySeq
    <3> QED BY <3>2, <3>3, <3>4
  <2> QED BY <2>2, <2>3 DEF Opening
<1>5. ASSUME phase \in {"Burst", "Fill"} PROVE Opened'
  <2>1. Opened
    BY <1>5 DEF Session
  <2>2. m.request.op \in {"Burst", "Read"} /\ opened = file
    BY <1>1, <2>1 DEF Opened
  <2>3. \A i \in DOMAIN toVehicle' : toVehicle'[i].request.op \in {"Burst", "Read"}
    BY <1>2, <2>1 DEF Opened
  <2>4. \A i \in DOMAIN toStation' : /\ toStation'[i].op = "Open" => i = 1
                                     /\ toStation'[i].type = "Data" => toStation'[i].file = file
    BY <2>1, <2>2 DEF Opened
  <2> QED BY <2>2, <2>3, <2>4 DEF Opened
<1>6. ASSUME phase = "Burst" PROVE NoReads'
  <2>1. NoReads
    BY <1>6 DEF Session
  <2>2. m.request.op # "Read"
    BY <1>1, <2>1 DEF NoReads
  <2> QED BY <1>2, <2>1, <2>2 DEF NoReads
<1>7. ASSUME phase = "Fill" PROVE ReadsFit'
  <2>1. ReadsFit
    BY <1>7 DEF Session
  <2>2. \A i \in DOMAIN toVehicle' : toVehicle'[i].request.op = "Read" =>
          Fits(toVehicle'[i].request.offset, toVehicle'[i].request.count, missing[1])
    BY <1>2, <2>1 DEF ReadsFit
  <2>3. ASSUME NEW i \in DOMAIN toStation', toStation'[i].op = "Read", toStation'[i].type = "Data"
        PROVE  Fits(toStation'[i].offset, toStation'[i].count, missing[1])
    <3>1. CASE i \in DOMAIN toStation /\ toStation'[i] = toStation[i]
      BY <2>1, <2>3, <3>1 DEF ReadsFit
    <3>2. CASE /\ m.request.op = "Read"
               /\ toStation'[i].offset = m.request.offset /\ toStation'[i].count <= m.request.count
      <4>1. Fits(m.request.offset, m.request.count, missing[1])
        BY <1>1, <2>1, <3>2 DEF ReadsFit
      <4>2. toStation'[i].count \in Int /\ m.request.count \in Int /\ missing[1].bytes \in Int
        <5>1. toStation'[i] \in Replied
          <6>1. toStation' \in Seq(Replied)
            BY DEF Typed
          <6> QED BY <2>3, <6>1, LenProperties, ElementOfSeq
        <5>2. toStation'[i].count \in Int
          BY <2>3, <5>1, RepliedFields, PacketFields
        <5>3. m.request.count \in Int
          BY <1>1, <3>2, AskedFields, ConstantsAssumption
        <5>4. missing[1].bytes \in Int
          <6>1. missing \in Seq(GapType) /\ missing # <<>>
            BY <1>7 DEF Typed
          <6>2. 1 \in DOMAIN missing
            BY <6>1, TailFacts
          <6> QED BY <6>1, <6>2, GapFields
        <5> QED BY <5>2, <5>3, <5>4
      <4> QED BY <3>2, <4>1, <4>2 DEF Fits
    <3> QED BY <2>3, <3>1, <3>2
  <2> QED BY <2>2, <2>3 DEF ReadsFit
<1> QED BY <1>3, <1>4, <1>5, <1>6, <1>7 DEF Session

\* A packet of the file from an offset.
LEMMA PacketOf ==
  ASSUME Typed, opened # 0, NEW offset \in 0 .. Size, offset < Size, NEW n \in 1 .. DataLen,
         NEW op \in {"Burst", "Read"}, NEW seq \in Numbers, NEW complete \in BOOLEAN
  PROVE  /\ Least(n, Size - offset) \in 1 .. n
         /\ offset + Least(n, Size - offset) <= Size
         /\ [type |-> "Data", op |-> op, seq |-> seq, file |-> opened, offset |-> offset,
             count |-> Least(n, Size - offset), complete |-> complete] \in Replied
<1>1. DataLen \in Nat /\ Size \in Nat /\ opened \in 1 .. MaxDownloads /\ offset \in Bytes
  BY ConstantsAssumption DEF Typed, Bytes
<1>2. PICK k : k = Least(n, Size - offset)
  OBVIOUS
<1>3. k \in 1 .. n /\ k \in 1 .. DataLen /\ offset + k <= Size
  BY <1>1, <1>2 DEF Least
<1> DEFINE r == [type |-> "Data", op |-> op, seq |-> seq, file |-> opened, offset |-> offset,
                 count |-> k, complete |-> complete]
<1>4. r \in Packets
  BY <1>1, <1>3 DEF Packets
<1> QED BY <1>2, <1>3, <1>4 DEF Replied

\* What the server sends is the last message.
LEMMA Answered ==
  ASSUME Typed, NEW r \in Replied, toStation' = Append(toStation, r)
  PROVE  /\ toStation' \in Seq(Replied) /\ Len(toStation') = Len(toStation) + 1
         /\ Len(toStation) \in Nat /\ DOMAIN toStation = 1 .. Len(toStation)
         /\ DOMAIN toStation' = 1 .. Len(toStation) + 1
         /\ \A i \in DOMAIN toStation : toStation'[i] = toStation[i]
         /\ toStation'[Len(toStation) + 1] = r
BY AppendFacts DEF Typed

\* A request served, with at most one message in answer.
LEMMA ServedKeeps ==
  ASSUME IInv, UNCHANGED <<station, faults, cancels, dead, late>>, refused' \in BOOLEAN,
         NEW m, toVehicle # <<>>, m = toVehicle[1], toVehicle' = Tail(toVehicle),
         m.request.op \in {"Burst", "Read"} => opened' = opened,
         opened' \in 0 .. MaxDownloads,
         stream' # NoStream => stream' \in [seq : Numbers, offset : 0 .. Size] /\ opened' # 0,
         \/ toStation' = toStation
         \/ \E r \in Replied :
              /\ toStation' = Append(toStation, r)
              /\ r.op = m.request.op /\ r.seq = Forward(m.seq, 1)
              /\ r.type = "Data" =>
                   /\ m.request.op = "Read" /\ r.file = opened
                   /\ r.offset = m.request.offset /\ r.count <= m.request.count
              /\ r.op = "Open" /\ r.type = "Ack" => opened' = m.request.file /\ stream' = NoStream
  PROVE  IInv'
<1>0. Typed /\ Accounted /\ Session /\ ((phase = "Reset" \/ result = "Ok") /\ checkSize => Whole)
  BY DEF IInv
<1>1. UNCHANGED <<file, phase, expectedSeq, expectedOffset, written, got, missing, checkSize, result, cancels>>
  BY DEF station, transfer
<1>2. /\ toStation' \in Seq(Replied)
      /\ \A i \in DOMAIN toStation' :
           \/ i \in DOMAIN toStation /\ toStation'[i] = toStation[i]
           \/ /\ i = Len(toStation')
              /\ toStation'[i].op = m.request.op /\ toStation'[i].seq = Forward(m.seq, 1)
              /\ toStation'[i].type = "Data" =>
                   /\ m.request.op = "Read" /\ toStation'[i].file = opened
                   /\ toStation'[i].offset = m.request.offset /\ toStation'[i].count <= m.request.count
              /\ toStation'[i].op = "Open" /\ toStation'[i].type = "Ack" =>
                   opened' = m.request.file /\ stream' = NoStream
  <2>1. CASE toStation' = toStation
    BY <1>0, <2>1 DEF Typed
  <2>2. CASE toStation' # toStation
    <3>1. PICK r \in Replied :
            /\ toStation' = Append(toStation, r)
            /\ r.op = m.request.op /\ r.seq = Forward(m.seq, 1)
            /\ r.type = "Data" =>
                 /\ m.request.op = "Read" /\ r.file = opened
                 /\ r.offset = m.request.offset /\ r.count <= m.request.count
            /\ r.op = "Open" /\ r.type = "Ack" => opened' = m.request.file /\ stream' = NoStream
      BY <2>2
    <3>2. /\ toStation' \in Seq(Replied) /\ Len(toStation') = Len(toStation) + 1
          /\ Len(toStation) \in Nat /\ DOMAIN toStation = 1 .. Len(toStation)
          /\ DOMAIN toStation' = 1 .. Len(toStation) + 1
          /\ \A i \in DOMAIN toStation : toStation'[i] = toStation[i]
          /\ toStation'[Len(toStation) + 1] = r
      BY <1>0, <3>1, Answered
    <3>3. \A i \in DOMAIN toStation' :
            (i \in DOMAIN toStation /\ toStation'[i] = toStation[i]) \/ (i = Len(toStation') /\ toStation'[i] = r)
      BY <3>2
    <3> QED BY <3>1, <3>2, <3>3
  <2> QED BY <2>1, <2>2
<1>3. toVehicle' \in Seq(Asked)
  BY <1>0, TailFacts DEF Typed
<1>4. Typed'
  BY <1>0, <1>2, <1>3 DEF Typed, station, transfer
<1>5. Session'
  <2>1. phase = "Fill" => missing # <<>>
    BY <1>0 DEF Accounted
  <2> QED BY <1>0, <1>1, <1>2, <1>4, <2>1, ServedKeepsSession
<1>6. Accounted'
  BY <1>0, <1>1, AccountedStays
<1> QED BY <1>0, <1>1, <1>4, <1>5, <1>6 DEF IInv, Whole

LEMMA ServerReceiveKeeps ==
  ASSUME IInv, ServerReceive
  PROVE  IInv'
<1>0. Typed /\ Accounted /\ Session /\ ((phase = "Reset" \/ result = "Ok") /\ checkSize => Whole)
  BY DEF IInv
<1>1. PICK m, seq : m = toVehicle[1] /\ seq = Forward(m.seq, 1)
  OBVIOUS
<1>2. /\ toVehicle # <<>> /\ m = Head(toVehicle) /\ m \in Asked /\ toVehicle' = Tail(toVehicle)
      /\ toVehicle' \in Seq(Asked) /\ seq \in Numbers
  <2>1. toVehicle # <<>> /\ toVehicle' = Tail(toVehicle) /\ toVehicle \in Seq(Asked)
    BY <1>0 DEF ServerReceive, Typed
  <2>2. m = Head(toVehicle) /\ m \in Asked /\ toVehicle' \in Seq(Asked)
    BY <1>1, <2>1, TailFacts
  <2>3. m.seq \in Int
    BY <2>2, AskedFields, ConstantsAssumption DEF Numbers
  <2> QED BY <1>1, <2>1, <2>2, <2>3, ForwardType
<1>3. /\ m.request.op \in {"Open", "Reset", "Terminate", "Burst", "Read"}
      /\ m.request.op = "Open" => m.request.file \in 1 .. MaxDownloads
      /\ m.request.op = "Burst" => m.request.offset \in 0 .. Size
      /\ m.request.op = "Read" => m.request.offset \in Bytes /\ m.request.count \in 1 .. DataLen
  BY <1>2, AskedFields
<1>4. UNCHANGED <<station, faults, cancels, dead, late>>
  BY DEF ServerReceive
<1>5. CASE Refuse(m.request.op, seq)
  <2> DEFINE r == [type |-> "Nak", op |-> m.request.op, seq |-> seq]
  <2>1. r \in Replied /\ r.type = "Nak" /\ r.op = m.request.op /\ r.seq = seq
    BY <1>2, <1>3, <1>5 DEF Refuse, Replied
  <2>2. toStation' = Append(toStation, r) /\ UNCHANGED server /\ refused' \in BOOLEAN
    BY <1>5 DEF Refuse, Reply
  <2> HIDE DEF r
  <2>3. /\ opened' = opened /\ opened' \in 0 .. MaxDownloads
        /\ stream' # NoStream => stream' \in [seq : Numbers, offset : 0 .. Size] /\ opened' # 0
    BY <1>0, <2>2 DEF Typed, server
  <2>4. \E x \in Replied :
              /\ toStation' = Append(toStation, x)
              /\ x.op = m.request.op /\ x.seq = Forward(m.seq, 1)
              /\ x.type = "Data" =>
                   /\ m.request.op = "Read" /\ x.file = opened
                   /\ x.offset = m.request.offset /\ x.count <= m.request.count
              /\ x.op = "Open" /\ x.type = "Ack" => opened' = m.request.file /\ stream' = NoStream
    BY <1>1, <2>1, <2>2
  <2> QED BY <1>1, <1>2, <1>4, <2>2, <2>3, <2>4, ServedKeeps
<1>6. CASE Answer(m.request.op, m.request, seq) /\ UNCHANGED refused
  <2>0. refused' \in BOOLEAN
    BY <1>0, <1>6 DEF Typed
  <2>1. CASE m.request.op \in {"Open", "Reset", "Terminate"}
    <3> DEFINE r == [type |-> "Ack", op |-> m.request.op, seq |-> seq]
    <3>1. r \in Replied /\ r.type = "Ack" /\ r.op = m.request.op /\ r.seq = seq
      BY <1>2, <2>1 DEF Replied
    <3>2. /\ toStation' = Append(toStation, r) /\ stream' = NoStream
          /\ opened' = IF m.request.op = "Open" THEN m.request.file ELSE 0
      BY <1>6, <2>1 DEF Answer, Reply
    <3> HIDE DEF r
    <3>3. opened' \in 0 .. MaxDownloads
      BY <1>3, <3>2, ConstantsAssumption
    <3>4. \E x \in Replied :
              /\ toStation' = Append(toStation, x)
              /\ x.op = m.request.op /\ x.seq = Forward(m.seq, 1)
              /\ x.type = "Data" =>
                   /\ m.request.op = "Read" /\ x.file = opened
                   /\ x.offset = m.request.offset /\ x.count <= m.request.count
              /\ x.op = "Open" /\ x.type = "Ack" => opened' = m.request.file /\ stream' = NoStream
      BY <1>1, <3>1, <3>2
    <3> QED BY <1>1, <1>2, <1>4, <2>0, <2>1, <3>2, <3>3, <3>4, ServedKeeps
  <2>2. CASE m.request.op = "Burst"
    <3>1. /\ opened # 0 /\ opened' = opened /\ toStation' = toStation
          /\ stream' = [seq |-> seq, offset |-> m.request.offset]
      BY <1>6, <2>2 DEF Answer
    <3>2. stream' \in [seq : Numbers, offset : 0 .. Size] /\ opened' \in 0 .. MaxDownloads
      BY <1>0, <1>2, <1>3, <2>2, <3>1 DEF Typed
    <3> QED BY <1>1, <1>2, <1>4, <2>0, <2>2, <3>1, <3>2, ServedKeeps
  <2>3. CASE m.request.op = "Read"
    <3>1. opened # 0 /\ UNCHANGED server /\ m.request.offset < Size
      BY <1>3, <1>6, <2>3, ConstantsAssumption DEF Answer, Bytes
    <3>2. toStation' = Append(toStation,
            [type |-> "Data", op |-> "Read", seq |-> seq, file |-> opened, offset |-> m.request.offset,
             count |-> Least(m.request.count, Size - m.request.offset), complete |-> FALSE])
      BY <1>6, <2>3, <3>1, <1>3, ConstantsAssumption DEF Answer, Data, Bytes
    <3>3. PICK o \in 0 .. Size, n \in 1 .. DataLen : o = m.request.offset /\ n = m.request.count
      BY <1>3, <2>3, ConstantsAssumption DEF Bytes
    <3>4. PICK r : r = [type |-> "Data", op |-> "Read", seq |-> seq, file |-> opened, offset |-> o,
                        count |-> Least(n, Size - o), complete |-> FALSE]
      OBVIOUS
    <3>5. r \in Replied /\ Least(n, Size - o) \in 1 .. n
      BY <1>0, <1>2, <3>1, <3>3, <3>4, PacketOf
    <3>6. /\ r.op = "Read" /\ r.seq = seq /\ r.file = opened
          /\ r.offset = m.request.offset /\ r.count <= m.request.count
      BY <3>3, <3>4, <3>5, ConstantsAssumption
    <3>7. toStation' = Append(toStation, r)
      BY <3>2, <3>3, <3>4
    <3>8. /\ opened' = opened /\ opened' \in 0 .. MaxDownloads
          /\ stream' # NoStream => stream' \in [seq : Numbers, offset : 0 .. Size] /\ opened' # 0
      BY <1>0, <3>1 DEF Typed, server
    <3>9. \E x \in Replied :
              /\ toStation' = Append(toStation, x)
              /\ x.op = m.request.op /\ x.seq = Forward(m.seq, 1)
              /\ x.type = "Data" =>
                   /\ m.request.op = "Read" /\ x.file = opened
                   /\ x.offset = m.request.offset /\ x.count <= m.request.count
              /\ x.op = "Open" /\ x.type = "Ack" => opened' = m.request.file /\ stream' = NoStream
      BY <1>1, <2>3, <3>5, <3>6, <3>7
    <3> QED BY <1>1, <1>2, <1>4, <2>0, <3>8, <3>9, ServedKeeps
  <2> QED BY <1>3, <2>1, <2>2, <2>3
<1> QED BY <1>1, <1>2, <1>5, <1>6 DEF ServerReceive

\* What the server sends next of a burst.
LEMMA StreamSends ==
  ASSUME Typed, Stream
  PROVE  /\ stream # NoStream /\ opened # 0
         /\ stream \in [seq : Numbers, offset : 0 .. Size]
         /\ \E r \in Replied :
              /\ toStation' = Append(toStation, r)
              /\ r.op = "Burst" /\ r.seq = stream.seq
              /\ \/ /\ r.type = "Eof" /\ stream.offset >= Size /\ stream' = NoStream
                 \/ /\ r.type = "Data" /\ r.file = opened /\ r.offset = stream.offset
                    /\ r.count = Least(DataLen, Size - stream.offset) /\ stream.offset < Size
                    /\ r.offset + r.count <= Size
                    /\ stream' = IF r.complete THEN NoStream
                                 ELSE [seq |-> Forward(stream.seq, 1), offset |-> r.offset + r.count]
         /\ stream' # NoStream => stream' \in [seq : Numbers, offset : 0 .. Size]
<1>1. /\ stream # NoStream /\ opened # 0
      /\ stream \in [seq : Numbers, offset : 0 .. Size]
  BY DEF Stream, Typed
<1>2. PICK q \in Numbers, o \in 0 .. Size : q = stream.seq /\ o = stream.offset
  BY <1>1
<1>3. CASE o >= Size
  <2> DEFINE r == [type |-> "Eof", op |-> "Burst", seq |-> q]
  <2>1. r \in Replied /\ r.type = "Eof" /\ r.op = "Burst" /\ r.seq = q
    BY <1>2 DEF Replied
  <2>2. toStation' = Append(toStation, r) /\ stream' = NoStream
    BY <1>2, <1>3, ConstantsAssumption DEF Stream, Reply
  <2> HIDE DEF r
  <2>3. \E x \in Replied :
              /\ toStation' = Append(toStation, x)
              /\ x.op = "Burst" /\ x.seq = stream.seq
              /\ x.type = "Eof" /\ stream.offset >= Size /\ stream' = NoStream
    BY <1>2, <1>3, <2>1, <2>2
  <2> QED BY <1>1, <2>2, <2>3
<1>4. CASE o < Size
  <2>0. /\ Size \in Nat /\ ~(o >= Size)
    BY <1>4, ConstantsAssumption
  <2>1. PICK n : n = Least(DataLen, Size - o)
    OBVIOUS
  <2>2. PICK complete \in BOOLEAN :
          /\ Data("Burst", q, o, n, complete)
          /\ stream' = IF complete THEN NoStream ELSE [seq |-> Forward(q, 1), offset |-> o + n]
    BY <1>2, <2>0, <2>1 DEF Stream
  <2>3. PICK r : r = [type |-> "Data", op |-> "Burst", seq |-> q, file |-> opened, offset |-> o,
                      count |-> n, complete |-> complete]
    OBVIOUS
  <2>4. r \in Replied /\ n \in 1 .. DataLen /\ o + n <= Size
    <3>1. DataLen \in 1 .. DataLen
      BY ConstantsAssumption
    <3> QED BY <1>1, <1>2, <1>4, <2>1, <2>2, <2>3, <3>1, PacketOf
  <2>5. toStation' = Append(toStation, r)
    BY <2>2, <2>3 DEF Data
  <2>6. /\ r.op = "Burst" /\ r.seq = q /\ r.type = "Data" /\ r.file = opened /\ r.offset = o
        /\ r.count = n /\ r.complete = complete
    BY <2>3
  <2>7. Forward(q, 1) \in Numbers /\ o + n \in 0 .. Size
    <3>1. q \in Int
      BY ConstantsAssumption DEF Numbers
    <3>2. o + n \in 0 .. Size
      BY <2>0, <2>4, ConstantsAssumption
    <3> QED BY <3>1, <3>2, ForwardType
  <2>8. stream' # NoStream => stream' \in [seq : Numbers, offset : 0 .. Size]
    BY <2>2, <2>7
  <2>9. \E x \in Replied :
          /\ toStation' = Append(toStation, x)
          /\ x.op = "Burst" /\ x.seq = stream.seq
          /\ x.type = "Data" /\ x.file = opened /\ x.offset = stream.offset
          /\ x.count = Least(DataLen, Size - stream.offset) /\ stream.offset < Size
          /\ x.offset + x.count <= Size
          /\ stream' = IF x.complete THEN NoStream
                       ELSE [seq |-> Forward(stream.seq, 1), offset |-> x.offset + x.count]
    BY <1>2, <1>4, <2>1, <2>2, <2>4, <2>5, <2>6
  <2> QED BY <1>1, <2>8, <2>9
<1> QED
  <2>1. o >= Size \/ o < Size
    BY ConstantsAssumption
  <2> QED BY <1>3, <1>4, <2>1

LEMMA StreamKeeps ==
  ASSUME IInv, Stream
  PROVE  IInv'
<1>0. Typed /\ Accounted /\ Session /\ ((phase = "Reset" \/ result = "Ok") /\ checkSize => Whole)
  BY DEF IInv
<1>1. UNCHANGED <<station, opened, toVehicle, faults, cancels, dead, late, refused>>
  BY DEF Stream
<1>2. UNCHANGED <<file, phase, expectedSeq, expectedOffset, written, got, missing, checkSize, result,
                  opened, toVehicle, cancels>>
  BY <1>1 DEF station, transfer
<1>3. /\ stream # NoStream /\ opened # 0
      /\ stream' # NoStream => stream' \in [seq : Numbers, offset : 0 .. Size]
  BY <1>0, StreamSends
<1>4. PICK r \in Replied :
        /\ toStation' = Append(toStation, r)
        /\ r.op = "Burst" /\ (r.type = "Eof" \/ (r.type = "Data" /\ r.file = opened))
  BY <1>0, StreamSends
<1>5. /\ toStation' \in Seq(Replied) /\ Len(toStation') = Len(toStation) + 1
      /\ Len(toStation) \in Nat /\ DOMAIN toStation = 1 .. Len(toStation)
      /\ DOMAIN toStation' = 1 .. Len(toStation) + 1
      /\ \A i \in DOMAIN toStation : toStation'[i] = toStation[i]
      /\ toStation'[Len(toStation) + 1] = r
  BY <1>0, <1>4, Answered
<1>6. \A i \in DOMAIN toStation' :
        \/ i \in DOMAIN toStation /\ toStation'[i] = toStation[i]
        \/ /\ toStation'[i].op = "Burst"
           /\ toStation'[i].type = "Eof" \/ (toStation'[i].type = "Data" /\ toStation'[i].file = opened)
  BY <1>4, <1>5
<1>7. Typed'
  BY <1>0, <1>1, <1>3, <1>5 DEF Typed, station, transfer
<1>8. Accounted'
  BY <1>0, <1>2, AccountedStays
<1>9. Session'
  <2>1. OpensAreNear'
    BY <1>0, <1>2, <1>6 DEF Session, OpensAreNear, Back, Reach
  <2>2. phase = "Open" => Opening'
    BY <1>0, <1>2, <1>3, <1>6 DEF Session, Opening
  <2>3. phase \in {"Burst", "Fill"} => Opened'
    BY <1>0, <1>2, <1>6 DEF Session, Opened
  <2>4. phase = "Burst" => NoReads'
    BY <1>0, <1>2, <1>6 DEF Session, NoReads
  <2>5. phase = "Fill" => ReadsFit'
    BY <1>0, <1>2, <1>6 DEF Session, ReadsFit
  <2> QED BY <1>2, <2>1, <2>2, <2>3, <2>4, <2>5 DEF Session
<1> QED BY <1>0, <1>2, <1>7, <1>8, <1>9 DEF IInv, Whole

\* The station reads the first message.
Receives(m) ==
  /\ toStation # <<>> /\ m = Head(toStation)
  /\ DeliveredOnceMore
  /\ UNCHANGED <<server, cancels, dead, late, refused>>

LEMMA Received ==
  ASSUME Typed, NEW m, Receives(m)
  PROVE  /\ m \in Replied /\ m = toStation[1] /\ 1 \in DOMAIN toStation
         /\ toStation # <<>> /\ toStation \in Seq(Replied)
         /\ toStation' \in Seq(Replied) /\ Rest(toStation, toStation')
         /\ \A i \in DOMAIN toStation' : \E j \in DOMAIN toStation :
              toStation'[i] = toStation[j] /\ (j = 1 => i = 1)
         /\ faults' \in 0 .. MaxFaults /\ late' \in BOOLEAN
         /\ UNCHANGED <<server, cancels, dead, late, refused>>
<1>1. /\ toStation # <<>> /\ m = Head(toStation) /\ toStation \in Seq(Replied)
      /\ UNCHANGED <<server, cancels, dead, late, refused>>
      /\ DeliveredOnceMore /\ late' \in BOOLEAN
  BY DEF Receives, Typed
<1>2. /\ m \in Replied /\ m = toStation[1] /\ 1 \in DOMAIN toStation
  BY <1>1, TailFacts
<1>3. toStation' \in Seq(Replied) /\ Rest(toStation, toStation')
  BY <1>1, RestFacts DEF DeliveredOnceMore
<1>4. \A i \in DOMAIN toStation' : \E j \in DOMAIN toStation :
        toStation'[i] = toStation[j] /\ (j = 1 => i = 1)
  BY <1>1, <1>3, RestParts
<1>5. faults' \in 0 .. MaxFaults
  BY <1>1, ConstantsAssumption DEF DeliveredOnceMore, Typed
<1> QED BY <1>1, <1>2, <1>3, <1>4, <1>5

LEMMA IgnoredKeeps ==
  ASSUME IInv, NEW m, Receives(m), Ignored
  PROVE  IInv'
<1>1. Typed
  BY DEF IInv
<1>2. /\ toStation' \in Seq(Replied) /\ Rest(toStation, toStation') /\ faults' \in 0 .. MaxFaults
      /\ UNCHANGED <<server, cancels, dead, late, refused>>
  BY <1>1, Received
<1>3. UNCHANGED station /\ UNCHANGED toVehicle
  BY DEF Ignored
<1>4. toVehicle' \in Seq(Asked) /\ Rest(toVehicle, toVehicle') /\ dead' \in BOOLEAN
  BY <1>1, <1>2, <1>3, RestFacts DEF Typed
<1> QED BY <1>2, <1>3, <1>4, LossKeeps

LEMMA EndedKeeps ==
  ASSUME IInv, NEW m, Receives(m), phase # "Idle", retries' \in {retries, retries + 1},
         End("Failed") \/ (phase = "Reset" /\ End("Ok")), Unread
  PROVE  IInv'
<1>1. Typed
  BY DEF IInv
<1>2. /\ toStation' \in Seq(Replied) /\ Rest(toStation, toStation') /\ faults' \in 0 .. MaxFaults
      /\ late' \in BOOLEAN /\ UNCHANGED <<server, cancels, dead, late, refused>>
  BY <1>1, Received
<1>3. UNCHANGED <<file, checkSize, transfer>>
  BY DEF Unread
<1> QED BY <1>2, <1>3, EndsKeep

LEMMA OpenedKeeps ==
  ASSUME IInv, NEW m, Receives(m), phase = "Open", m.op = "Open", m.type = "Ack", m.seq = expectedSeq,
         retries' = 0, Burst(expectedSeq, 0), Unread
  PROVE  IInv'
<1>0. Typed /\ Accounted /\ Session /\ ((phase = "Reset" \/ result = "Ok") /\ checkSize => Whole)
  BY DEF IInv
<1>1. /\ m \in Replied /\ m = toStation[1] /\ 1 \in DOMAIN toStation /\ toStation \in Seq(Replied)
      /\ toStation' \in Seq(Replied) /\ faults' \in 0 .. MaxFaults
      /\ \A i \in DOMAIN toStation' : \E j \in DOMAIN toStation :
           toStation'[i] = toStation[j] /\ (j = 1 => i = 1)
      /\ UNCHANGED <<server, cancels, dead, late, refused>>
  BY <1>0, Received
<1>2. UNCHANGED <<file, checkSize, expectedOffset, written, got, missing, cancels, opened, stream>>
  BY <1>1 DEF Unread, transfer, server
<1>3. PICK request \in Requests : request = [op |-> "Burst", offset |-> 0]
  <2>1. 0 \in 0 .. Size
    BY ConstantsAssumption
  <2> QED BY <2>1, RequestFacts
<1>4. /\ Send(expectedSeq, request) /\ request.op = "Burst" /\ due' = TRUE
      /\ phase' = "Burst" /\ result' = result
  BY <1>3 DEF Burst, Continue, Ask
<1>5. 1 = Len(toStation) /\ toVehicle = <<>> /\ stream = NoStream /\ opened = file
  BY <1>0, <1>1 DEF Session, Opening
<1>6. expectedSeq \in Int
  BY <1>0, ConstantsAssumption DEF Typed, Numbers
<1>7. /\ expectedSeq' = Forward(expectedSeq, 2) /\ expectedSeq' \in Numbers /\ toVehicle' \in Seq(Asked)
      /\ IF dead THEN toVehicle' = <<>>
         ELSE toVehicle' = <<[seq |-> Forward(expectedSeq, 1), request |-> request]>>
  BY <1>0, <1>4, <1>5, <1>6, Sent
<1>8. \A i \in DOMAIN toVehicle' : toVehicle'[i].request.op = "Burst"
  BY <1>4, <1>7
<1>9. \A i \in DOMAIN toStation' : i = 1 /\ toStation'[i] = m
  <2>1. DOMAIN toStation = {1}
    BY <1>1, <1>5, LenProperties
  <2> QED BY <1>1, <2>1
<1>10. Typed'
  <2>1. file # 0 /\ retries' \in 0 .. MaxRetry + 1 /\ retries' <= MaxRetry
    BY <1>0, ConstantsAssumption DEF Typed
  <2> QED BY <1>0, <1>1, <1>2, <1>4, <1>7, <2>1 DEF Typed, Phases
<1>11. Accounted'
  BY <1>0, <1>2, <1>4, AccountedStays
<1>12. OpensAreNear'
  <2>1. Reach' \in Int /\ Reach + 2 <= Reach' /\ 0 <= Reach'
    <3>1. PICK f \in Nat, c \in Nat : f = file /\ c = cancels
      BY <1>0 DEF Typed
    <3>2. Reach = 4 * f + 2 * c - 2 /\ Reach' = 4 * f + 2 * c
      BY <1>2, <1>4, <3>1 DEF Reach
    <3> QED BY <3>2
  <2> QED BY <1>0, <1>1, <1>7, <1>8, <1>10, <2>1, NearStays DEF Session
<1>13. Opened' /\ NoReads'
  BY <1>2, <1>5, <1>8, <1>9 DEF Opened, NoReads
<1>14. Session'
  BY <1>4, <1>12, <1>13 DEF Session
<1> QED BY <1>0, <1>2, <1>4, <1>10, <1>11, <1>14 DEF IInv, Whole

\* A packet of the burst that adds to the file.
LEMMA BurstWrites ==
  ASSUME IInv, NEW m, Receives(m), phase = "Burst", m.op = "Burst", m.type = "Data",
         OnBurstData(m), WithinFile(m), m.offset >= expectedOffset
  PROVE  /\ m \in Packets /\ m.file = file /\ file' = file /\ checkSize' = checkSize
         /\ expectedOffset' = m.offset + m.count /\ expectedOffset' \in 0 .. Size
         /\ got' = got \cup BytesOf(m) /\ got' \subseteq (1 .. MaxDownloads) \X Bytes
         /\ written' = written + m.count /\ written' = Cardinality(got')
         /\ \A b \in got' : b[1] = file
         /\ missing' \in Seq(GapType) /\ Covers(expectedOffset', got', missing')
         /\ missing' = IF m.offset > expectedOffset
                       THEN Append(missing, [offset |-> expectedOffset, bytes |-> m.offset - expectedOffset])
                       ELSE missing
         /\ phase' = "Burst" /\ result' = result /\ due' = TRUE
         /\ IF m.complete
            THEN retries' = 0 /\ Send(m.seq, [op |-> "Burst", offset |-> expectedOffset'])
            ELSE expectedSeq' = Forward(m.seq, 1) /\ UNCHANGED <<retries, toVehicle>>
<1>0. Typed /\ Accounted /\ Session
  BY DEF IInv
<1>1. m \in Replied /\ m = toStation[1] /\ 1 \in DOMAIN toStation
  BY <1>0, Received
<1>2. /\ m \in Packets /\ m.count \in Nat /\ m.offset \in Nat /\ m.offset + m.count <= Size
      /\ expectedOffset \in 0 .. Size /\ Size \in Nat
  BY <1>0, <1>1, RepliedFields, PacketFields, ConstantsAssumption DEF Typed
<1>3. m.file = file
  BY <1>0, <1>1 DEF Session, Opened
<1>4. /\ GapBefore(m) /\ Written(m) /\ expectedOffset' = m.offset + m.count
      /\ file' = file /\ checkSize' = checkSize
      /\ IF m.complete
         THEN retries' = 0 /\ Burst(m.seq, m.offset + m.count)
         ELSE /\ expectedSeq' = Forward(m.seq, 1) /\ due' = TRUE
              /\ UNCHANGED <<phase, retries, result, toVehicle>>
  BY <1>2 DEF OnBurstData
<1>5. /\ got \subseteq (1 .. MaxDownloads) \X Bytes /\ missing \in Seq(GapType)
      /\ Covers(expectedOffset, got, missing) /\ expectedOffset <= m.offset
  BY <1>0, <1>2 DEF Typed, Accounted
<1>6. missing' = IF m.offset > expectedOffset
                 THEN Append(missing, [offset |-> expectedOffset, bytes |-> m.offset - expectedOffset])
                 ELSE missing
  BY <1>4 DEF GapBefore
<1>7. PICK after : after = missing'
  OBVIOUS
<1>8. /\ Covers(m.offset + m.count, got \cup BytesOf(m), after)
      /\ after \in Seq(GapType)
      /\ \A b \in got : b[2] \notin m.offset .. m.offset + m.count - 1
  BY <1>2, <1>5, <1>6, <1>7, BurstCovers
<1>9. got' = got \cup BytesOf(m) /\ written' = written + m.count
  BY <1>4 DEF Written
<1>10. Cardinality(got \cup BytesOf(m)) = Cardinality(got) + m.count
  BY <1>2, <1>5, <1>8, CountNew
<1>16. got \cup BytesOf(m) \subseteq (1 .. MaxDownloads) \X Bytes
  BY <1>2, <1>5, BytesOfPacket
<1>11. \A b \in got' : b[1] = file
  <2>1. \A b \in BytesOf(m) : b[1] = m.file
    BY <1>2, BytesOfPacket
  <2> QED BY <1>0, <1>3, <1>9, <2>1 DEF Accounted
<1>12. written' = Cardinality(got')
  BY <1>0, <1>9, <1>10 DEF Accounted
<1>13. m.offset + m.count \in 0 .. Size
  BY <1>2
<1>14. phase' = "Burst" /\ result' = result /\ due' = TRUE
  BY <1>4 DEF Burst, Continue, Ask
<1>15. IF m.complete
       THEN retries' = 0 /\ Send(m.seq, [op |-> "Burst", offset |-> expectedOffset'])
       ELSE expectedSeq' = Forward(m.seq, 1) /\ UNCHANGED <<retries, toVehicle>>
  BY <1>4 DEF Burst, Continue, Ask
<1> QED BY <1>2, <1>3, <1>4, <1>6, <1>7, <1>8, <1>9, <1>10, <1>11, <1>12, <1>13, <1>14, <1>15, <1>16

\* The burst goes on.
LEMMA BurstGoesOn ==
  ASSUME IInv, NEW m, Receives(m), phase = "Burst", m.op = "Burst",
         file' = file, phase' = "Burst", toVehicle' \in Seq(Asked),
         \A i \in DOMAIN toVehicle' :
           \/ i \in DOMAIN toVehicle /\ toVehicle'[i] = toVehicle[i]
           \/ toVehicle'[i].request.op = "Burst"
  PROVE  Session'
<1>0. Typed /\ Opened /\ NoReads
  BY DEF IInv, Session
<1>1. /\ toStation # <<>> /\ m = Head(toStation)
  BY DEF Receives
<1>2. /\ \A i \in DOMAIN toStation : toStation[i].op # "Open"
  BY <1>0, <1>1, NoOpensLeft
<1>3. /\ toStation' \in Seq(Replied) /\ Rest(toStation, toStation')
      /\ \A i \in DOMAIN toStation' : \E j \in DOMAIN toStation : toStation'[i] = toStation[j]
      /\ opened' = opened
  BY <1>0, Received DEF server
<1>4. \A i \in DOMAIN toVehicle' : toVehicle'[i].request.op \in {"Burst", "Read"}
  BY <1>0 DEF Opened
<1>5. Opened' /\ OpensAreNear'
  BY <1>0, <1>2, <1>3, <1>4, OpenedGoesOn
<1>6. NoReads'
  BY <1>0, <1>3 DEF NoReads
<1> QED BY <1>5, <1>6 DEF Session

LEMMA BurstDataKeeps ==
  ASSUME IInv, NEW m, Receives(m), phase = "Burst", m.op = "Burst", m.type = "Data", OnBurstData(m)
  PROVE  IInv'
<1>0. Typed /\ Accounted /\ Session /\ ((phase = "Reset" \/ result = "Ok") /\ checkSize => Whole)
  BY DEF IInv
<1>1. /\ m \in Replied /\ m.seq \in Numbers /\ m.seq \in Int
      /\ toStation' \in Seq(Replied) /\ Rest(toStation, toStation') /\ faults' \in 0 .. MaxFaults
      /\ UNCHANGED <<server, cancels, dead, late, refused>>
  <2>1. /\ m \in Replied /\ toStation' \in Seq(Replied) /\ Rest(toStation, toStation')
        /\ faults' \in 0 .. MaxFaults /\ UNCHANGED <<server, cancels, dead, late, refused>>
    BY <1>0, Received
  <2>2. m.seq \in Numbers
    BY <2>1, RepliedFields
  <2> QED BY <2>1, <2>2, ConstantsAssumption DEF Numbers
<1>2. CASE ~WithinFile(m)
  BY <1>2, EndedKeeps DEF OnBurstData
<1>3. CASE WithinFile(m) /\ m.offset < expectedOffset
  <2>1. /\ due' = TRUE
        /\ UNCHANGED <<phase, expectedSeq, retries, result, toVehicle>> /\ Unread
    <3>1. m.offset \in Nat /\ expectedOffset \in Nat
      BY <1>0, <1>1, RepliedFields, PacketFields DEF Typed
    <3> QED BY <1>3, <3>1 DEF OnBurstData
  <2>2. UNCHANGED <<file, phase, expectedSeq, transfer, cancels, opened, toVehicle, checkSize, result>>
    BY <1>1, <2>1 DEF Unread, server
  <2>3. Typed'
    BY <1>0, <1>1, <2>1, <2>2 DEF Typed, transfer, server
  <2>4. Accounted' /\ Session'
    BY <1>0, <1>1, <2>2, <2>3, AgainKeeps
  <2> QED BY <1>0, <2>2, <2>3, <2>4 DEF IInv, Whole, transfer
<1>4. CASE WithinFile(m) /\ m.offset >= expectedOffset
  <2>1. /\ m \in Packets /\ file' = file /\ checkSize' = checkSize
        /\ expectedOffset' \in 0 .. Size
        /\ got' \subseteq (1 .. MaxDownloads) \X Bytes
        /\ written' = Cardinality(got')
        /\ \A b \in got' : b[1] = file
        /\ missing' \in Seq(GapType) /\ Covers(expectedOffset', got', missing')
        /\ phase' = "Burst" /\ result' = result /\ due' = TRUE
        /\ IF m.complete
           THEN retries' = 0 /\ Send(m.seq, [op |-> "Burst", offset |-> expectedOffset'])
           ELSE expectedSeq' = Forward(m.seq, 1) /\ UNCHANGED <<retries, toVehicle>>
    BY <1>4, BurstWrites
  <2>2. /\ expectedSeq' \in Numbers /\ toVehicle' \in Seq(Asked) /\ retries' \in {0, retries}
        /\ \A i \in DOMAIN toVehicle' :
             \/ i \in DOMAIN toVehicle /\ toVehicle'[i] = toVehicle[i]
             \/ toVehicle'[i].request.op = "Burst"
    <3>1. CASE m.complete
      <4>1. PICK o \in 0 .. Size, request \in Requests :
              o = expectedOffset' /\ request = [op |-> "Burst", offset |-> o]
        BY <2>1, RequestFacts
      <4>2. Send(m.seq, request) /\ request.op = "Burst" /\ retries' = 0
        BY <2>1, <3>1, <4>1
      <4>3. /\ expectedSeq' \in Numbers /\ toVehicle' \in Seq(Asked)
            /\ \A i \in DOMAIN toVehicle' :
                 (i \in DOMAIN toVehicle /\ toVehicle'[i] = toVehicle[i]) \/ toVehicle'[i].request = request
        BY <1>0, <1>1, <4>2, SentOrOld
      <4> QED BY <4>2, <4>3
    <3>2. CASE ~m.complete
      <4>1. Forward(m.seq, 1) \in Numbers
        BY <1>1, ForwardType
      <4> QED BY <1>0, <2>1, <3>2, <4>1 DEF Typed
    <3> QED BY <3>1, <3>2
  <2>3. Typed'
    <3>1. file # 0 /\ retries' \in 0 .. MaxRetry + 1 /\ retries' <= MaxRetry
      BY <1>0, <2>2, ConstantsAssumption DEF Typed
    <3> QED BY <1>0, <1>1, <2>1, <2>2, <3>1 DEF Typed, Phases, server
  <2>4. Accounted'
    BY <2>1 DEF Accounted
  <2>5. Session'
    BY <2>1, <2>2, BurstGoesOn
  <2>6. ~(phase' = "Reset") /\ ~(result' = "Ok")
    BY <1>0, <2>1 DEF Typed
  <2> QED BY <2>3, <2>4, <2>5, <2>6 DEF IInv
<1> QED
  <2>1. m.offset < expectedOffset \/ m.offset >= expectedOffset
    BY <1>0, <1>1, RepliedFields, PacketFields DEF Typed
  <2> QED BY <1>2, <1>3, <1>4, <2>1

\* The next gap is asked for, or there is none left.
LEMMA FillGoesOn ==
  ASSUME IInv, NEW m, Receives(m), phase \in {"Burst", "Fill"}, m.op # "Open",
         file' = file, checkSize' = checkSize, retries' \in {0, retries},
         NEW gaps \in Seq(GapType), missing' = gaps, NEW count, written' = count,
         got' \subseteq (1 .. MaxDownloads) \X Bytes, count = Cardinality(got'),
         \A b \in got' : b[1] = file,
         NEW n \in 0 .. Size, Covers(n, got', gaps),
         gaps # <<>> =>
           /\ \A i \in DOMAIN toVehicle : toVehicle[i].request.op = "Read" =>
                Fits(toVehicle[i].request.offset, toVehicle[i].request.count, gaps[1])
           /\ \A i \in DOMAIN toStation : toStation[i].op = "Read" /\ toStation[i].type = "Data" =>
                Fits(toStation[i].offset, toStation[i].count, gaps[1]),
         Fill(expectedSeq, gaps, count)
  PROVE  IInv'
<1>0. /\ Typed /\ Accounted /\ Opened /\ file \in 1 .. MaxDownloads /\ result = "None"
      /\ file # 0 /\ retries' \in 0 .. MaxRetry + 1 /\ retries' <= MaxRetry /\ expectedSeq \in Int
  BY ConstantsAssumption DEF IInv, Session, Typed, Numbers
<1>1. /\ toStation' \in Seq(Replied) /\ Rest(toStation, toStation') /\ faults' \in 0 .. MaxFaults
      /\ \A i \in DOMAIN toStation' : \E j \in DOMAIN toStation : toStation'[i] = toStation[j]
      /\ UNCHANGED <<server, cancels, dead, late, refused>> /\ opened' = opened /\ stream' = stream
  BY <1>0, Received DEF server
<1>2. /\ \A i \in DOMAIN toVehicle : toVehicle[i].request.op # "Open"
      /\ \A i \in DOMAIN toStation : toStation[i].op # "Open"
  BY <1>0, NoOpensLeft DEF Receives
<1>3. \A i \in DOMAIN toVehicle : toVehicle[i].request.op \in {"Burst", "Read"}
  BY <1>0 DEF Opened
<1>4. CASE gaps # <<>>
  <2>1. /\ phase' = "Fill" /\ result' = result /\ expectedOffset' = gaps[1].offset /\ due' = TRUE
        /\ Send(expectedSeq, ReadOf(gaps[1]))
    BY <1>4 DEF Fill, ReadGap, Continue, Ask
  <2>2. gaps[1] \in GapType /\ gaps[1].offset \in 0 .. Size
    <3>1. 1 \in DOMAIN gaps
      BY <1>4, TailFacts
    <3> QED BY <3>1, GapFields, ConstantsAssumption
  <2>3. PICK request \in Requests :
          request = ReadOf(gaps[1]) /\ request.op = "Read" /\ Fits(request.offset, request.count, gaps[1])
    BY <2>2, RequestFacts
  <2>4. /\ expectedSeq' \in Numbers /\ toVehicle' \in Seq(Asked)
        /\ \A i \in DOMAIN toVehicle' :
             (i \in DOMAIN toVehicle /\ toVehicle'[i] = toVehicle[i]) \/ toVehicle'[i].request = request
    <3>1. Send(expectedSeq, request)
      BY <2>1, <2>3
    <3> QED BY <1>0, <3>1, SentOrOld
  <2>6. Typed'
    BY <1>0, <1>1, <2>1, <2>2, <2>4 DEF Typed, Phases
  <2>7. Accounted'
    BY <1>4, <2>1 DEF Accounted
  <2>8. Opened' /\ OpensAreNear'
    <3>1. \A i \in DOMAIN toVehicle' : toVehicle'[i].request.op \in {"Burst", "Read"}
      BY <1>3, <2>3, <2>4
    <3> QED BY <1>0, <1>1, <1>2, <3>1, OpenedGoesOn
  <2>9. ReadsFit'
    <3>1. \A i \in DOMAIN toVehicle' : toVehicle'[i].request.op = "Read" =>
             Fits(toVehicle'[i].request.offset, toVehicle'[i].request.count, gaps[1])
      BY <1>4, <2>3, <2>4
    <3>2. \A i \in DOMAIN toStation' : toStation'[i].op = "Read" /\ toStation'[i].type = "Data" =>
             Fits(toStation'[i].offset, toStation'[i].count, gaps[1])
      BY <1>1, <1>4
    <3> QED BY <3>1, <3>2 DEF ReadsFit
  <2>10. Session'
    BY <2>1, <2>8, <2>9 DEF Session
  <2> QED BY <1>0, <2>1, <2>6, <2>7, <2>10 DEF IInv
<1>5. CASE gaps = <<>> /\ ~(~checkSize \/ count = Size)
  <2>1. /\ phase' = "Idle" /\ result' = "Failed" /\ expectedOffset' = expectedOffset /\ due' = FALSE
        /\ UNCHANGED <<expectedSeq, toVehicle>>
    BY <1>5 DEF Fill, End
  <2>2. Typed'
    BY <1>0, <1>1, <2>1 DEF Typed, Phases
  <2>3. Accounted'
    BY <2>1 DEF Accounted
  <2>4. Session'
    BY <1>1, <1>2, <2>1 DEF Session, OpensAreNear
  <2> QED BY <2>1, <2>2, <2>3, <2>4 DEF IInv
<1>6. CASE gaps = <<>> /\ (~checkSize \/ count = Size)
  <2>1. /\ phase' = "Reset" /\ result' = result /\ expectedOffset' = expectedOffset /\ due' = TRUE
        /\ Send(expectedSeq, [op |-> "Reset"])
    BY <1>6 DEF Fill, Reset, Continue, Ask
  <2>3. PICK request \in Requests : request = [op |-> "Reset"]
    BY RequestFacts
  <2>4. /\ expectedSeq' \in Numbers /\ toVehicle' \in Seq(Asked)
        /\ \A i \in DOMAIN toVehicle' :
             (i \in DOMAIN toVehicle /\ toVehicle'[i] = toVehicle[i]) \/ toVehicle'[i].request = request
    <3>1. Send(expectedSeq, request)
      BY <2>1, <2>3
    <3> QED BY <1>0, <3>1, SentOrOld
  <2>5. \A i \in DOMAIN toVehicle' : toVehicle'[i].request.op # "Open"
    BY <1>2, <2>3, <2>4
  <2>6. Typed'
    BY <1>0, <1>1, <2>1, <2>4 DEF Typed, Phases
  <2>7. Accounted'
    BY <2>1 DEF Accounted
  <2>8. Session'
    BY <1>1, <1>2, <2>1, <2>5 DEF Session, OpensAreNear
  <2>9. checkSize' => Whole'
    <3>1. ASSUME checkSize PROVE got' = {file} \X Bytes
      BY <1>0, <1>6, <3>1, AllBytes
    <3> QED BY <3>1 DEF Whole
  <2> QED BY <2>6, <2>7, <2>8, <2>9 DEF IInv
<1> QED BY <1>4, <1>5, <1>6

LEMMA BurstEndKeeps ==
  ASSUME IInv, NEW m, Receives(m), phase = "Burst", m.op = "Burst", OnBurstEnd(m)
  PROVE  IInv'
<1>0. Typed /\ Accounted /\ Session /\ NoReads /\ result = "None"
  BY DEF IInv, Session, Typed
<1>1. /\ m \in Replied /\ toStation' \in Seq(Replied) /\ Rest(toStation, toStation')
      /\ faults' \in 0 .. MaxFaults /\ UNCHANGED <<server, cancels, dead, late, refused>>
  BY <1>0, Received
<1>2. CASE m.seq # expectedSeq
  <2>1. retries' = 0 /\ Burst(m.seq, expectedOffset) /\ Unread
    BY <1>2 DEF OnBurstEnd
  <2>2. PICK request \in Requests : request = [op |-> "Burst", offset |-> expectedOffset]
    BY <1>0, RequestFacts DEF Typed
  <2>3. /\ Send(m.seq, request) /\ request.op = "Burst" /\ due' = TRUE
        /\ phase' = "Burst" /\ result' = result
    BY <2>1, <2>2 DEF Burst, Continue, Ask
  <2>4. m.seq \in Int
    <3>1. m.seq \in Numbers
      BY <1>1, RepliedFields
    <3> QED BY <3>1, ConstantsAssumption DEF Numbers
  <2>5. /\ expectedSeq' \in Numbers /\ toVehicle' \in Seq(Asked)
        /\ \A i \in DOMAIN toVehicle' :
             (i \in DOMAIN toVehicle /\ toVehicle'[i] = toVehicle[i]) \/ toVehicle'[i].request = request
    BY <1>0, <2>3, <2>4, SentOrOld
  <2>6. \A i \in DOMAIN toVehicle' :
          \/ i \in DOMAIN toVehicle /\ toVehicle'[i] = toVehicle[i]
          \/ toVehicle'[i].request.op = "Burst"
    BY <2>3, <2>5
  <2>7. UNCHANGED <<file, checkSize, expectedOffset, written, got, missing, phase, result>>
    BY <2>1, <2>3 DEF Unread, transfer
  <2>8. Typed'
    <3>1. file # 0 /\ retries' \in 0 .. MaxRetry + 1 /\ retries' <= MaxRetry
      BY <1>0, <2>1, ConstantsAssumption DEF Typed
    <3> QED BY <1>0, <1>1, <2>3, <2>5, <2>7, <3>1 DEF Typed, server
  <2>9. Accounted'
    BY <1>0, <2>7, AccountedStays
  <2>10. Session'
    BY <2>3, <2>5, <2>6, <2>7, BurstGoesOn
  <2> QED BY <1>0, <2>3, <2>8, <2>9, <2>10 DEF IInv
<1>3. CASE m.seq = expectedSeq
  <2>1. /\ retries' \in {0, retries}
        /\ Fill(expectedSeq, missing, written)
        /\ UNCHANGED <<file, checkSize, written, got, missing>>
    BY <1>3 DEF OnBurstEnd
  <2>2. /\ missing \in Seq(GapType) /\ missing' = missing /\ written' = written
        /\ got' = got /\ got \subseteq (1 .. MaxDownloads) \X Bytes /\ written = Cardinality(got)
        /\ \A b \in got : b[1] = file
    BY <1>0, <2>1 DEF Typed, Accounted
  <2>3. PICK n \in 0 .. Size : Covers(n, got, missing)
    BY <1>0 DEF Accounted
  <2>4. PICK gaps \in Seq(GapType), count \in {written} : gaps = missing
    BY <2>2
  <2>5. Fill(expectedSeq, gaps, count)
    BY <2>1, <2>4
  <2>6. /\ \A i \in DOMAIN toVehicle : toVehicle[i].request.op # "Read"
        /\ \A i \in DOMAIN toStation : toStation[i].op # "Read"
    BY <1>0 DEF NoReads
  <2>7. /\ missing' = gaps /\ written' = count /\ got' \subseteq (1 .. MaxDownloads) \X Bytes
        /\ count = Cardinality(got') /\ Covers(n, got', gaps) /\ \A b \in got' : b[1] = file
    BY <2>2, <2>3, <2>4
  <2> QED BY <2>1, <2>5, <2>6, <2>7, FillGoesOn
<1> QED BY <1>2, <1>3

\* A read of the first gap adds to the file, and to nothing that is there.
LEMMA FillWrites ==
  ASSUME IInv, NEW m, Receives(m), phase = "Fill", m.op = "Read", m.type = "Data",
         m.offset = expectedOffset, NEW n \in 0 .. Size, Covers(n, got, missing)
  PROVE  /\ m \in Packets /\ m.file = file
         /\ got \cup BytesOf(m) \subseteq (1 .. MaxDownloads) \X Bytes
         /\ written + m.count = Cardinality(got \cup BytesOf(m))
         /\ \A b \in got \cup BytesOf(m) : b[1] = file
         /\ Shrunk(m.count) \in Seq(GapType)
         /\ Covers(n, got \cup BytesOf(m), Shrunk(m.count))
         /\ missing # <<>> /\ expectedOffset = missing[1].offset
         /\ Shrunk(m.count) # <<>> => expectedOffset < Shrunk(m.count)[1].offset
<1>0. /\ Typed /\ Accounted /\ Opened /\ ReadsFit
  BY DEF IInv, Session
<1>1. m \in Replied /\ m = toStation[1] /\ 1 \in DOMAIN toStation
  BY <1>0, Received
<1>2. m \in Packets /\ m.count \in Nat /\ m.offset \in Nat
  BY <1>1, RepliedFields, PacketFields
<1>3. m.file = file
  BY <1>0, <1>1 DEF Opened
<1>4. /\ got \subseteq (1 .. MaxDownloads) \X Bytes /\ missing \in Seq(GapType)
      /\ missing # <<>> /\ expectedOffset = missing[1].offset
  BY <1>0 DEF Typed, Accounted
<1>5. m.offset = missing[1].offset /\ m.count <= missing[1].bytes
  <2>1. Fits(m.offset, m.count, missing[1])
    BY <1>0, <1>1 DEF ReadsFit
  <2> QED BY <1>2, <1>4, <2>1 DEF Fits
<1>6. PICK after : after = Shrunk(m.count)
  OBVIOUS
<1>7. /\ Covers(n, got \cup BytesOf(m), after)
      /\ after \in Seq(GapType)
      /\ \A b \in got : b[2] \notin m.offset .. m.offset + m.count - 1
      /\ after # <<>> => m.offset < after[1].offset
  BY <1>2, <1>4, <1>5, <1>6, FillCovers DEF Shrunk
<1>8. Cardinality(got \cup BytesOf(m)) = Cardinality(got) + m.count
  BY <1>2, <1>4, <1>7, CountNew
<1>9. got \cup BytesOf(m) \subseteq (1 .. MaxDownloads) \X Bytes
  BY <1>2, <1>4, BytesOfPacket
<1>10. \A b \in got \cup BytesOf(m) : b[1] = file
  <2>1. \A b \in BytesOf(m) : b[1] = m.file
    BY <1>2, BytesOfPacket
  <2> QED BY <1>0, <1>3, <2>1 DEF Accounted
<1> QED BY <1>0, <1>2, <1>3, <1>4, <1>6, <1>7, <1>8, <1>9, <1>10 DEF Accounted

LEMMA FillDataKeeps ==
  ASSUME IInv, NEW m, Receives(m), phase = "Fill", m.op = "Read", m.type = "Data", OnFillData(m)
  PROVE  IInv'
<1>0. /\ Typed /\ Accounted /\ Session /\ ReadsFit /\ missing \in Seq(GapType) /\ missing # <<>>
      /\ (phase = "Reset" \/ result = "Ok") /\ checkSize => Whole
  BY DEF IInv, Session, Typed, Accounted
<1>1. /\ toStation' \in Seq(Replied) /\ Rest(toStation, toStation')
      /\ faults' \in 0 .. MaxFaults /\ UNCHANGED <<server, cancels, dead, late, refused>>
  BY <1>0, Received
<1>2. CASE m.offset # expectedOffset /\ MayRetry
  <2>1. /\ Continue("Fill") /\ Ask(Again, ReadOf(missing[1])) /\ Unread /\ retries' = retries + 1
    BY <1>2 DEF OnFillData, CountedRetry
  <2>2. missing[1] \in GapType
    BY <1>0, TailFacts
  <2>3. PICK request \in Requests :
          /\ request = ReadOf(missing[1]) /\ request.op = "Read"
          /\ Fits(request.offset, request.count, missing[1])
    BY <2>2, RequestFacts
  <2>4. Send(Again, request) /\ due' = TRUE /\ phase' = phase /\ result' = result
    BY <2>1, <2>3 DEF Ask, Continue
  <2>5. /\ expectedSeq' = expectedSeq /\ toVehicle' \in Seq(Asked)
        /\ \A i \in DOMAIN toVehicle' :
             \/ i \in DOMAIN toVehicle /\ toVehicle'[i] = toVehicle[i]
             \/ toVehicle'[i] = [seq |-> Forward(expectedSeq, -1), request |-> request]
    BY <1>0, <2>4, SentAgain
  <2>6. UNCHANGED <<file, checkSize, transfer, phase, result, expectedSeq, cancels, opened>>
    BY <1>1, <2>1, <2>4, <2>5 DEF Unread, server
  <2>7. Typed'
    <3>1. file # 0 /\ retries' \in 0 .. MaxRetry + 1 /\ retries' <= MaxRetry
      BY <1>0, <1>2, <2>1, ConstantsAssumption DEF Typed, MayRetry
    <3> QED BY <1>0, <1>1, <2>4, <2>5, <2>6, <3>1 DEF Typed, transfer, server
  <2>8. Accounted' /\ Session'
    <3>1. \A i \in DOMAIN toVehicle' :
            \/ \E j \in DOMAIN toVehicle : toVehicle[j] = toVehicle'[i]
            \/ /\ phase = "Fill" /\ toVehicle'[i].request.op = "Read"
               /\ Fits(toVehicle'[i].request.offset, toVehicle'[i].request.count, missing[1])
      BY <2>3, <2>5
    <3> QED BY <1>0, <1>1, <2>6, <2>7, <3>1, AgainKeeps
  <2> QED BY <1>0, <2>6, <2>7, <2>8 DEF IInv, Whole, transfer
<1>3. CASE m.offset # expectedOffset /\ ~MayRetry
  <2>1. End("Failed") /\ Unread /\ retries' = retries + 1
    BY <1>3 DEF OnFillData, CountedRetry
  <2> QED BY <2>1, EndedKeeps
<1>4. CASE m.offset = expectedOffset /\ ~WithinFile(m)
  <2>1. End("Failed") /\ Unread /\ retries' = retries
    BY <1>4 DEF OnFillData
  <2> QED BY <2>1, EndedKeeps
<1>5. CASE m.offset = expectedOffset /\ WithinFile(m)
  <2>1. /\ Written(m) /\ missing' = Shrunk(m.count) /\ retries' \in {0, retries}
        /\ Fill(expectedSeq, Shrunk(m.count), written + m.count)
        /\ file' = file /\ checkSize' = checkSize
    BY <1>5 DEF OnFillData
  <2>2. PICK n \in 0 .. Size : Covers(n, got, missing)
    BY <1>0 DEF Accounted
  <2>3. /\ m \in Packets /\ m.file = file
        /\ got \cup BytesOf(m) \subseteq (1 .. MaxDownloads) \X Bytes
        /\ written + m.count = Cardinality(got \cup BytesOf(m))
        /\ \A b \in got \cup BytesOf(m) : b[1] = file
        /\ Shrunk(m.count) \in Seq(GapType)
        /\ Covers(n, got \cup BytesOf(m), Shrunk(m.count))
        /\ expectedOffset = missing[1].offset
        /\ Shrunk(m.count) # <<>> => expectedOffset < Shrunk(m.count)[1].offset
    BY <1>5, <2>2, FillWrites
  <2>4. PICK gaps \in Seq(GapType), count \in {written + m.count} : gaps = Shrunk(m.count)
    BY <2>3
  <2>5. /\ missing' = gaps /\ written' = count /\ got' = got \cup BytesOf(m)
        /\ Fill(expectedSeq, gaps, count)
    BY <2>1, <2>4 DEF Written
  <2>6. ASSUME gaps # <<>>, NEW offset \in Int, NEW k, Fits(offset, k, missing[1])
        PROVE  Fits(offset, k, gaps[1])
    <3>1. missing[1].offset < gaps[1].offset
      BY <2>3, <2>4, <2>6
    <3>2. missing[1].offset \in Int /\ gaps[1].offset \in Int
      <4>1. 1 \in DOMAIN missing /\ 1 \in DOMAIN gaps
        BY <1>0, <2>6, TailFacts
      <4> QED BY <1>0, <4>1, GapFields
    <3> QED BY <2>6, <3>1, <3>2 DEF Fits
  <2>7. ASSUME gaps # <<>>
        PROVE  /\ \A i \in DOMAIN toVehicle : toVehicle[i].request.op = "Read" =>
                    Fits(toVehicle[i].request.offset, toVehicle[i].request.count, gaps[1])
               /\ \A i \in DOMAIN toStation : toStation[i].op = "Read" /\ toStation[i].type = "Data" =>
                    Fits(toStation[i].offset, toStation[i].count, gaps[1])
    <3>1. ASSUME NEW i \in DOMAIN toVehicle, toVehicle[i].request.op = "Read"
          PROVE  Fits(toVehicle[i].request.offset, toVehicle[i].request.count, gaps[1])
      <4>1. toVehicle[i].request.offset \in Int
        BY <1>0, <3>1, InFlight, AskedFields, ConstantsAssumption DEF Bytes
      <4> QED BY <1>0, <2>6, <2>7, <3>1, <4>1 DEF ReadsFit
    <3>2. ASSUME NEW i \in DOMAIN toStation, toStation[i].op = "Read", toStation[i].type = "Data"
          PROVE  Fits(toStation[i].offset, toStation[i].count, gaps[1])
      <4>1. toStation[i].offset \in Int
        BY <1>0, <3>2, InFlight, RepliedFields, PacketFields
      <4> QED BY <1>0, <2>6, <2>7, <3>2, <4>1 DEF ReadsFit
    <3> QED BY <3>1, <3>2
  <2>8. /\ got' \subseteq (1 .. MaxDownloads) \X Bytes /\ count = Cardinality(got')
        /\ Covers(n, got', gaps) /\ \A b \in got' : b[1] = file
    BY <2>3, <2>4, <2>5
  <2> QED BY <2>1, <2>2, <2>4, <2>5, <2>7, <2>8, FillGoesOn
<1> QED BY <1>2, <1>3, <1>4, <1>5

\* What the station reads.
LEMMA StationReceiveKeeps ==
  ASSUME IInv, StationReceive
  PROVE  IInv'
<1>1. PICK m : Receives(m) /\ OnPayload(m)
  BY DEF StationReceive, Receives
<1>2. m \in Replied
  BY <1>1, Received DEF IInv
<1>3. CASE Ignored
  BY <1>1, <1>3, IgnoredKeeps
<1>4. CASE phase # "Idle" /\ m.op = Asks(phase) /\ phase = "Open" /\ OnOpen(m) /\ ~Ignored
  <2>1. m.op = "Open" /\ m.seq = expectedSeq
    BY <1>4 DEF Asks, OnOpen
  <2>2. CASE m.type = "Ack"
    BY <1>1, <1>4, <2>1, <2>2, OpenedKeeps DEF OnOpen
  <2>3. CASE m.type # "Ack"
    BY <1>1, <1>4, <2>1, <2>3, EndedKeeps DEF OnOpen
  <2> QED BY <2>2, <2>3
<1>5. CASE phase # "Idle" /\ m.op = Asks(phase) /\ phase = "Burst" /\ OnBurst(m)
  <2>1. m.op = "Burst"
    BY <1>5 DEF Asks
  <2>2. CASE m.type = "Data" /\ OnBurstData(m)
    BY <1>1, <1>5, <2>1, <2>2, BurstDataKeeps
  <2>3. CASE m.type = "Eof" /\ OnBurstEnd(m)
    BY <1>1, <1>5, <2>1, <2>3, BurstEndKeeps
  <2>4. CASE End("Failed") /\ UNCHANGED retries /\ Unread
    BY <1>1, <1>5, <2>4, EndedKeeps
  <2> QED BY <1>5, <2>2, <2>3, <2>4 DEF OnBurst
<1>6. CASE phase # "Idle" /\ m.op = Asks(phase) /\ phase = "Fill" /\ OnFill(m) /\ ~Ignored
  <2>1. m.op = "Read"
    BY <1>6 DEF Asks
  <2>2. CASE m.type = "Data" /\ OnFillData(m)
    BY <1>1, <1>6, <2>1, <2>2, FillDataKeeps
  <2>3. CASE m.type \in {"Nak", "Eof"} /\ ~(m.type = "Data" /\ OnFillData(m))
    <3>1. m.type = "Nak"
      BY <1>2, <2>1, <2>3, RepliedFields
    <3>2. End("Failed") /\ UNCHANGED retries /\ Unread
      BY <1>6, <2>3, <3>1 DEF OnFill
    <3> QED BY <1>1, <1>6, <3>2, EndedKeeps
  <2> QED BY <1>6, <2>2, <2>3 DEF OnFill
<1>7. CASE phase = "Reset" /\ OnReset(m) /\ ~Ignored
  BY <1>1, <1>7, EndedKeeps DEF OnReset
<1>8. CASE phase = "Terminate" /\ OnTerminate(m) /\ ~Ignored
  BY <1>1, <1>8, EndedKeeps DEF OnTerminate
<1> QED BY <1>1, <1>3, <1>4, <1>5, <1>6, <1>7, <1>8 DEF OnPayload

\* Every step keeps the invariant: a request of the station, a timer, an answer of any
\* phase, a packet of the server, and a link that loses, repeats or dies.
THEOREM Continues == Distinct /\ IInv /\ [Next]_vars => IInv'
<1> SUFFICES ASSUME Distinct, IInv, [Next]_vars PROVE IInv'
  OBVIOUS
<1>1. ASSUME NEW check \in BOOLEAN, Start(check) PROVE IInv'
  BY <1>1, StartKeeps
<1>2. CASE Cancel \/ Abandon
  BY <1>2, CancelKeeps
<1>3. CASE Timeout
  BY <1>3, TimeoutKeeps
<1>4. CASE StationReceive
  BY <1>4, StationReceiveKeeps
<1>5. CASE ServerReceive
  BY <1>5, ServerReceiveKeeps
<1>6. CASE Stream
  BY <1>6, StreamKeeps
<1>7. CASE Lose \/ Die \/ UNCHANGED vars
  BY <1>7, LinkKeeps
<1> QED BY <1>1, <1>2, <1>3, <1>4, <1>5, <1>6, <1>7 DEF Next

-----------------------------------------------------------------------------
(* What the invariant says of every download.                              *)

LEMMA Holds == Distinct => (Spec => []IInv)
<1> SUFFICES ASSUME Distinct PROVE Spec => []IInv
  OBVIOUS
<1>1. Init => IInv
  BY Begins
<1>2. IInv /\ [Next]_vars => IInv'
  BY Continues
<1> QED BY <1>1, <1>2, PTL DEF Spec

LEMMA TypeHolds == IInv => TypeOK
<1> SUFFICES ASSUME IInv PROVE TypeOK
  OBVIOUS
<1>1. Typed /\ Accounted
  BY DEF IInv
<1>2. written \in 0 .. Size
  <2>1. got \subseteq (1 .. MaxDownloads) \X Bytes /\ (\A b \in got : b[1] = file) /\ Size \in Nat
        /\ written = Cardinality(got)
    BY <1>1, ConstantsAssumption DEF Typed, Accounted
  <2>2. CASE file \in 1 .. MaxDownloads
    <3>1. Cardinality(got) \in Nat /\ Cardinality(got) <= Size
      BY <2>1, <2>2, AllBytes
    <3> QED BY <2>1, <3>1
  <2>3. CASE file \notin 1 .. MaxDownloads
    <3>1. got = {}
      BY <2>1, <2>3
    <3> QED BY <2>1, <3>1, FS_EmptySet
  <2> QED BY <2>2, <2>3
<1> QED BY <1>1, <1>2 DEF TypeOK, Typed, Numbers, GapType

\* Bytes and gaps are sets of offsets that share none and fill up what has been passed.
LEMMA CoversSets ==
  ASSUME NEW n \in 0 .. Size, got \subseteq (1 .. MaxDownloads) \X Bytes, missing \in Seq(GapType),
         Covers(n, got, missing)
  PROVE  /\ Offsets \cap Gaps = {}
         /\ \A i, j \in DOMAIN missing : i # j => Gap(i) \cap Gap(j) = {}
         /\ Offsets \cup Gaps = 0 .. n - 1
<1>1. /\ \A b \in got : b[2] \in 0 .. n - 1
      /\ Sorted(missing, n)
      /\ \A x \in 0 .. n - 1 : (\E b \in got : b[2] = x) <=> ~InGap(x, missing)
  <2>1. PICK bytes \in SUBSET ((1 .. MaxDownloads) \X Bytes), gaps \in Seq(GapType) :
          bytes = got /\ gaps = missing
    OBVIOUS
  <2>2. n \in Nat /\ bytes \subseteq (1 .. MaxDownloads) \X Bytes /\ Covers(n, bytes, gaps)
    BY <2>1, ConstantsAssumption
  <2>3. /\ \A b \in bytes : b[2] \in 0 .. n - 1
        /\ Sorted(gaps, n)
        /\ \A x \in 0 .. n - 1 : (\E b \in bytes : b[2] = x) <=> ~InGap(x, gaps)
    BY <2>2, CoversParts
  <2> QED BY <2>1, <2>3
<1>2. \A i \in DOMAIN missing : /\ missing[i].offset \in Nat /\ missing[i].bytes \in Nat
                                /\ missing[i].offset + missing[i].bytes <= n
  BY <1>1 DEF Sorted
<1>3. \A i \in DOMAIN missing : \A x : x \in Gap(i) <=>
        /\ x \in 0 .. n - 1
        /\ missing[i].offset <= x /\ x < missing[i].offset + missing[i].bytes
  BY <1>2 DEF Gap
<1>4. \A x : x \in Gaps <=> x \in 0 .. n - 1 /\ InGap(x, missing)
  <2>1. \A x : x \in Gaps <=> \E i \in DOMAIN missing : x \in Gap(i)
    BY DEF Gaps
  <2> QED BY <1>3, <2>1 DEF InGap
<1>5. \A x : x \in Offsets <=> \E b \in got : b[2] = x
  BY DEF Offsets
<1>6. \A x : x \in Offsets <=> x \in 0 .. n - 1 /\ ~InGap(x, missing)
  BY <1>1, <1>5
<1>7. ASSUME NEW i \in DOMAIN missing, NEW j \in DOMAIN missing, i # j
      PROVE  Gap(i) \cap Gap(j) = {}
  <2>1. i \in Nat /\ j \in Nat
    BY GapFields
  <2>2. i < j \/ j < i
    BY <1>7, <2>1
  <2>3. \/ missing[i].offset + missing[i].bytes <= missing[j].offset
        \/ missing[j].offset + missing[j].bytes <= missing[i].offset
    BY <1>1, <2>2 DEF Sorted
  <2>4. ASSUME NEW x, x \in Gap(i), x \in Gap(j) PROVE FALSE
    BY <1>2, <1>3, <2>3, <2>4
  <2> QED BY <2>4
<1> QED BY <1>4, <1>6, <1>7

LEMMA BytesHold == IInv => BytesAccounted
<1> SUFFICES ASSUME IInv PROVE BytesAccounted
  OBVIOUS
<1>1. Typed /\ Accounted
  BY DEF IInv
<1>2. got \subseteq (1 .. MaxDownloads) \X Bytes /\ missing \in Seq(GapType)
  BY <1>1 DEF Typed
<1>3. PICK n \in 0 .. Size : Covers(n, got, missing) /\ (phase = "Burst" => n = expectedOffset)
  BY <1>1 DEF Accounted
<1>4. /\ Offsets \cap Gaps = {}
      /\ \A i, j \in DOMAIN missing : i # j => Gap(i) \cap Gap(j) = {}
      /\ Offsets \cup Gaps = 0 .. n - 1
  BY <1>2, <1>3, CoversSets
<1>5. written = Cardinality(got) /\ (phase = "Fill" => missing # <<>> /\ expectedOffset = missing[1].offset)
  BY <1>1 DEF Accounted
<1> QED BY <1>3, <1>4, <1>5 DEF BytesAccounted

\* The types are right at any number of downloads: no request, no expected offset and no
\* gap lies outside the file, and retries stop at one past MAX_RETRY.
THEOREM TypeCorrect == Distinct => (Spec => []TypeOK)
<1> SUFFICES ASSUME Distinct PROVE Spec => []TypeOK
  OBVIOUS
<1>1. Spec => []IInv
  BY Holds
<1>2. IInv => TypeOK
  BY TypeHolds
<1> QED BY <1>1, <1>2, PTL

\* on_burst and on_fill lose no byte and count none twice, whatever the link loses, delays
\* or repeats, and on_fill never looks for a gap when there is none.
THEOREM BytesStayAccounted == Distinct => (Spec => []BytesAccounted)
<1> SUFFICES ASSUME Distinct PROVE Spec => []BytesAccounted
  OBVIOUS
<1>1. Spec => []IInv
  BY Holds
<1>2. IInv => BytesAccounted
  BY BytesHold
<1> QED BY <1>1, <1>2, PTL

-----------------------------------------------------------------------------
(* While nothing is late the packets in flight continue what was received. *)

LEMMA Products ==
  ASSUME NEW d \in Nat, NEW k \in Nat, NEW j \in Nat, k < j
  PROVE  /\ k * d \in Nat /\ j * d \in Nat /\ (j - 1) * d = j * d - d
         /\ (j - k - 1) * d = j * d - k * d - d
         /\ j - k - 1 = 0 => j * d = k * d + d
         /\ j - k - 1 >= 1 => j * d >= k * d + d + d /\ (j - k - 1 - 1) * d = j * d - k * d - d - d
         /\ j * d >= k * d + d
<1>1. PICK a \in Nat, b \in Nat : a = k * d /\ b = j * d
  OBVIOUS
<1>2. (j - 1) * d = j * d - d
  OBVIOUS
<1>3. (j - k - 1) * d = j * d - k * d - d
  OBVIOUS
<1>4. j - k - 1 >= 1 => (j - k - 1 - 1) * d >= 0 /\ (j - k - 1 - 1) * d = j * d - k * d - d - d
  OBVIOUS
<1>5. (j - k - 1) * d >= 0
  OBVIOUS
<1>6. j - k - 1 = 0 => (j - k - 1) * d = 0
  OBVIOUS
<1> QED BY <1>1, <1>2, <1>3, <1>4, <1>5, <1>6

\* The offset after packet k, and what lies past it.
LEMMA PlacesMove ==
  ASSUME NEW e \in 0 .. Size, NEW k \in Nat, NEW j \in Nat, k < j, e + k * DataLen < Size,
         NEW f, f = e + k * DataLen + Least(DataLen, Size - (e + k * DataLen))
  PROVE  /\ f \in 0 .. Size
         /\ e + j * DataLen < Size => f + (j - k - 1) * DataLen = e + j * DataLen
         /\ e + (j - 1) * DataLen < Size =>
              /\ Least(f + (j - k - 1) * DataLen, Size) = Least(e + j * DataLen, Size)
              /\ e + j * DataLen >= Size => f + (j - k - 1) * DataLen >= Size
              /\ j - k - 1 >= 1 => f + (j - k - 1 - 1) * DataLen < Size
<1>1. DataLen \in Nat /\ DataLen >= 1 /\ Size \in Nat /\ e \in Nat /\ e <= Size
  BY ConstantsAssumption
<1>2. PICK a \in Nat, b \in Nat, c \in Int : a = k * DataLen /\ b = j * DataLen /\ c = (j - k - 1) * DataLen
  BY <1>1
<1>3. /\ (j - 1) * DataLen = b - DataLen /\ c = b - a - DataLen /\ b >= a + DataLen
      /\ j - k - 1 = 0 => b = a + DataLen
      /\ j - k - 1 >= 1 => b >= a + DataLen + DataLen /\ (j - k - 1 - 1) * DataLen = b - a - DataLen - DataLen
  BY <1>1, <1>2, Products
<1>4. PICK d \in Nat : d = DataLen /\ d >= 1
  BY <1>1
<1>5. j - k - 1 = 0 \/ j - k - 1 >= 1
  OBVIOUS
<1>6. e + a < Size /\ f = e + a + Least(d, Size - (e + a))
  BY <1>2, <1>4
<1>7. f = IF d < Size - (e + a) THEN e + a + d ELSE Size
  BY <1>1, <1>6 DEF Least
<1>8. f \in 0 .. Size
  BY <1>1, <1>4, <1>6, <1>7
<1>9. e + b < Size => f + c = e + b
  BY <1>1, <1>3, <1>4, <1>7
<1>10. e + (b - d) < Size => /\ Least(f + c, Size) = Least(e + b, Size)
                             /\ e + b >= Size => f + c >= Size
  BY <1>1, <1>3, <1>4, <1>5, <1>7 DEF Least
<1>11. e + (b - d) < Size /\ j - k - 1 >= 1 => f + (b - a - d - d) < Size
  BY <1>1, <1>3, <1>4, <1>7
<1> QED BY <1>2, <1>3, <1>4, <1>8, <1>9, <1>10, <1>11

LEMMA SpentStays ==
  ASSUME NEW i, NEW j, toStation[j] \in Replied, toStation'[i] = toStation[j], Spent(j),
         expectedOffset \in Int, expectedOffset' \in Int, expectedOffset <= expectedOffset',
         j = 1 => i = 1 /\ expectedSeq' = expectedSeq
  PROVE  Spent(i)'
<1>1. PICK m \in Replied : m = toStation[j]
  OBVIOUS
<1>2. CASE m.op # "Burst" \/ m.type = "Nak"
  BY <1>1, <1>2 DEF Spent
<1>3. CASE m.type = "Data" /\ m.offset < expectedOffset
  <2>1. m.offset \in Int
    BY <1>3, RepliedFields, PacketFields
  <2>2. m.offset < expectedOffset'
    BY <1>3, <2>1
  <2> QED BY <1>1, <1>3, <2>2 DEF Spent
<1>4. CASE m.type = "Eof" /\ j = 1 /\ m.seq = Forward(expectedSeq, -2)
  BY <1>1, <1>4 DEF Spent
<1> QED BY <1>1, <1>2, <1>3, <1>4 DEF Spent

LEMMA RestOfOne ==
  ASSUME NEW S, NEW x \in S, NEW d \in Seq(S), Rest(<<x>>, d)
  PROVE  d = <<x>> \/ d = <<>>
<1>1. PICK k \in Nat : Len(d) = 1 - k /\ \A i \in DOMAIN d : i + k \in {1} /\ d[i] = <<x>>[i + k]
  BY DEF Rest
<1>2. Len(d) \in Nat /\ DOMAIN d = 1 .. Len(d)
  BY LenProperties
<1>3. CASE k = 0
  <2>1. Len(d) = 1 /\ 1 \in DOMAIN d
    BY <1>1, <1>2, <1>3
  <2>2. d[1] = x
    BY <1>1, <1>3, <2>1
  <2>3. <<x>> \in Seq(S) /\ Len(<<x>>) = 1 /\ <<x>>[1] = x
    OBVIOUS
  <2>4. \A i \in 1 .. 1 : d[i] = <<x>>[i]
    BY <2>2, <2>3
  <2> QED BY <2>1, <2>3, <2>4, SeqEqual
<1>4. CASE k # 0
  <2>1. Len(d) = 0
    BY <1>1, <1>2, <1>4
  <2> QED BY <2>1, EmptySeq
<1> QED BY <1>3, <1>4

\* Messages that go leave the burst in step.
LEMMA LossKeepsStep ==
  ASSUME Typed, InStep, toVehicle' \in Seq(Asked), toStation' \in Seq(Replied),
         Rest(toVehicle, toVehicle'), Rest(toStation, toStation'),
         UNCHANGED <<expectedSeq, expectedOffset, stream>>
  PROVE  InStep'
<1>1. PICK k \in Nat : /\ Len(toStation') = Len(toStation) - k
                       /\ \A i \in DOMAIN toStation' :
                            i + k \in DOMAIN toStation /\ toStation'[i] = toStation[i + k]
  BY DEF Rest
<1>2. /\ DOMAIN toStation = 1 .. Len(toStation) /\ Len(toStation) \in Nat
      /\ Len(toStation') \in Nat /\ DOMAIN toStation' = 1 .. Len(toStation')
      /\ \A i \in DOMAIN toStation : toStation[i] \in Replied
  BY InFlight, LenProperties
<1>3. expectedOffset \in Int
  BY ConstantsAssumption DEF Typed
<1>4. ASSUME NEW i \in DOMAIN toStation'
      PROVE  /\ i + k \in DOMAIN toStation /\ toStation'[i] = toStation[i + k] /\ i \in Int
             /\ i + k = 1 => i = 1
             /\ Last(i + k) => Last(i)'
             /\ Spent(i + k) => Spent(i)'
  <2>1. i + k \in DOMAIN toStation /\ toStation'[i] = toStation[i + k] /\ i \in Int /\ i >= 1
    BY <1>1, <1>2
  <2>2. i + k = 1 => i = 1
    BY <2>1
  <2>3. i + k = Len(toStation) => i = Len(toStation')
    <3>1. PICK l \in Nat, n \in Nat : l = Len(toStation) /\ n = Len(toStation') /\ n = l - k
      BY <1>1, <1>2
    <3> QED BY <2>1, <3>1
  <2>4. Spent(i + k) => Spent(i)'
    <3>1. toStation[i + k] \in Replied /\ expectedOffset <= expectedOffset' /\ expectedOffset' \in Int
      BY <1>2, <1>3, <2>1
    <3> QED BY <1>3, <2>1, <2>2, <3>1, SpentStays
  <2> QED BY <2>1, <2>2, <2>3, <2>4 DEF Last
<1>5. AsksNext'
  <2>0. toVehicle = <<>> => toVehicle' = <<>>
    <3>1. PICK c \in Seq(Asked), d \in Seq(Asked) : c = toVehicle /\ d = toVehicle'
      BY DEF Typed
    <3>2. Rest(c, d)
      BY <3>1
    <3>3. Len(c) \in Nat /\ Len(d) \in Nat /\ Len(d) <= Len(c)
      <4>1. Len(c) \in Nat /\ Len(d) \in Nat
        BY LenProperties
      <4> QED BY <3>2, <4>1 DEF Rest
    <3>4. c = <<>> => d = <<>>
      <4>1. Len(c) = 0 => Len(d) = 0
        BY <3>3
      <4> QED BY <4>1, EmptySeq
    <3> QED BY <3>1, <3>4
  <2>1. CASE toVehicle = <<>>
    <3>1. toVehicle' = <<>>
      BY <2>0, <2>1
    <3> QED BY <3>1 DEF AsksNext
  <2>2. CASE toVehicle # <<>>
    <3>1. PICK x : x = [seq |-> Forward(expectedSeq, -1),
                        request |-> [op |-> "Burst", offset |-> expectedOffset]]
      OBVIOUS
    <3>2. toVehicle = <<x>> /\ stream = NoStream /\ \A i \in DOMAIN toStation : Spent(i)
      BY <2>2, <3>1 DEF InStep, AsksNext
    <3>3. x \in Asked
      <4>1. 1 \in DOMAIN toVehicle /\ toVehicle[1] = x
        BY <3>2
      <4> QED BY <4>1, InFlight
    <3>4. toVehicle' = <<x>> \/ toVehicle' = <<>>
      BY <3>2, <3>3, RestOfOne
    <3>5. \A i \in DOMAIN toStation' : Spent(i)'
      BY <1>4, <3>2
    <3> QED BY <3>1, <3>2, <3>4, <3>5 DEF AsksNext
  <2> QED BY <2>1, <2>2
<1>6. Continued'
  <2>1. ASSUME NEW i \in DOMAIN toStation' PROVE Spent(i)' \/ Ahead(toStation[i])'
    <3>1. Spent(i + k) \/ Ahead(toStation[i + k])
      BY <1>4 DEF InStep, Continued
    <3>2. Ahead(toStation[i + k]) => Ahead(toStation[i])'
      BY <1>4 DEF Ahead, Place, PastEnd
    <3> QED BY <1>4, <3>1, <3>2
  <2> QED BY <2>1 DEF Continued
<1>7. StreamContinues'
  BY DEF InStep, StreamContinues, Place
<1>8. Rising'
  <2>1. ASSUME NEW i \in DOMAIN toStation', NEW j \in DOMAIN toStation', i < j
        PROVE  i + k < j + k
    BY <1>2, <2>1
  <2> QED BY <1>4, <2>1 DEF InStep, Rising
<1>9. EndsLast'
  BY <1>4 DEF InStep, EndsLast
<1>10. StreamIsAhead'
  BY <1>4 DEF InStep, StreamIsAhead
<1> QED BY <1>5, <1>6, <1>7, <1>8, <1>9, <1>10 DEF InStep

\* A burst that is asked for anew is in step.
LEMMA Fresh ==
  ASSUME stream' = NoStream, \A i \in DOMAIN toStation' : i = 1 /\ Spent(i)',
         \/ toVehicle' = <<>>
         \/ toVehicle' = <<[seq |-> Forward(expectedSeq', -1),
                            request |-> [op |-> "Burst", offset |-> expectedOffset']]>>
  PROVE  InStep'
BY DEF InStep, AsksNext, Continued, StreamContinues, Rising, EndsLast, StreamIsAhead

\* The server takes up the request, or refuses it.
LEMMA ServedKeepsStep ==
  ASSUME Typed, InStep, ServerReceive
  PROVE  InStep'
<1>0. /\ expectedSeq \in Numbers /\ expectedSeq \in Int /\ 0 \in Numbers
      /\ expectedOffset \in 0 .. Size /\ Size \in Nat /\ DataLen \in Nat
  BY ConstantsAssumption DEF Typed, Numbers
<1>1. /\ toVehicle # <<>> /\ toVehicle' = Tail(toVehicle)
      /\ UNCHANGED <<expectedSeq, expectedOffset>>
  BY DEF ServerReceive, station, transfer
<1>2. PICK x : x = [seq |-> Forward(expectedSeq, -1),
                    request |-> [op |-> "Burst", offset |-> expectedOffset]]
  OBVIOUS
<1>3. toVehicle = <<x>> /\ stream = NoStream /\ \A i \in DOMAIN toStation : Spent(i)
  BY <1>1, <1>2 DEF InStep, AsksNext
<1>4. toVehicle' = <<>>
  BY <1>1, <1>3
<1>5. Forward(x.seq, 1) = expectedSeq /\ Forward(expectedSeq, 0) = expectedSeq
  <2>1. PICK n \in Int : n = -1
    OBVIOUS
  <2>2. Forward(Forward(expectedSeq, n), 1) = Forward(expectedSeq, n + 1) /\ n + 1 = 0
    BY <1>0, <2>1, ForwardForward
  <2>3. Forward(expectedSeq, 0) = expectedSeq
    BY <1>0, ForwardSame
  <2> QED BY <1>2, <2>1, <2>2, <2>3
<1>6. Head(toVehicle) = x /\ x.request.op = "Burst" /\ x.request.offset = expectedOffset
  BY <1>2, <1>3
<1>7. /\ Len(toStation) \in Nat /\ DOMAIN toStation = 1 .. Len(toStation)
      /\ \A i \in DOMAIN toStation : toStation[i] \in Replied
  BY InFlight
<1>8. CASE Refuse("Burst", expectedSeq)
  <2> DEFINE r == [type |-> "Nak", op |-> "Burst", seq |-> expectedSeq]
  <2>1. r \in Replied /\ r.type = "Nak"
    BY <1>0 DEF Replied
  <2>2. toStation' = Append(toStation, r) /\ stream' = NoStream
    BY <1>3, <1>8 DEF Refuse, Reply, server
  <2> HIDE DEF r
  <2>3. /\ DOMAIN toStation' = 1 .. Len(toStation) + 1
        /\ \A i \in DOMAIN toStation : toStation'[i] = toStation[i]
        /\ toStation'[Len(toStation) + 1] = r
    BY <2>1, <2>2, Answered
  <2>4. \A i \in DOMAIN toStation' :
          (i \in DOMAIN toStation /\ toStation'[i] = toStation[i]) \/ toStation'[i] = r
    BY <1>7, <2>3
  <2>5. ASSUME NEW i \in DOMAIN toStation' PROVE Spent(i)'
    <3>1. CASE i \in DOMAIN toStation /\ toStation'[i] = toStation[i]
      <4>1. /\ toStation[i] \in Replied /\ Spent(i) /\ expectedOffset \in Int
            /\ expectedOffset' \in Int /\ expectedOffset <= expectedOffset'
        BY <1>0, <1>1, <1>3, <1>7, <3>1
      <4> QED BY <1>1, <3>1, <4>1, SpentStays
    <3>2. CASE toStation'[i] = r
      BY <2>1, <3>2 DEF Spent
    <3> QED BY <2>4, <3>1, <3>2
  <2>6. Rising'
    <3>1. ASSUME NEW i \in DOMAIN toStation', NEW j \in DOMAIN toStation', i < j,
                 toStation'[j].type = "Data"
          PROVE  i \in DOMAIN toStation /\ j \in DOMAIN toStation
      <4>1. j # Len(toStation) + 1
        BY <2>1, <2>3, <3>1
      <4>2. i \in 1 .. Len(toStation) + 1 /\ j \in 1 .. Len(toStation) + 1
        BY <2>3
      <4> QED BY <1>7, <3>1, <4>1, <4>2
    <3>2. \A i \in DOMAIN toStation : toStation'[i] = toStation[i]
      BY <2>3
    <3> QED BY <3>1, <3>2 DEF InStep, Rising
  <2> QED BY <1>4, <2>2, <2>5, <2>6
          DEF InStep, AsksNext, Continued, StreamContinues, EndsLast, StreamIsAhead
<1>9. CASE Answer("Burst", x.request, expectedSeq)
  <2>1. stream' = [seq |-> expectedSeq, offset |-> expectedOffset] /\ toStation' = toStation
    BY <1>6, <1>9 DEF Answer
  <2>2. \A i \in DOMAIN toStation' : Spent(i)'
    BY <1>1, <1>3, <2>1 DEF Spent
  <2>3. Rising'
    BY <2>1 DEF InStep, Rising
  <2>4. StreamContinues'
    <3>1. PICK e \in 0 .. Size, z \in {0} : e = expectedOffset
      BY <1>0
    <3>2. e + z * DataLen = e /\ ~(z >= 1)
      BY <1>0, <3>1
    <3>3. Least(e, Size) = e
      BY <1>0, <3>1 DEF Least
    <3>4. /\ stream'.seq = Forward(expectedSeq', z) /\ stream'.offset = Least(Place(z)', Size)
          /\ z \in Numbers
      BY <1>0, <1>1, <1>5, <2>1, <3>1, <3>2, <3>3 DEF Place
    <3> QED BY <3>2, <3>4 DEF StreamContinues
  <2> QED BY <1>4, <2>2, <2>3, <2>4 DEF InStep, AsksNext, Continued, EndsLast, StreamIsAhead
<1> QED
  <2>1. \/ Refuse(Head(toVehicle).request.op, Forward(Head(toVehicle).seq, 1))
        \/ Answer(Head(toVehicle).request.op, Head(toVehicle).request, Forward(Head(toVehicle).seq, 1))
    BY DEF ServerReceive
  <2> QED BY <1>5, <1>6, <1>8, <1>9, <2>1

LEMMA PacketsFit ==
  ASSUME Short, NEW e \in 0 .. Size, NEW k \in Numbers, e + k * DataLen < Size
  PROVE  /\ k + 1 \in Numbers /\ k + 1 >= 1 /\ k + 1 - 1 = k
         /\ Least(e + (k + 1) * DataLen, Size) = e + k * DataLen + Least(DataLen, Size - (e + k * DataLen))
<1>1. DataLen \in Nat /\ DataLen >= 1 /\ Size \in Nat /\ SeqMod \in Nat /\ SeqMod >= 5 /\ k \in Nat
  BY ConstantsAssumption DEF Numbers, Short
<1>2. k < SeqMod - 2
  <2>1. PICK n \in Nat, d \in Nat : n = SeqMod - 2 /\ d = DataLen
    BY <1>1
  <2>2. k * d < d * n
    <3>1. k * d \in Int /\ d * n \in Int /\ k * d < Size /\ Size <= d * n
      BY <1>1, <2>1 DEF Short
    <3> QED BY <1>1, <3>1
  <2>3. k >= n => (k - n) * d >= 0
    BY <1>1, <2>1
  <2>4. (k - n) * d = k * d - d * n
    BY <1>1, <2>1
  <2>5. k * d \in Int /\ d * n \in Int
    BY <1>1, <2>1
  <2>6. ~(k >= n)
    BY <2>2, <2>3, <2>4, <2>5
  <2> QED BY <1>1, <2>1, <2>6
<1>3. PICK a \in Nat, d \in Nat : a = k * DataLen /\ d = DataLen /\ (k + 1) * DataLen = a + d
  BY <1>1
<1>4. Least(e + (a + d), Size) = e + a + Least(d, Size - (e + a))
  <2>1. e + a < Size /\ e \in Nat
    BY <1>1, <1>3
  <2> QED BY <1>1, <1>3, <2>1 DEF Least
<1> QED BY <1>1, <1>2, <1>3, <1>4 DEF Numbers

\* The next packet, or the end, is what follows.
LEMMA StreamKeepsStep ==
  ASSUME Short, Typed, InStep, Stream
  PROVE  InStep'
<1>0. /\ expectedSeq \in Numbers /\ expectedSeq \in Int
      /\ expectedOffset \in 0 .. Size /\ expectedOffset \in Int /\ Size \in Nat /\ DataLen \in Nat /\ DataLen >= 1
  BY ConstantsAssumption DEF Typed, Numbers
<1>1. UNCHANGED <<expectedSeq, expectedOffset, toVehicle>>
  BY DEF Stream, station, transfer
<1>2. stream # NoStream /\ stream \in [seq : Numbers, offset : 0 .. Size] /\ stream.offset \in Int
  BY StreamSends
<1>3. toVehicle = <<>>
  BY <1>2 DEF InStep, AsksNext
<1>4. PICK k \in Numbers : /\ stream.seq = Forward(expectedSeq, k)
                           /\ stream.offset = Least(Place(k), Size)
                           /\ k >= 1 => Place(k - 1) < Size
  BY <1>2 DEF InStep, StreamContinues
<1>5. k \in Nat /\ Place(k) \in Int /\ k * DataLen \in Nat
  BY <1>0, ConstantsAssumption DEF Numbers, Place
<1>6. stream.offset >= expectedOffset
  BY <1>0, <1>4, <1>5 DEF Least, Place
<1>7. PICK r \in Replied :
        /\ toStation' = Append(toStation, r)
        /\ r.op = "Burst" /\ r.seq = stream.seq
        /\ \/ /\ r.type = "Eof" /\ stream.offset >= Size /\ stream' = NoStream
           \/ /\ r.type = "Data" /\ r.file = opened /\ r.offset = stream.offset
              /\ r.count = Least(DataLen, Size - stream.offset) /\ stream.offset < Size
              /\ r.offset + r.count <= Size
              /\ stream' = IF r.complete THEN NoStream
                           ELSE [seq |-> Forward(stream.seq, 1), offset |-> r.offset + r.count]
  BY StreamSends
<1>8. /\ Len(toStation) \in Nat /\ DOMAIN toStation = 1 .. Len(toStation)
      /\ DOMAIN toStation' = 1 .. Len(toStation) + 1 /\ Len(toStation') = Len(toStation) + 1
      /\ \A i \in DOMAIN toStation : toStation'[i] = toStation[i] /\ toStation[i] \in Replied
      /\ toStation'[Len(toStation) + 1] = r
  <2>1. \A i \in DOMAIN toStation : toStation[i] \in Replied
    BY InFlight
  <2> QED BY <1>7, <2>1, Answered
<1>9. ASSUME NEW i \in DOMAIN toStation'
      PROVE  /\ i \in Int
             /\ \/ i \in DOMAIN toStation /\ toStation'[i] = toStation[i] /\ i # Len(toStation) + 1
                \/ i = Len(toStation) + 1 /\ toStation'[i] = r
  BY <1>8
<1>10. ASSUME NEW i \in DOMAIN toStation
       PROVE  /\ Spent(i) <=> Spent(i)'
              /\ Ahead(toStation[i]) => Ahead(toStation[i])'
  BY <1>1, <1>8 DEF Spent, Ahead, Place, PastEnd
<1>11. ASSUME NEW i \in DOMAIN toStation, toStation[i].op = "Burst", toStation[i].type = "Data"
       PROVE  toStation[i].offset < stream.offset /\ toStation[i].offset \in Int
  <2>1. toStation[i].offset \in Int
    BY <1>8, <1>11, RepliedFields, PacketFields
  <2>2. CASE Spent(i)
    <3>1. toStation[i].offset < expectedOffset
      BY <1>11, <2>2 DEF Spent
    <3> QED BY <1>0, <1>2, <1>6, <2>1, <3>1
  <2>3. CASE ~Spent(i)
    BY <1>2, <1>11, <2>1, <2>3 DEF InStep, StreamIsAhead
  <2> QED BY <2>2, <2>3
<1>12. CASE r.type = "Eof"
  <2>1. stream' = NoStream /\ stream.offset >= Size
    BY <1>7, <1>12
  <2>2. Ahead(r)'
    <3>1. Place(k) >= Size
      BY <1>0, <1>4, <1>5, <2>1 DEF Least
    <3> QED BY <1>1, <1>4, <1>7, <1>12, <3>1 DEF Ahead, PastEnd, Place
  <2>3. Continued'
    BY <1>9, <1>10, <2>2 DEF InStep, Continued
  <2>4. Rising'
    <3>1. ASSUME NEW i \in DOMAIN toStation', NEW j \in DOMAIN toStation',
                 toStation'[i].type = "Data", toStation'[j].type = "Data"
          PROVE  /\ i \in DOMAIN toStation /\ toStation'[i] = toStation[i]
                 /\ j \in DOMAIN toStation /\ toStation'[j] = toStation[j]
      BY <1>9, <1>12, <3>1
    <3> QED BY <3>1 DEF InStep, Rising
  <2>5. EndsLast'
    <3>1. ASSUME NEW i \in DOMAIN toStation', ~Spent(i)', Ending(toStation'[i])
          PROVE  i = Len(toStation')
      <4>1. CASE i \in DOMAIN toStation /\ toStation'[i] = toStation[i]
        <5>1. Last(i)
          BY <1>10, <3>1, <4>1 DEF InStep, EndsLast
        <5> QED BY <1>2, <5>1 DEF Last
      <4> QED BY <1>8, <1>9, <4>1
    <3> QED BY <2>1, <3>1 DEF EndsLast, Last, Ending
  <2> QED BY <1>1, <1>3, <2>1, <2>3, <2>4, <2>5 DEF InStep, AsksNext, StreamContinues, StreamIsAhead
<1>13. CASE r.type = "Data"
  <2>1. /\ r.offset = stream.offset /\ r.count = Least(DataLen, Size - stream.offset)
        /\ stream.offset < Size
        /\ stream' = IF r.complete THEN NoStream
                     ELSE [seq |-> Forward(stream.seq, 1), offset |-> r.offset + r.count]
    BY <1>7, <1>13
  <2>2. stream.offset = Place(k) /\ Place(k) < Size
    BY <1>0, <1>4, <1>5, <2>1 DEF Least
  <2>3. Ahead(r)'
    BY <1>1, <1>4, <1>7, <1>13, <2>1, <2>2 DEF Ahead, Place
  <2>4. Continued'
    BY <1>9, <1>10, <2>3 DEF InStep, Continued
  <2>5. Rising'
    <3>1. ASSUME NEW i \in DOMAIN toStation', NEW j \in DOMAIN toStation', i < j,
                 toStation'[i].op = "Burst", toStation'[i].type = "Data",
                 toStation'[j].op = "Burst", toStation'[j].type = "Data"
          PROVE  toStation'[i].offset < toStation'[j].offset
      <4>1. i \in DOMAIN toStation /\ toStation'[i] = toStation[i]
        BY <1>8, <1>9, <3>1
      <4>2. CASE j \in DOMAIN toStation /\ toStation'[j] = toStation[j]
        BY <3>1, <4>1, <4>2 DEF InStep, Rising
      <4>3. CASE toStation'[j] = r
        BY <1>11, <2>1, <3>1, <4>1, <4>3
      <4> QED BY <1>9, <4>2, <4>3
    <3> QED BY <3>1 DEF Rising
  <2>6. EndsLast'
    <3>1. ASSUME NEW i \in DOMAIN toStation', ~Spent(i)', Ending(toStation'[i])
          PROVE  i = Len(toStation') /\ stream' = NoStream
      <4>1. CASE i \in DOMAIN toStation /\ toStation'[i] = toStation[i]
        <5>1. Last(i)
          BY <1>10, <3>1, <4>1 DEF InStep, EndsLast
        <5> QED BY <1>2, <5>1 DEF Last
      <4>2. CASE i = Len(toStation) + 1 /\ toStation'[i] = r
        BY <1>8, <1>13, <2>1, <3>1, <4>2 DEF Ending
      <4> QED BY <1>9, <4>1, <4>2
    <3> QED BY <3>1 DEF EndsLast, Last, Ending
  <2>7. stream' # NoStream => stream'.offset = r.offset + r.count /\ r.count >= 1 /\ r.offset \in Int /\ r.count \in Int
    BY <1>13, <2>1, RepliedFields, PacketFields
  <2>8. StreamIsAhead'
    <3>1. ASSUME NEW i \in DOMAIN toStation', stream' # NoStream,
                 toStation'[i].type = "Data", ~Spent(i)'
          PROVE  toStation'[i].offset < stream'.offset
      <4>1. CASE i \in DOMAIN toStation /\ toStation'[i] = toStation[i]
        <5>1. toStation[i].op = "Burst"
          BY <3>1, <4>1 DEF Spent
        <5>2. toStation[i].offset < stream.offset /\ toStation[i].offset \in Int
          BY <1>11, <3>1, <4>1, <5>1
        <5> QED BY <1>2, <2>1, <2>7, <3>1, <4>1, <5>2
      <4>2. CASE toStation'[i] = r
        BY <2>7, <3>1, <4>2
      <4> QED BY <1>9, <4>1, <4>2
    <3> QED BY <3>1 DEF StreamIsAhead
  <2>9. StreamContinues'
    <3>1. ASSUME stream' # NoStream
          PROVE  \E n \in Numbers : /\ stream'.seq = Forward(expectedSeq', n)
                                    /\ stream'.offset = Least(Place(n)', Size)
                                    /\ n >= 1 => Place(n - 1)' < Size
      <4>1. /\ k + 1 \in Numbers /\ k + 1 - 1 = k
            /\ Least(Place(k + 1), Size) = Place(k) + Least(DataLen, Size - Place(k))
        BY <1>0, <2>2, PacketsFit DEF Place
      <4>2. Forward(Forward(expectedSeq, k), 1) = Forward(expectedSeq, k + 1)
        BY <1>0, <1>5, ForwardForward
      <4>3. stream'.seq = Forward(stream.seq, 1) /\ stream'.offset = r.offset + r.count
        BY <2>1, <3>1
      <4>4. Place(k)' = Place(k) /\ Place(k + 1)' = Place(k + 1)
        BY <1>1 DEF Place
      <4>5. stream'.seq = Forward(expectedSeq', k + 1)
        BY <1>1, <1>4, <4>2, <4>3
      <4>6. stream'.offset = Least(Place(k + 1)', Size)
        BY <2>1, <2>2, <4>1, <4>3, <4>4
      <4>7. PICK n \in Numbers : n = k + 1 /\ n - 1 = k
        BY <1>5, <4>1
      <4>8. Place(n - 1)' < Size
        BY <1>1, <2>2, <4>7 DEF Place
      <4> QED BY <4>5, <4>6, <4>7, <4>8
    <3> QED BY <3>1 DEF StreamContinues
  <2> QED BY <1>1, <1>3, <2>4, <2>5, <2>6, <2>8, <2>9 DEF InStep, AsksNext
<1> QED BY <1>7, <1>12, <1>13

LEMMA NumbersMove ==
  ASSUME NEW k \in Numbers, NEW j \in Numbers, k < j, NEW a \in Int
  PROVE  /\ j - k - 1 \in Numbers
         /\ Forward(Forward(Forward(a, k), 1), j - k - 1) = Forward(a, j)
<1>1. k \in Int /\ j \in Int /\ j - k - 1 \in Numbers /\ j - k - 1 \in Int
  BY ConstantsAssumption DEF Numbers
<1>2. PICK n \in Int : n = j - k - 1 /\ k + 1 + n = j
  BY <1>1
<1>3. Forward(Forward(a, k), 1) = Forward(a, k + 1) /\ k + 1 \in Int
  BY <1>1, ForwardForward
<1>4. Forward(Forward(a, k + 1), n) = Forward(a, k + 1 + n)
  BY <1>3, ForwardForward
<1> QED BY <1>1, <1>2, <1>3, <1>4

LEMMA PlacesRise ==
  ASSUME NEW e \in Int, NEW k \in Nat, NEW j \in Nat, e + k * DataLen < e + j * DataLen
  PROVE  k < j
<1>1. PICK d \in Nat : d = DataLen
  BY ConstantsAssumption
<1>2. k >= j => (k - j) * d >= 0 /\ (k - j) * d = k * d - j * d
  OBVIOUS
<1>3. k * d \in Int /\ j * d \in Int
  OBVIOUS
<1> QED BY <1>1, <1>2, <1>3

\* What was ahead of a packet that is received is now that much nearer.
LEMMA Nearer ==
  ASSUME IInv, NEW m \in Packets, NEW k \in Numbers,
         m.offset = Place(k), m.count = Least(DataLen, Size - m.offset),
         m.seq = Forward(expectedSeq, k), expectedSeq' = Forward(m.seq, 1),
         expectedOffset' = m.offset + m.count,
         NEW j \in Numbers, Place(k) < Place(j)
  PROVE  \E n \in Numbers :
           /\ Forward(expectedSeq', n) = Forward(expectedSeq, j)
           /\ Place(j) < Size => Place(n)' = Place(j)
           /\ PastEnd(j) => PastEnd(n)'
           /\ (j >= 1 => Place(j - 1) < Size) =>
                /\ Least(Place(n)', Size) = Least(Place(j), Size)
                /\ n >= 1 => Place(n - 1)' < Size
<1>1. /\ expectedSeq \in Int /\ expectedOffset \in 0 .. Size /\ expectedOffset \in Int
      /\ k \in Nat /\ j \in Nat
  BY ConstantsAssumption DEF IInv, Typed, Numbers
<1>2. m.offset \in Nat /\ m.count \in Nat /\ m.count >= 1 /\ m.offset + m.count <= Size /\ Size \in Nat
  BY PacketFields, ConstantsAssumption
<1>3. PICK e \in 0 .. Size : e = expectedOffset
  BY <1>1
<1>4. e + k * DataLen < Size
  BY <1>2, <1>3 DEF Place
<1>5. k < j
  BY <1>1, <1>3, PlacesRise DEF Place
<1>6. PICK f : f = e + k * DataLen + Least(DataLen, Size - (e + k * DataLen))
  OBVIOUS
<1>7. f = expectedOffset'
  BY <1>3, <1>6 DEF Place
<1>8. PICK n \in Numbers : n = j - k - 1
  BY <1>1, <1>5, NumbersMove
<1>9. /\ e + j * DataLen < Size => f + n * DataLen = e + j * DataLen
      /\ e + (j - 1) * DataLen < Size =>
           /\ Least(f + n * DataLen, Size) = Least(e + j * DataLen, Size)
           /\ e + j * DataLen >= Size => f + n * DataLen >= Size
           /\ n >= 1 => f + (n - 1) * DataLen < Size
  BY <1>1, <1>4, <1>5, <1>6, <1>8, PlacesMove
<1>10. Forward(expectedSeq', n) = Forward(expectedSeq, j)
  BY <1>1, <1>5, <1>8, NumbersMove
<1>11. j >= 1
  BY <1>1, <1>5
<1>12. /\ Place(n)' = f + n * DataLen /\ Place(n - 1)' = f + (n - 1) * DataLen
       /\ Place(j) = e + j * DataLen /\ Place(j - 1) = e + (j - 1) * DataLen
  BY <1>3, <1>7 DEF Place
<1>13. PastEnd(j) => PastEnd(n)'
  <2>1. PastEnd(j) => e + (j - 1) * DataLen < Size /\ e + j * DataLen >= Size
    BY <1>11, <1>12 DEF PastEnd
  <2>2. f + n * DataLen >= Size /\ (n >= 1 => f + (n - 1) * DataLen < Size) => PastEnd(n)'
    BY <1>7 DEF PastEnd, Place
  <2> QED BY <1>9, <2>1, <2>2
<1> QED BY <1>9, <1>10, <1>11, <1>12, <1>13

\* What is left once a message is received.
LEMMA Left ==
  ASSUME Typed, NEW m, Receives(m)
  PROVE  /\ Len(toStation) \in Nat /\ DOMAIN toStation = 1 .. Len(toStation)
         /\ Len(toStation') \in Nat /\ DOMAIN toStation' = 1 .. Len(toStation')
         /\ \A i \in DOMAIN toStation : toStation[i] \in Replied
         /\ \E s \in {0, 1} :
              /\ Len(toStation') = Len(toStation) - s
              /\ \A i \in DOMAIN toStation' : i + s \in DOMAIN toStation /\ toStation'[i] = toStation[i + s]
         /\ Len(toStation) = 1 => \A i \in DOMAIN toStation' : i = 1 /\ toStation'[i] = m
<1>1. toStation # <<>> /\ DeliveredOnceMore /\ m = toStation[1]
  BY Received DEF Receives
<1>2. /\ Len(toStation) \in Nat /\ DOMAIN toStation = 1 .. Len(toStation)
      /\ Len(toStation') \in Nat /\ DOMAIN toStation' = 1 .. Len(toStation')
      /\ \/ toStation' = toStation
         \/ /\ Len(toStation') = Len(toStation) - 1
            /\ \A i \in DOMAIN toStation' : i + 1 \in DOMAIN toStation /\ toStation'[i] = toStation[i + 1]
  BY <1>1, Delivered
<1>3. \E s \in {0, 1} :
        /\ Len(toStation') = Len(toStation) - s
        /\ \A i \in DOMAIN toStation' : i + s \in DOMAIN toStation /\ toStation'[i] = toStation[i + s]
  <2>1. CASE toStation' = toStation
    <3>1. Len(toStation') = Len(toStation) - 0
      BY <1>2, <2>1
    <3>2. \A i \in DOMAIN toStation' : i + 0 \in DOMAIN toStation /\ toStation'[i] = toStation[i + 0]
      BY <1>2, <2>1
    <3> QED BY <3>1, <3>2
  <2>2. CASE /\ Len(toStation') = Len(toStation) - 1
             /\ \A i \in DOMAIN toStation' : i + 1 \in DOMAIN toStation /\ toStation'[i] = toStation[i + 1]
    BY <2>2
  <2> QED BY <1>2, <2>1, <2>2
<1>4. ASSUME Len(toStation) = 1, NEW i \in DOMAIN toStation' PROVE i = 1 /\ toStation'[i] = m
  <2>1. CASE toStation' = toStation
    BY <1>1, <1>2, <1>4, <2>1
  <2>2. CASE Len(toStation') = Len(toStation) - 1
    <3>1. DOMAIN toStation' = {}
      BY <1>2, <1>4, <2>2
    <3> QED BY <3>1
  <2> QED BY <1>2, <2>1, <2>2
<1>5. \A i \in DOMAIN toStation : toStation[i] \in Replied
  BY InFlight
<1> QED BY <1>2, <1>3, <1>4, <1>5

\* The numbers of a request sent in answer to message n.
LEMMA AnsweredNumbers ==
  ASSUME NEW n \in Int
  PROVE  /\ Forward(Forward(n, 2), -1) = Forward(n, 1)
         /\ n \in Numbers => Forward(Forward(n, 2), -2) = n
<1>1. PICK a \in Int, b \in Int : a = -1 /\ b = -2
  OBVIOUS
<1>2. Forward(Forward(n, 2), a) = Forward(n, 2 + a) /\ Forward(Forward(n, 2), b) = Forward(n, 2 + b)
  BY ForwardForward
<1>3. 2 + a = 1 /\ 2 + b = 0
  BY <1>1
<1>4. n \in Numbers => Forward(n, 0) = n
  BY ForwardSame
<1> QED BY <1>1, <1>2, <1>3, <1>4

\* A packet that adds to the file is the next, or comes after packets that were lost.
LEMMA PacketAhead ==
  ASSUME IInv, InStep, NEW m, Receives(m), m.op = "Burst", m.type = "Data", m.offset >= expectedOffset
  PROVE  /\ m \in Packets /\ ~Spent(1) /\ toVehicle = <<>>
         /\ \E k \in Numbers : /\ m.seq = Forward(expectedSeq, k) /\ m.offset = Place(k)
                               /\ m.count = Least(DataLen, Size - m.offset)
<1>1. m \in Replied /\ m = toStation[1] /\ 1 \in DOMAIN toStation
  BY Received DEF IInv
<1>2. m \in Packets /\ m.offset \in Int
  BY <1>1, RepliedFields, PacketFields
<1>3. expectedOffset \in Int
  BY ConstantsAssumption DEF IInv, Typed
<1>4. ~(m.offset < expectedOffset)
  BY <1>2, <1>3
<1>5. ~Spent(1)
  BY <1>1, <1>4 DEF Spent
<1>6. toVehicle = <<>> /\ Ahead(m)
  BY <1>1, <1>5 DEF InStep, AsksNext, Continued
<1> QED BY <1>2, <1>5, <1>6 DEF Ahead

LEMMA LastWriteKeepsStep ==
  ASSUME IInv, InStep, NEW m, Receives(m), phase = "Burst", m.op = "Burst", m.type = "Data",
         OnBurstData(m), WithinFile(m), m.offset >= expectedOffset, m.complete
  PROVE  InStep'
<1>0. Typed
  BY DEF IInv
<1>1. m \in Replied /\ m = toStation[1] /\ 1 \in DOMAIN toStation /\ stream' = stream
  BY <1>0, Received DEF server
<1>2. m \in Packets /\ m.offset \in Int /\ m.count \in Int /\ m.count >= 1
  BY <1>1, RepliedFields, PacketFields
<1>3. ~Spent(1) /\ toVehicle = <<>>
  BY PacketAhead
<1>4. Len(toStation) = 1 /\ stream' = NoStream
  BY <1>1, <1>3 DEF InStep, EndsLast, Last, Ending
<1>5. \A i \in DOMAIN toStation' : i = 1 /\ toStation'[i] = m
  BY <1>0, <1>4, Left
<1>6. /\ expectedOffset' = m.offset + m.count /\ expectedOffset' \in 0 .. Size
      /\ Send(m.seq, [op |-> "Burst", offset |-> expectedOffset'])
  BY BurstWrites
<1>7. m.seq \in Numbers /\ m.seq \in Int
  BY <1>1, RepliedFields, ConstantsAssumption DEF Numbers
<1>8. PICK request \in Requests : request = [op |-> "Burst", offset |-> expectedOffset']
  BY <1>6, RequestFacts
<1>9. /\ expectedSeq' = Forward(m.seq, 2)
      /\ toVehicle' = <<>> \/ toVehicle' = <<[seq |-> Forward(m.seq, 1), request |-> request]>>
  BY <1>0, <1>3, <1>6, <1>7, <1>8, Sent
<1>10. Forward(expectedSeq', -1) = Forward(m.seq, 1)
  BY <1>7, <1>9, AnsweredNumbers
<1>11. m.offset < expectedOffset'
  BY <1>2, <1>6
<1>12. \A i \in DOMAIN toStation' : Spent(i)'
  BY <1>5, <1>11 DEF Spent
<1> QED BY <1>4, <1>5, <1>8, <1>9, <1>10, <1>12, Fresh

LEMMA WriteKeepsStep ==
  ASSUME IInv, InStep, NEW m, Receives(m), phase = "Burst", m.op = "Burst", m.type = "Data",
         OnBurstData(m), WithinFile(m), m.offset >= expectedOffset, ~m.complete
  PROVE  InStep'
<1>0. Typed /\ expectedOffset \in Int
  BY ConstantsAssumption DEF IInv, Typed
<1>1. m \in Replied /\ m = toStation[1] /\ 1 \in DOMAIN toStation /\ stream' = stream
  BY <1>0, Received DEF server
<1>2. m \in Packets /\ m.offset \in Int /\ m.count \in Int /\ m.count >= 1
  BY <1>1, RepliedFields, PacketFields
<1>3. /\ ~Spent(1) /\ toVehicle = <<>>
      /\ \E k \in Numbers : /\ m.seq = Forward(expectedSeq, k) /\ m.offset = Place(k)
                            /\ m.count = Least(DataLen, Size - m.offset)
  BY PacketAhead
<1>4. PICK k \in Numbers : /\ m.seq = Forward(expectedSeq, k) /\ m.offset = Place(k)
                           /\ m.count = Least(DataLen, Size - m.offset)
  BY <1>3
<1>5. /\ expectedOffset' = m.offset + m.count /\ expectedOffset' \in Int
      /\ expectedSeq' = Forward(m.seq, 1) /\ toVehicle' = <<>>
  <2>1. expectedOffset' = m.offset + m.count /\ expectedSeq' = Forward(m.seq, 1) /\ toVehicle' = toVehicle
    BY BurstWrites
  <2> QED BY <1>2, <1>3, <2>1
<1>6. m.offset < expectedOffset' /\ expectedOffset <= expectedOffset'
  BY <1>0, <1>2, <1>5
<1>7. ASSUME NEW j \in Numbers, Place(k) < Place(j)
      PROVE  \E n \in Numbers :
               /\ Forward(expectedSeq', n) = Forward(expectedSeq, j)
               /\ Place(j) < Size => Place(n)' = Place(j)
               /\ PastEnd(j) => PastEnd(n)'
               /\ (j >= 1 => Place(j - 1) < Size) =>
                    /\ Least(Place(n)', Size) = Least(Place(j), Size)
                    /\ n >= 1 => Place(n - 1)' < Size
  BY <1>2, <1>4, <1>5, <1>7, Nearer
<1>8. /\ Len(toStation) \in Nat /\ DOMAIN toStation = 1 .. Len(toStation)
      /\ Len(toStation') \in Nat /\ DOMAIN toStation' = 1 .. Len(toStation')
      /\ \A i \in DOMAIN toStation : toStation[i] \in Replied
  BY <1>0, Left
<1>9. PICK s \in {0, 1} :
        /\ Len(toStation') = Len(toStation) - s
        /\ \A i \in DOMAIN toStation' : i + s \in DOMAIN toStation /\ toStation'[i] = toStation[i + s]
  BY <1>0, Left
<1>10. ASSUME NEW i \in DOMAIN toStation'
       PROVE  /\ i \in Int /\ i + s \in Int /\ i + s \in DOMAIN toStation /\ toStation'[i] = toStation[i + s]
              /\ i + s = 1 => Spent(i)'
              /\ Spent(i + s) => Spent(i)'
              /\ Last(i + s) => Last(i)'
  <2>1. i \in Int /\ i + s \in Int /\ i + s \in DOMAIN toStation /\ toStation'[i] = toStation[i + s]
    BY <1>8, <1>9
  <2>2. i + s = 1 => Spent(i)'
    <3>1. i + s = 1 => toStation'[i] = m
      BY <1>1, <2>1
    <3> QED BY <1>6, <3>1 DEF Spent
  <2>3. Spent(i + s) => Spent(i)'
    <3>1. CASE i + s = 1
      BY <2>2, <3>1
    <3>2. CASE i + s # 1
      <4>1. toStation[i + s] \in Replied
        BY <1>8, <2>1
      <4> QED BY <1>0, <1>5, <1>6, <2>1, <3>2, <4>1, SpentStays
    <3> QED BY <3>1, <3>2
  <2>4. i + s = Len(toStation) => i = Len(toStation')
    <3>1. PICK l \in Nat, n \in Nat : l = Len(toStation) /\ n = Len(toStation') /\ n = l - s
      BY <1>8, <1>9
    <3> QED BY <2>1, <3>1
  <2>5. Last(i + s) => Last(i)'
    BY <1>1, <2>4 DEF Last
  <2> QED BY <2>1, <2>2, <2>3, <2>5
<1>11. ASSUME NEW i \in DOMAIN toStation', ~Spent(i)' PROVE Ahead(toStation[i])'
  <2>1. i + s # 1 /\ ~Spent(i + s) /\ i + s \in DOMAIN toStation /\ toStation'[i] = toStation[i + s]
    BY <1>10, <1>11
  <2>2. PICK r \in Replied : r = toStation[i + s]
    BY <1>8, <2>1
  <2>3. Ahead(r)
    BY <2>1, <2>2 DEF InStep, Continued
  <2>4. PICK j \in Numbers :
          /\ r.seq = Forward(expectedSeq, j)
          /\ \/ r.type = "Data" /\ r.offset = Place(j) /\ r.count = Least(DataLen, Size - r.offset)
             \/ r.type = "Eof" /\ PastEnd(j)
    BY <2>3 DEF Ahead
  <2>5. r.op = "Burst"
    BY <2>3 DEF Ahead
  <2>6. CASE r.type = "Data"
    <3>1. r.offset = Place(j) /\ r.count = Least(DataLen, Size - r.offset)
      BY <2>4, <2>6
    <3>2. m.offset < r.offset
      <4>1. 1 < i + s
        BY <1>8, <1>10, <2>1
      <4> QED BY <1>1, <2>1, <2>2, <2>5, <2>6, <4>1 DEF InStep, Rising
    <3>3. r.offset < Size
      <4>1. r.offset \in 0 .. Size - 1
        BY <2>6, RepliedFields, PacketFields
      <4> QED BY <4>1, ConstantsAssumption
    <3>4. PICK n \in Numbers : Forward(expectedSeq', n) = Forward(expectedSeq, j) /\ Place(n)' = Place(j)
      BY <1>4, <1>7, <3>1, <3>2, <3>3
    <3>5. Ahead(r)'
      BY <2>4, <2>5, <2>6, <3>1, <3>4 DEF Ahead
    <3> QED BY <2>1, <2>2, <3>5
  <2>7. CASE r.type = "Eof"
    <3>1. PastEnd(j)
      BY <2>4, <2>7
    <3>2. Place(k) < Place(j)
      <4>1. m.offset < Size
        <5>1. m.offset \in 0 .. Size - 1
          BY <1>2, PacketFields
        <5> QED BY <5>1, ConstantsAssumption
      <4>2. Place(j) \in Int
        BY <1>0, ConstantsAssumption DEF Place, Numbers
      <4> QED BY <1>2, <1>4, <3>1, <4>1, <4>2, ConstantsAssumption DEF PastEnd
    <3>3. PICK n \in Numbers : Forward(expectedSeq', n) = Forward(expectedSeq, j) /\ PastEnd(n)'
      BY <1>7, <3>1, <3>2
    <3>4. Ahead(r)'
      BY <2>4, <2>5, <2>7, <3>3 DEF Ahead
    <3> QED BY <2>1, <2>2, <3>4
  <2> QED BY <2>4, <2>6, <2>7
<1>12. Rising'
  <2>1. ASSUME NEW i \in DOMAIN toStation', NEW j \in DOMAIN toStation', i < j
        PROVE  i + s < j + s
    BY <1>8, <2>1
  <2> QED BY <1>10, <2>1 DEF InStep, Rising
<1>13. EndsLast'
  BY <1>10 DEF InStep, EndsLast
<1>14. StreamIsAhead'
  BY <1>1, <1>10 DEF InStep, StreamIsAhead
<1>15. StreamContinues'
  <2>1. ASSUME stream # NoStream
        PROVE  \E n \in Numbers : /\ stream.seq = Forward(expectedSeq', n)
                                  /\ stream.offset = Least(Place(n)', Size)
                                  /\ n >= 1 => Place(n - 1)' < Size
    <3>1. PICK j \in Numbers : /\ stream.seq = Forward(expectedSeq, j)
                               /\ stream.offset = Least(Place(j), Size)
                               /\ j >= 1 => Place(j - 1) < Size
      BY <2>1 DEF InStep, StreamContinues
    <3>2. m.offset < stream.offset
      BY <1>1, <1>3, <2>1 DEF InStep, StreamIsAhead
    <3>3. Place(k) < Place(j)
      <4>1. Place(j) \in Int
        BY <1>0, ConstantsAssumption DEF Place, Numbers
      <4> QED BY <1>2, <1>4, <3>1, <3>2, <4>1, ConstantsAssumption DEF Least
    <3>4. PICK n \in Numbers :
            /\ Forward(expectedSeq', n) = Forward(expectedSeq, j)
            /\ Least(Place(n)', Size) = Least(Place(j), Size)
            /\ n >= 1 => Place(n - 1)' < Size
      BY <1>7, <3>1, <3>3
    <3> QED BY <3>1, <3>4
  <2> QED BY <1>1, <2>1 DEF StreamContinues
<1>16. AsksNext' /\ Continued'
  BY <1>5, <1>11 DEF AsksNext, Continued
<1> QED BY <1>12, <1>13, <1>14, <1>15, <1>16 DEF InStep

\* on_payload drops what it has taken already, and takes what it waits for.
LEMMA OldNumbers ==
  ASSUME Short, NEW n \in Numbers
  PROVE  /\ (n - 1 - Forward(n, -2)) % SeqMod < (SeqMod - 1) \div 2
         /\ \A i \in Nat : i <= 2 => ~((n - 1 - Forward(n, i)) % SeqMod < (SeqMod - 1) \div 2)
<1>0. SeqMod \in Nat /\ SeqMod >= 5 /\ n \in Int
  BY ConstantsAssumption DEF Short, Numbers
<1>1. (SeqMod - 1) \div 2 \in Nat /\ (SeqMod - 1) \div 2 >= 2 /\ (SeqMod - 1) \div 2 <= SeqMod - 3
  BY <1>0
<1>2. (n - 1 - Forward(n, -2)) % SeqMod = 1
  <2>1. PICK a \in Int, m \in Int : m = -2 /\ a = n + m
    BY <1>0
  <2>2. PICK r \in Numbers, q \in Int : r = a % SeqMod /\ a = SeqMod * q + r
    BY DivMod
  <2>6. r \in Int
    BY <1>0 DEF Numbers
  <2>3. n - 1 - r = SeqMod * q + 1 /\ n - 1 - r \in Int
    <3>1. PICK p \in Int : p = SeqMod * q
      BY <1>0
    <3> QED BY <1>0, <2>1, <2>2, <2>6, <3>1
  <2>4. 1 \in Numbers
    BY <1>0 DEF Numbers
  <2>5. (n - 1 - r) % SeqMod = 1
    BY <2>3, <2>4, Remainder
  <2> QED BY <2>1, <2>2, <2>5 DEF Forward
<1>3. ASSUME NEW i \in Nat, i <= 2 PROVE (n - 1 - Forward(n, i)) % SeqMod = SeqMod - 1 - i
  <2>1. PICK a \in Int : a = n + i
    BY <1>0
  <2>2. PICK r \in Numbers, q \in Int : r = a % SeqMod /\ a = SeqMod * q + r
    BY DivMod
  <2>6. r \in Int
    BY <1>0 DEF Numbers
  <2>3. n - 1 - r = SeqMod * (q - 1) + (SeqMod - 1 - i) /\ n - 1 - r \in Int /\ q - 1 \in Int
    <3>1. PICK p \in Int : p = SeqMod * q
      BY <1>0
    <3>2. SeqMod * (q - 1) = p - SeqMod
      BY <1>0, <3>1
    <3> QED BY <1>0, <2>1, <2>2, <2>6, <3>1, <3>2
  <2>4. SeqMod - 1 - i \in Numbers
    BY <1>0, <1>3 DEF Numbers
  <2>5. (n - 1 - r) % SeqMod = SeqMod - 1 - i
    BY <2>3, <2>4, Remainder
  <2> QED BY <2>1, <2>2, <2>5 DEF Forward
<1> QED BY <1>0, <1>1, <1>2, <1>3

\* An end of the file that is taken is the last that is sent.
LEMMA EndAhead ==
  ASSUME Short, IInv, InStep, NEW m, Receives(m), m.op = "Burst", m.type = "Eof", ~Old(m.seq)
  PROVE  /\ toVehicle = <<>> /\ stream' = NoStream /\ Len(toStation) = 1
         /\ \A i \in DOMAIN toStation' : i = 1 /\ toStation'[i] = m
         /\ \E k \in Numbers : m.seq = Forward(expectedSeq, k) /\ PastEnd(k)
<1>1. m \in Replied /\ m = toStation[1] /\ 1 \in DOMAIN toStation /\ stream' = stream
  BY Received DEF IInv, server
<1>2. m.seq # Forward(expectedSeq, -2)
  <2>1. expectedSeq \in Numbers
    BY DEF IInv, Typed
  <2>2. Old(Forward(expectedSeq, -2))
    BY <2>1, OldNumbers DEF Old
  <2> QED BY <2>2
<1>3. ~Spent(1)
  BY <1>1, <1>2 DEF Spent
<1>4. toVehicle = <<>> /\ Ahead(m) /\ Last(1)
  BY <1>1, <1>3 DEF InStep, AsksNext, Continued, EndsLast, Ending
<1>5. Len(toStation) = 1 /\ stream' = NoStream
  BY <1>1, <1>4 DEF Last
<1>6. \A i \in DOMAIN toStation' : i = 1 /\ toStation'[i] = m
  BY <1>5, Left DEF IInv
<1> QED BY <1>4, <1>5, <1>6 DEF Ahead

LEMMA EndKeepsStep ==
  ASSUME Short, IInv, InStep, NEW m, Receives(m), m.op = "Burst", m.type = "Eof", ~Old(m.seq),
         m.seq # expectedSeq, OnBurstEnd(m)
  PROVE  InStep'
<1>1. /\ toVehicle = <<>> /\ stream' = NoStream
      /\ \A i \in DOMAIN toStation' : i = 1 /\ toStation'[i] = m
  BY EndAhead
<1>2. /\ Typed /\ expectedOffset \in 0 .. Size
  BY DEF IInv, Typed
<1>3. m.seq \in Numbers /\ m.seq \in Int
  <2>1. m \in Replied
    BY <1>2, Received
  <2> QED BY <2>1, RepliedFields, ConstantsAssumption DEF Numbers
<1>4. PICK request \in Requests : request = [op |-> "Burst", offset |-> expectedOffset]
  BY <1>2, RequestFacts
<1>5. Send(m.seq, request) /\ expectedOffset' = expectedOffset
  BY <1>4 DEF OnBurstEnd, Burst, Ask, Unread, transfer
<1>6. /\ expectedSeq' = Forward(m.seq, 2)
      /\ toVehicle' = <<>> \/ toVehicle' = <<[seq |-> Forward(m.seq, 1), request |-> request]>>
  BY <1>1, <1>2, <1>3, <1>5, Sent
<1>7. Forward(expectedSeq', -1) = Forward(m.seq, 1) /\ Forward(expectedSeq', -2) = m.seq
  BY <1>3, <1>6, AnsweredNumbers
<1>8. \A i \in DOMAIN toStation' : Spent(i)'
  BY <1>1, <1>7 DEF Spent
<1> QED BY <1>1, <1>4, <1>5, <1>6, <1>7, <1>8, Fresh

\* At the number expected the end comes after all of the file.
LEMMA EndIsReached ==
  ASSUME Short, IInv, InStep, NEW m, Receives(m), m.op = "Burst", m.type = "Eof", ~Old(m.seq),
         m.seq = expectedSeq
  PROVE  expectedOffset = Size
<1>1. PICK k \in Numbers : m.seq = Forward(expectedSeq, k) /\ PastEnd(k)
  BY EndAhead
<1>2. expectedSeq \in Numbers /\ expectedOffset \in 0 .. Size /\ SeqMod \in Nat
  BY ConstantsAssumption DEF IInv, Typed
<1>3. Forward(expectedSeq, k) = Forward(expectedSeq, 0)
  BY <1>1, <1>2, ForwardSame
<1>4. k = 0
  <2>1. k \in Int /\ expectedSeq \in Int /\ k - 0 < SeqMod /\ 0 - k < SeqMod
    BY <1>2 DEF Numbers
  <2> QED BY <1>3, <2>1, ForwardDiffers
<1>5. expectedOffset + 0 * DataLen >= Size
  BY <1>1, <1>4 DEF PastEnd, Place
<1> QED BY <1>2, <1>5, ConstantsAssumption

\* The burst is asked for once the file is open.
LEMMA OpenKeepsStep ==
  ASSUME IInv, NEW m, Receives(m), phase = "Open", m.op = "Open", m.type = "Ack", m.seq = expectedSeq,
         expectedOffset = 0, Burst(expectedSeq, 0), Unread
  PROVE  InStep'
<1>0. Typed /\ Session /\ expectedSeq \in Int
  BY ConstantsAssumption DEF IInv, Typed, Numbers
<1>1. m = toStation[1] /\ 1 \in DOMAIN toStation /\ stream' = stream
  BY <1>0, Received DEF server
<1>2. 1 = Len(toStation) /\ toVehicle = <<>> /\ stream' = NoStream
  BY <1>0, <1>1 DEF Session, Opening
<1>3. \A i \in DOMAIN toStation' : i = 1 /\ toStation'[i] = m
  BY <1>0, <1>2, Left
<1>4. PICK request \in Requests : request = [op |-> "Burst", offset |-> 0]
  <2>1. 0 \in 0 .. Size
    BY ConstantsAssumption
  <2> QED BY <2>1, RequestFacts
<1>5. Send(expectedSeq, request) /\ expectedOffset' = 0
  BY <1>4 DEF Burst, Ask, Unread, transfer
<1>6. /\ expectedSeq' = Forward(expectedSeq, 2)
      /\ toVehicle' = <<>> \/ toVehicle' = <<[seq |-> Forward(expectedSeq, 1), request |-> request]>>
  BY <1>0, <1>2, <1>5, Sent
<1>7. Forward(expectedSeq', -1) = Forward(expectedSeq, 1)
  BY <1>0, <1>6, AnsweredNumbers
<1>8. \A i \in DOMAIN toStation' : Spent(i)'
  BY <1>3 DEF Spent
<1> QED BY <1>2, <1>3, <1>4, <1>5, <1>6, <1>7, <1>8, Fresh

\* A burst asked for again when nothing is in flight.
LEMMA TimeoutKeepsStep ==
  ASSUME IInv, Timeout, ~late', phase = "Burst", phase' = "Burst"
  PROVE  InStep'
<1>1. /\ Typed /\ expectedOffset \in 0 .. Size
  BY DEF IInv, Typed
<1>2. toVehicle = <<>> /\ toStation' = <<>> /\ stream' = NoStream /\ expectedOffset' = expectedOffset
  BY DEF Timeout, server, transfer
<1>3. PICK request \in Requests : request = [op |-> "Burst", offset |-> expectedOffset]
  BY <1>1, RequestFacts
<1>4. Send(Again, request)
  BY <1>3 DEF Timeout, End, Continue, Burst, Ask
<1>5. /\ expectedSeq' = expectedSeq
      /\ \/ toVehicle' = <<>>
         \/ toVehicle' = <<[seq |-> Forward(expectedSeq, -1), request |-> request]>>
  BY <1>1, <1>2, <1>4, SentAgain
<1>6. \A i \in DOMAIN toStation' : i = 1 /\ Spent(i)'
  BY <1>2
<1> QED BY <1>2, <1>3, <1>5, <1>6, Fresh

-----------------------------------------------------------------------------
(* Each step keeps what makes a download end with the whole file.          *)

LEMMA QuietKeepsWhole ==
  ASSUME WholeInv, UNCHANGED <<file, checkSize, got>>, ~late' => ~late,
         phase' \in {"Idle", "Terminate"}, result' = "Ok" => phase = "Reset" \/ result = "Ok"
  PROVE  WholeInv'
BY DEF WholeInv, EndsWhole, Whole

LEMMA SamePhaseKeepsWhole ==
  ASSUME WholeInv, UNCHANGED <<file, checkSize, expectedOffset, got, missing, phase, result>>,
         ~late' => ~late, phase = "Burst" /\ ~late' /\ InStep => InStep'
  PROVE  WholeInv'
<1>1. EndsWhole'
  BY DEF WholeInv, EndsWhole, Whole
<1>2. phase' = "Fill" /\ ~late' => Covers(Size, got', missing')
  BY DEF WholeInv
<1> QED BY <1>1, <1>2 DEF WholeInv, Covers

LEMMA LinkKeepsWhole ==
  ASSUME IInv, WholeInv, Lose \/ Die \/ UNCHANGED vars
  PROVE  WholeInv'
<1>0. Typed
  BY DEF IInv
<1>1. toVehicle \in Seq(Asked) /\ toStation \in Seq(Replied)
  BY <1>0 DEF Typed
<1>2. /\ toVehicle' \in Seq(Asked) /\ toStation' \in Seq(Replied)
      /\ Rest(toVehicle, toVehicle') /\ Rest(toStation, toStation')
  BY <1>1, RestFacts DEF Lose, Die, vars
<1>3. /\ UNCHANGED <<file, checkSize, expectedSeq, expectedOffset, got, missing, phase, result, stream, late>>
  BY DEF Lose, Die, vars, station, transfer, server
<1>4. InStep => InStep'
  BY <1>0, <1>2, <1>3, LossKeepsStep
<1> QED BY <1>3, <1>4, SamePhaseKeepsWhole

LEMMA ServerKeepsWhole ==
  ASSUME Short, IInv, WholeInv, ServerReceive \/ Stream
  PROVE  WholeInv'
<1>0. Typed
  BY DEF IInv
<1>1. UNCHANGED <<file, checkSize, expectedOffset, got, missing, phase, result, late>>
  BY DEF ServerReceive, Stream, station, transfer
<1>2. InStep => InStep'
  BY <1>0, ServedKeepsStep, StreamKeepsStep
<1> QED BY <1>1, <1>2, SamePhaseKeepsWhole

LEMMA StartKeepsWhole ==
  ASSUME WholeInv, NEW check \in BOOLEAN, Start(check)
  PROVE  WholeInv'
BY DEF Start, WholeInv, EndsWhole

LEMMA TimeoutKeepsWhole ==
  ASSUME IInv, WholeInv, Timeout
  PROVE  WholeInv'
<1>1. UNCHANGED <<file, checkSize, expectedOffset, got, missing>> /\ (~late' => ~late)
  BY DEF Timeout, transfer
<1>2. \/ phase' = "Idle" /\ (result' = "Ok" => phase = "Reset")
      \/ phase' = phase /\ result' = result
  BY DEF Timeout, End, Continue, Burst
<1>3. CASE phase' = "Idle" /\ (result' = "Ok" => phase = "Reset")
  BY <1>1, <1>3, QuietKeepsWhole
<1>4. CASE phase' = phase /\ result' = result
  <2>1. phase = "Burst" /\ ~late' => InStep'
    BY <1>4, TimeoutKeepsStep
  <2> QED BY <1>1, <1>4, <2>1, SamePhaseKeepsWhole
<1> QED BY <1>2, <1>3, <1>4

LEMMA CancelKeepsWhole ==
  ASSUME WholeInv, Cancel \/ Abandon
  PROVE  WholeInv'
<1>1. /\ UNCHANGED <<file, checkSize, got, late>> /\ phase' \in {"Idle", "Terminate"}
      /\ result' \in {result, "Failed"}
  BY DEF Cancel, Abandon, MayCancel, Continue, transfer
<1> QED BY <1>1, QuietKeepsWhole

\* Without gaps the bytes are the file.
LEMMA AllCovered ==
  ASSUME NEW bytes, bytes \subseteq (1 .. MaxDownloads) \X Bytes, NEW f,
         \A b \in bytes : b[1] = f, Covers(Size, bytes, <<>>)
  PROVE  bytes = {f} \X Bytes
<1>1. ASSUME NEW x \in Bytes PROVE <<f, x>> \in bytes
  <2>1. x \in 0 .. Size - 1
    BY DEF Bytes
  <2>2. PICK b \in bytes : b[2] = x
    BY <2>1 DEF Covers
  <2>3. b = <<b[1], b[2]>>
    OBVIOUS
  <2> QED BY <2>2, <2>3
<1>2. ASSUME NEW b \in bytes PROVE b \in {f} \X Bytes
  OBVIOUS
<1>3. ASSUME NEW y \in {f} \X Bytes PROVE y \in bytes
  <2>1. PICK x \in Bytes : y = <<f, x>>
    OBVIOUS
  <2> QED BY <1>1, <2>1
<1> QED BY <1>2, <1>3

LEMMA BurstKeepsWhole ==
  ASSUME Short, IInv, IInv', WholeInv, NEW m, Receives(m), phase = "Burst", m.op = "Burst", ~Old(m.seq), OnBurst(m)
  PROVE  WholeInv'
<1>0. /\ Typed /\ Accounted /\ result = "None" /\ expectedOffset \in 0 .. Size
      /\ ~late => InStep
  BY DEF IInv, Typed, WholeInv
<1>1. /\ m \in Replied /\ late' = late /\ stream' = stream
      /\ toStation' \in Seq(Replied) /\ Rest(toStation, toStation')
  BY <1>0, Received DEF server
<1>2. CASE m.type = "Data" /\ WithinFile(m) /\ m.offset >= expectedOffset
  <2>1. OnBurstData(m)
    BY <1>2 DEF OnBurst
  <2>2. phase' = "Burst" /\ result' = result /\ m \in Packets
    BY <1>2, <2>1, BurstWrites
  <2>3. ~late => InStep'
    <3>1. m.complete \in BOOLEAN
      BY <2>2, PacketFields
    <3>2. CASE m.complete
      BY <1>0, <1>2, <2>1, <3>2, LastWriteKeepsStep
    <3>3. CASE ~m.complete
      BY <1>0, <1>2, <2>1, <3>3, WriteKeepsStep
    <3> QED BY <3>2, <3>3
  <2> QED BY <1>0, <1>1, <2>2, <2>3 DEF WholeInv, EndsWhole
<1>3. CASE m.type = "Data" /\ ~(WithinFile(m) /\ m.offset >= expectedOffset)
  <2>1. OnBurstData(m)
    BY <1>3 DEF OnBurst
  <2>2. Unread
    BY <1>3, <2>1 DEF OnBurstData
  <2>3. UNCHANGED <<file, checkSize, expectedOffset, got, missing>>
    BY <2>2 DEF Unread, transfer
  <2>4. CASE phase' = "Idle" /\ result' = "Failed"
    BY <1>1, <2>3, <2>4, QuietKeepsWhole
  <2>5. CASE UNCHANGED <<phase, expectedSeq, result, toVehicle>>
    <3>1. toVehicle' \in Seq(Asked) /\ Rest(toVehicle, toVehicle')
      BY <1>0, <2>5, RestFacts DEF Typed
    <3>2. InStep => InStep'
      BY <1>0, <1>1, <2>3, <2>5, <3>1, LossKeepsStep
    <3> QED BY <1>1, <2>3, <2>5, <3>2, SamePhaseKeepsWhole
  <2> QED BY <1>3, <2>1, <2>4, <2>5 DEF OnBurstData, End
<1>4. CASE m.type = "Eof" /\ m.seq # expectedSeq
  <2>1. OnBurstEnd(m)
    BY <1>4 DEF OnBurst
  <2>2. phase' = "Burst" /\ result' = result
    BY <1>4, <2>1 DEF OnBurstEnd, Burst, Continue
  <2>3. ~late => InStep'
    BY <1>0, <1>4, <2>1, EndKeepsStep
  <2> QED BY <1>0, <1>1, <2>2, <2>3 DEF WholeInv, EndsWhole
<1>5. CASE m.type = "Eof" /\ m.seq = expectedSeq
  <2>1. Fill(expectedSeq, missing, written) /\ UNCHANGED <<file, checkSize, written, got, missing>>
    BY <1>5 DEF OnBurst, OnBurstEnd
  <2>2. ~late => Covers(Size, got, missing)
    <3>1. ~late => expectedOffset = Size
      BY <1>0, <1>5, EndIsReached
    <3> QED BY <1>0, <3>1 DEF Accounted
  <2>3. CASE missing # <<>>
    <3>1. phase' = "Fill" /\ result' = result
      BY <2>1, <2>3 DEF Fill, ReadGap, Continue
    <3>2. Covers(Size, got, missing) => Covers(Size, got', missing')
      BY <2>1
    <3> QED BY <1>0, <1>1, <2>2, <3>1, <3>2 DEF WholeInv, EndsWhole, Covers
  <2>4. CASE missing = <<>>
    <3>1. \/ phase' = "Idle" /\ result' = "Failed"
          \/ phase' = "Reset" /\ result' = result /\ (checkSize => written = Size)
      BY <2>1, <2>4 DEF Fill, Reset, Continue, End
    <3>2. CASE phase' = "Reset" /\ result' = result
      <4>1. checkSize' => Whole'
        BY <3>2 DEF IInv
      <4>2. ~late => got = {file} \X Bytes
        <5>1. PICK bytes \in SUBSET ((1 .. MaxDownloads) \X Bytes) : bytes = got
          BY <1>0 DEF Typed
        <5>2. \A b \in bytes : b[1] = file
          BY <1>0, <5>1 DEF Accounted
        <5>3. ~late => Covers(Size, bytes, <<>>)
          BY <2>2, <2>4, <5>1
        <5> QED BY <5>1, <5>2, <5>3, AllCovered
      <4>3. EndsWhole'
        BY <1>1, <2>1, <4>1, <4>2 DEF EndsWhole, Whole
      <4> QED BY <3>2, <4>3 DEF WholeInv
    <3> QED BY <1>1, <2>1, <3>1, <3>2, QuietKeepsWhole
  <2> QED BY <2>3, <2>4
<1>6. CASE m.type = "Nak"
  BY <1>1, <1>6, QuietKeepsWhole DEF OnBurst, End, Unread, transfer
<1> QED BY <1>2, <1>3, <1>4, <1>5, <1>6 DEF OnBurst

LEMMA FillKeepsWhole ==
  ASSUME IInv, IInv', WholeInv, NEW m, Receives(m), phase = "Fill", m.op = "Read", OnFill(m)
  PROVE  WholeInv'
<1>0. Typed /\ Accounted /\ result = "None"
  BY DEF IInv, Typed
<1>1. m \in Replied /\ late' = late
  BY <1>0, Received
<1>2. CASE m.seq # expectedSeq /\ Ignored
  BY <1>1, <1>2, SamePhaseKeepsWhole DEF Ignored, station, transfer
<1>3. CASE m.seq = expectedSeq /\ m.type = "Data" /\ OnFillData(m) /\ m.offset # expectedOffset
  <2>1. UNCHANGED <<file, checkSize, expectedOffset, got, missing>>
    BY <1>3 DEF OnFillData, Unread, transfer
  <2>2. \/ phase' = "Idle" /\ result' = "Failed"
        \/ phase' = "Fill" /\ result' = result
    BY <1>3 DEF OnFillData, End, Continue
  <2>3. CASE phase' = "Idle" /\ result' = "Failed"
    BY <1>1, <2>1, <2>3, QuietKeepsWhole
  <2>4. CASE phase' = "Fill" /\ result' = result
    BY <1>1, <2>1, <2>4, SamePhaseKeepsWhole
  <2> QED BY <2>2, <2>3, <2>4
<1>4. CASE m.seq = expectedSeq /\ m.type = "Data" /\ m.offset = expectedOffset /\ ~WithinFile(m)
  BY <1>1, <1>4, QuietKeepsWhole DEF OnFill, OnFillData, End, Unread, transfer
<1>5. CASE m.seq = expectedSeq /\ m.type = "Data" /\ m.offset = expectedOffset /\ WithinFile(m)
  <2>1. PICK gaps : gaps = Shrunk(m.count)
    OBVIOUS
  <2>2. /\ got' = got \cup BytesOf(m) /\ missing' = gaps /\ file' = file /\ checkSize' = checkSize
        /\ Fill(expectedSeq, gaps, written + m.count)
    BY <1>5, <2>1 DEF OnFill, OnFillData, Written
  <2>3. /\ ~late => Covers(Size, got', gaps)
        /\ \A b \in got' : b[1] = file
        /\ got' \subseteq (1 .. MaxDownloads) \X Bytes
    <3>1. PICK n \in 0 .. Size : Covers(n, got, missing) /\ (~late => n = Size)
      <4>1. Size \in 0 .. Size
        BY ConstantsAssumption
      <4>2. CASE ~late
        BY <1>0, <4>1, <4>2 DEF WholeInv
      <4>3. CASE late
        BY <1>0, <4>3 DEF Accounted
      <4> QED BY <4>2, <4>3
    <3>2. /\ Covers(n, got \cup BytesOf(m), Shrunk(m.count))
          /\ \A b \in got \cup BytesOf(m) : b[1] = file
          /\ got \cup BytesOf(m) \subseteq (1 .. MaxDownloads) \X Bytes
      BY <1>5, <3>1, FillWrites
    <3> QED BY <2>1, <2>2, <3>1, <3>2
  <2>4. CASE gaps # <<>>
    <3>1. phase' = "Fill" /\ result' = result
      BY <2>2, <2>4 DEF Fill, ReadGap, Continue
    <3>2. ~late' => Covers(Size, got', missing')
      BY <1>1, <2>2, <2>3
    <3> QED BY <1>0, <3>1, <3>2 DEF WholeInv, EndsWhole, Covers
  <2>5. CASE gaps = <<>>
    <3>1. \/ phase' = "Idle" /\ result' = "Failed"
          \/ phase' = "Reset" /\ result' = result
      BY <2>2, <2>5 DEF Fill, Reset, Continue, End
    <3>2. CASE phase' = "Reset" /\ result' = result
      <4>1. checkSize' => Whole'
        BY <3>2 DEF IInv
      <4>2. ~late => got' = {file} \X Bytes
        <5>1. PICK bytes \in SUBSET ((1 .. MaxDownloads) \X Bytes) : bytes = got'
          BY <2>3
        <5>2. \A b \in bytes : b[1] = file
          BY <2>3, <5>1
        <5>3. ~late => Covers(Size, bytes, <<>>)
          BY <2>3, <2>5, <5>1
        <5> QED BY <5>1, <5>2, <5>3, AllCovered
      <4>3. EndsWhole'
        BY <1>1, <2>2, <4>1, <4>2 DEF EndsWhole, Whole
      <4> QED BY <3>2, <4>3 DEF WholeInv
    <3>3. CASE phase' = "Idle" /\ result' = "Failed"
      BY <3>3 DEF WholeInv, EndsWhole
    <3> QED BY <3>1, <3>2, <3>3
  <2> QED BY <2>4, <2>5
<1>6. CASE m.type # "Data"
  <2>1. m.type # "Eof"
    BY <1>1, RepliedFields
  <2> QED BY <1>1, <1>2, <1>6, <2>1, QuietKeepsWhole DEF OnFill, End, Unread, transfer
<1> QED BY <1>2, <1>3, <1>4, <1>5, <1>6 DEF OnFill

LEMMA StationKeepsWhole ==
  ASSUME Short, IInv, IInv', WholeInv, StationReceive
  PROVE  WholeInv'
<1>0. Typed
  BY DEF IInv
<1>1. PICK m : Receives(m) /\ OnPayload(m)
  BY DEF StationReceive, Receives
<1>2. /\ m \in Replied /\ UNCHANGED <<late, stream>> /\ toStation' \in Seq(Replied) /\ Rest(toStation, toStation')
  BY <1>0, <1>1, Received DEF server
<1>3. CASE Ignored
  <2>1. /\ UNCHANGED <<file, checkSize, expectedSeq, expectedOffset, got, missing, phase, result, toVehicle>>
    BY <1>3 DEF Ignored, station, transfer
  <2>2. toVehicle' \in Seq(Asked) /\ Rest(toVehicle, toVehicle')
    BY <1>0, <2>1, RestFacts DEF Typed
  <2>3. InStep => InStep'
    BY <1>0, <1>2, <2>1, <2>2, LossKeepsStep
  <2> QED BY <1>2, <2>1, <2>3, SamePhaseKeepsWhole
<1>4. CASE phase = "Open" /\ m.op = "Open" /\ OnOpen(m) /\ ~Ignored
  <2>1. m.seq = expectedSeq
    BY <1>4 DEF OnOpen
  <2>2. CASE m.type = "Ack"
    <3>1. Burst(expectedSeq, 0) /\ Unread
      BY <1>4, <2>1, <2>2 DEF OnOpen
    <3>2. phase' = "Burst" /\ result' = result /\ result = "None" /\ expectedOffset = 0
      BY <1>0, <1>4, <3>1 DEF Burst, Continue, Typed, WholeInv
    <3>3. InStep'
      BY <1>1, <1>4, <2>1, <2>2, <3>1, <3>2, OpenKeepsStep
    <3> QED BY <3>2, <3>3 DEF WholeInv, EndsWhole
  <2>3. CASE m.type # "Ack"
    BY <1>2, <1>4, <2>1, <2>3, QuietKeepsWhole DEF OnOpen, End, Unread, transfer
  <2> QED BY <2>2, <2>3
<1>5. CASE phase = "Burst" /\ m.op = "Burst" /\ ~Old(m.seq) /\ OnBurst(m)
  BY <1>1, <1>5, BurstKeepsWhole
<1>6. CASE phase = "Fill" /\ m.op = "Read" /\ OnFill(m)
  BY <1>1, <1>6, FillKeepsWhole
<1>7. CASE phase = "Reset" /\ OnReset(m) /\ ~Ignored
  BY <1>2, <1>7, QuietKeepsWhole DEF OnReset, End, Unread, transfer
<1>8. CASE phase = "Terminate" /\ OnTerminate(m) /\ ~Ignored
  BY <1>2, <1>8, QuietKeepsWhole DEF OnTerminate, End, Unread, transfer
<1>9. Ignored \/ (phase # "Idle" /\ ~Old(m.seq) /\ m.op = Asks(phase))
  BY <1>1 DEF OnPayload
<1> QED BY <1>1, <1>3, <1>4, <1>5, <1>6, <1>7, <1>8, <1>9 DEF OnPayload, Asks

LEMMA WholeContinues ==
  ASSUME Short, IInv, IInv', WholeInv, [Next]_vars
  PROVE  WholeInv'
<1>1. ASSUME NEW check \in BOOLEAN, Start(check) PROVE WholeInv'
  BY <1>1, StartKeepsWhole
<1>2. CASE Cancel \/ Abandon
  BY <1>2, CancelKeepsWhole
<1>3. CASE Timeout
  BY <1>3, TimeoutKeepsWhole
<1>4. CASE StationReceive
  BY <1>4, StationKeepsWhole
<1>5. CASE ServerReceive \/ Stream
  BY <1>5, ServerKeepsWhole
<1>6. CASE Lose \/ Die \/ UNCHANGED vars
  BY <1>6, LinkKeepsWhole
<1> QED BY <1>1, <1>2, <1>3, <1>4, <1>5, <1>6 DEF Next

-----------------------------------------------------------------------------
(* While nothing goes wrong one thing is under way, and nothing fails.     *)

LEMMA CalmBefore ==
  ASSUME Typed, [Next]_vars, Calm'
  PROVE  Calm
<1>0. faults \in Nat /\ cancels \in Nat
  BY DEF Typed
<1>1. /\ faults' = faults \/ faults' = faults + 1
      /\ cancels' = cancels \/ cancels' = cancels + 1
  BY DEF Next, vars, Start, Cancel, Abandon, MayCancel, Timeout, StationReceive, DeliveredOnceMore,
         ServerReceive, Stream, Lose, Die
<1>2. ~refused' => ~refused
  BY DEF Next, vars, Start, Cancel, Abandon, MayCancel, Timeout, StationReceive, ServerReceive, Refuse,
         Stream, Lose, Die
<1>3. ~dead' => ~dead
  BY DEF Next, vars, Start, Cancel, Abandon, MayCancel, Timeout, StationReceive, ServerReceive,
         Stream, Lose, Die
<1>4. ~late' => ~late
  <2>1. CASE Timeout
    BY <2>1 DEF Timeout
  <2>2. CASE ~Timeout
    <3>1. late' = late
      BY <2>2 DEF Next, vars, Start, Cancel, Abandon, MayCancel, StationReceive, ServerReceive,
                  Stream, Lose, Die
    <3> QED BY <3>1
  <2> QED BY <2>1, <2>2
<1>5. faults = 0 /\ cancels = 0
  BY <1>0, <1>1 DEF Calm
<1> QED BY <1>2, <1>3, <1>4, <1>5 DEF Calm

LEMMA StartKeepsCalm ==
  ASSUME Typed, Calm, UnderWay, NEW check \in BOOLEAN, Start(check)
  PROVE  UnderWay'
<1>1. phase = "Idle" /\ toVehicle = <<>> /\ toStation' = <<>> /\ stream' = NoStream /\ ~dead
  BY DEF Start, UnderWay, Calm, server
<1>2. expectedSeq \in Int /\ file + 1 \in 1 .. MaxDownloads
  BY ConstantsAssumption DEF Typed, Numbers, Start
<1>3. PICK request \in Requests : request = [op |-> "Open", file |-> file + 1]
  BY <1>2 DEF Requests
<1>4. Send(expectedSeq, request)
  BY <1>3 DEF Start, Ask
<1>5. /\ expectedSeq' = Forward(expectedSeq, 2)
      /\ toVehicle' = <<[seq |-> Forward(expectedSeq, 1), request |-> request]>>
  BY <1>1, <1>2, <1>4, Sent
<1>6. Forward(Forward(expectedSeq, 1), 1) = Forward(expectedSeq, 2)
  BY <1>2, ForwardForward
<1>7. /\ Len(toVehicle') = 1 /\ toVehicle'[1].request.op = "Open"
      /\ Forward(toVehicle'[1].seq, 1) = expectedSeq'
  BY <1>3, <1>5, <1>6
<1>8. phase' = "Open" /\ result' = "None" /\ missing' = <<>>
  BY DEF Start
<1> QED BY <1>1, <1>7, <1>8 DEF UnderWay

LEMMA TimeoutIsLate ==
  ASSUME UnderWay, Timeout
  PROVE  late'
<1>1. phase # "Idle"
  BY DEF Timeout
<1>2. toVehicle # <<>> \/ toStation # <<>> \/ stream # NoStream
  <2>1. CASE phase \in {"Open", "Reset"}
    <3>1. Len(toVehicle) = 1 \/ toStation = <<[type |-> "Ack", op |-> phase, seq |-> expectedSeq]>>
      BY <2>1 DEF UnderWay
    <3> QED BY <3>1
  <2>2. CASE phase = "Burst"
    BY <2>2 DEF UnderWay, Streaming
  <2> QED BY <1>1, <2>1, <2>2 DEF UnderWay
<1> QED BY <1>2 DEF Timeout

LEMMA ServedKeepsCalm ==
  ASSUME Typed, UnderWay, phase = "Burst" => InStep, ServerReceive, Calm'
  PROVE  UnderWay'
<1>0. expectedSeq \in Numbers /\ expectedSeq \in Int /\ expectedOffset \in 0 .. Size
  BY ConstantsAssumption DEF Typed, Numbers
<1>1. /\ toVehicle # <<>> /\ toVehicle' = Tail(toVehicle)
      /\ UNCHANGED <<phase, result, missing, expectedSeq, expectedOffset>>
  BY DEF ServerReceive, station, transfer
<1>2. Answer(toVehicle[1].request.op, toVehicle[1].request, Forward(toVehicle[1].seq, 1))
  <2>1. ~Refuse(Head(toVehicle).request.op, Forward(Head(toVehicle).seq, 1))
    BY DEF Refuse, Calm
  <2>2. Head(toVehicle) = toVehicle[1]
    OBVIOUS
  <2> QED BY <2>1, <2>2 DEF ServerReceive
<1>3. CASE phase \in {"Open", "Reset"}
  <2>1. /\ toStation = <<>> /\ Len(toVehicle) = 1
        /\ toVehicle[1].request.op = phase /\ Forward(toVehicle[1].seq, 1) = expectedSeq
    BY <1>1, <1>3 DEF UnderWay
  <2>2. /\ stream' = NoStream
        /\ toStation' = Append(toStation, [type |-> "Ack", op |-> phase, seq |-> expectedSeq])
    BY <1>2, <1>3, <2>1 DEF Answer, Reply
  <2>3. toStation' = <<[type |-> "Ack", op |-> phase', seq |-> expectedSeq']>>
    BY <1>1, <2>1, <2>2
  <2>4. toVehicle' = <<>>
    <3>1. toVehicle \in Seq(Asked)
      BY DEF Typed
    <3>2. Tail(toVehicle) \in Seq(Asked) /\ Len(Tail(toVehicle)) = Len(toVehicle) - 1
      BY <1>1, <3>1, TailFacts
    <3>3. Len(Tail(toVehicle)) = 0
      BY <2>1, <3>2
    <3> QED BY <1>1, <3>2, <3>3, EmptySeq
  <2> QED BY <1>1, <1>3, <2>2, <2>3, <2>4 DEF UnderWay
<1>4. CASE phase = "Burst"
  <2>1. toStation = <<>>
    BY <1>1, <1>4 DEF UnderWay
  <2>2. PICK x : x = [seq |-> Forward(expectedSeq, -1),
                      request |-> [op |-> "Burst", offset |-> expectedOffset]]
    OBVIOUS
  <2>3. toVehicle = <<x>>
    BY <1>1, <1>4, <2>2 DEF InStep, AsksNext
  <2>4. Forward(x.seq, 1) = expectedSeq
    <3>1. PICK n \in Int : n = -1
      OBVIOUS
    <3>2. Forward(Forward(expectedSeq, n), 1) = Forward(expectedSeq, n + 1) /\ n + 1 = 0
      BY <1>0, <3>1, ForwardForward
    <3>3. Forward(expectedSeq, 0) = expectedSeq
      BY <1>0, ForwardSame
    <3> QED BY <2>2, <3>1, <3>2, <3>3
  <2>5. toVehicle[1] = x /\ x.request.op = "Burst" /\ x.request.offset = expectedOffset
    BY <2>2, <2>3
  <2>6. Answer("Burst", x.request, expectedSeq)
    BY <1>2, <2>4, <2>5
  <2>7. stream' = [seq |-> expectedSeq, offset |-> expectedOffset] /\ toStation' = <<>>
    BY <2>1, <2>5, <2>6 DEF Answer
  <2>8. toVehicle' = <<>>
    BY <1>1, <2>3
  <2>9. Streaming'
    <3>1. Forward(expectedSeq, 0) = expectedSeq
      BY <1>0, ForwardSame
    <3>2. Len(toStation') = 0 /\ DOMAIN toStation' = {}
      BY <2>7
    <3>3. /\ stream' # NoStream /\ stream'.seq = Forward(expectedSeq', 0)
          /\ stream'.offset = expectedOffset'
      BY <1>1, <2>7, <3>1 DEF NoStream
    <3>4. After(0)' = expectedOffset'
      BY DEF After
    <3> QED BY <3>2, <3>3, <3>4 DEF Streaming
  <2> QED BY <1>1, <1>4, <2>8, <2>9 DEF UnderWay
<1> QED BY <1>1, <1>3, <1>4 DEF UnderWay

LEMMA StreamKeepsCalm ==
  ASSUME Typed, UnderWay, phase = "Burst" => InStep, Stream
  PROVE  UnderWay'
<1>0. expectedSeq \in Int /\ Size \in Nat
  BY ConstantsAssumption DEF Typed, Numbers
<1>1. UNCHANGED <<phase, result, missing, expectedSeq, expectedOffset, toVehicle>>
  BY DEF Stream, station, transfer
<1>2. stream # NoStream /\ stream \in [seq : Numbers, offset : 0 .. Size]
  BY StreamSends
<1>3. phase = "Burst"
  BY <1>2 DEF UnderWay
<1>4. toVehicle = <<>> /\ Streaming
  BY <1>2, <1>3 DEF UnderWay, InStep, AsksNext
<1>5. PICK l \in Nat : l = Len(toStation)
  BY InFlight
<1>6. stream.seq = Forward(expectedSeq, l) /\ stream.offset = After(l)
  BY <1>2, <1>4, <1>5 DEF Streaming
<1>7. PICK r \in Replied :
        /\ toStation' = Append(toStation, r)
        /\ r.op = "Burst" /\ r.seq = stream.seq
        /\ \/ /\ r.type = "Eof" /\ stream.offset >= Size /\ stream' = NoStream
           \/ /\ r.type = "Data" /\ r.file = opened /\ r.offset = stream.offset
              /\ r.count = Least(DataLen, Size - stream.offset) /\ stream.offset < Size
              /\ r.offset + r.count <= Size
              /\ stream' = IF r.complete THEN NoStream
                           ELSE [seq |-> Forward(stream.seq, 1), offset |-> r.offset + r.count]
  BY StreamSends
<1>8. /\ DOMAIN toStation = 1 .. l /\ DOMAIN toStation' = 1 .. l + 1 /\ Len(toStation') = l + 1
      /\ \A i \in 1 .. l : toStation'[i] = toStation[i]
      /\ toStation'[l + 1] = r
  BY <1>5, <1>7, Answered
<1>9. ASSUME NEW i \in 0 .. l PROVE After(i)' = After(i)
  <2>1. i # 0 => i \in 1 .. l
    OBVIOUS
  <2> QED BY <1>1, <1>8, <2>1 DEF After
<1>10. /\ r.op = "Burst" /\ r.seq = Forward(expectedSeq, l)
       /\ \/ r.type = "Data" /\ r.offset = After(l)
          \/ r.type = "Eof" /\ After(l) = Size
  <2>1. r.type = "Eof" => After(l) = Size
    BY <1>0, <1>2, <1>6, <1>7
  <2> QED BY <1>6, <1>7, <2>1
<1>11. \A i \in DOMAIN toStation' :
         /\ toStation'[i].op = "Burst" /\ toStation'[i].seq = Forward(expectedSeq', i - 1)
         /\ \/ toStation'[i].type = "Data" /\ toStation'[i].offset = After(i - 1)'
            \/ toStation'[i].type = "Eof" /\ After(i - 1)' = Size
  <2>1. ASSUME NEW i \in DOMAIN toStation'
        PROVE  /\ toStation'[i].op = "Burst" /\ toStation'[i].seq = Forward(expectedSeq', i - 1)
               /\ \/ toStation'[i].type = "Data" /\ toStation'[i].offset = After(i - 1)'
                  \/ toStation'[i].type = "Eof" /\ After(i - 1)' = Size
    <3>1. PICK n \in 0 .. l : n = i - 1
      BY <1>8
    <3>2. After(n)' = After(n)
      BY <1>9
    <3>3. CASE n < l
      <4>1. i \in 1 .. l /\ toStation'[i] = toStation[i]
        BY <1>8, <3>1, <3>3
      <4>2. /\ toStation[i].op = "Burst" /\ toStation[i].seq = Forward(expectedSeq, n)
            /\ \/ toStation[i].type = "Data" /\ toStation[i].offset = After(n)
               \/ toStation[i].type = "Eof" /\ After(n) = Size
        BY <1>4, <1>8, <3>1, <4>1 DEF Streaming
      <4> QED BY <1>1, <3>1, <3>2, <4>1, <4>2
    <3>4. CASE n = l
      <4>1. toStation'[i] = r
        BY <1>8, <3>1, <3>4
      <4> QED BY <1>1, <1>10, <3>1, <3>2, <3>4, <4>1
    <3> QED BY <3>1, <3>3, <3>4
  <2> QED BY <2>1
<1>12. CASE stream' = NoStream
  <2>1. Ending(r)
    BY <1>7, <1>12 DEF Ending, NoStream
  <2>2. toStation' # <<>> /\ toStation'[Len(toStation')] = r
    BY <1>7, <1>8
  <2>3. Streaming'
    BY <1>11, <1>12, <2>1, <2>2 DEF Streaming, Ending
  <2> QED BY <1>1, <1>3, <1>4, <2>3 DEF UnderWay
<1>13. CASE stream' # NoStream
  <2>1. r.type = "Data" /\ stream' = [seq |-> Forward(stream.seq, 1), offset |-> r.offset + r.count]
    BY <1>7, <1>13
  <2>2. Forward(Forward(expectedSeq, l), 1) = Forward(expectedSeq, l + 1)
    BY <1>0, ForwardForward
  <2>3. stream'.seq = Forward(expectedSeq', Len(toStation'))
    BY <1>1, <1>6, <1>8, <2>1, <2>2
  <2>4. stream'.offset = After(Len(toStation))'
    <3>1. l + 1 # 0
      OBVIOUS
    <3> QED BY <1>8, <2>1, <3>1 DEF After
  <2>5. Streaming'
    BY <1>11, <1>13, <2>3, <2>4 DEF Streaming
  <2> QED BY <1>1, <1>3, <1>4, <2>5 DEF UnderWay
<1> QED BY <1>12, <1>13

\* What a calm link delivers is gone.
LEMMA CalmTakes ==
  ASSUME Typed, Calm', NEW m, Receives(m)
  PROVE  /\ toStation # <<>> /\ m = toStation[1] /\ m \in Replied /\ toStation' = Tail(toStation)
         /\ toStation' \in Seq(Replied) /\ Len(toStation') = Len(toStation) - 1
         /\ Len(toStation) \in Nat /\ Len(toStation) >= 1
         /\ DOMAIN toStation = 1 .. Len(toStation) /\ DOMAIN toStation' = 1 .. Len(toStation) - 1
         /\ \A i \in DOMAIN toStation' : i + 1 \in DOMAIN toStation /\ toStation'[i] = toStation[i + 1]
         /\ Len(toStation) = 1 => toStation' = <<>>
         /\ ~dead /\ stream' = stream
<1>1. toStation' = Tail(toStation) /\ toStation # <<>> /\ m = Head(toStation) /\ ~dead /\ stream' = stream
  BY DEF Receives, DeliveredOnceMore, Calm, Typed, server
<1>2. toStation \in Seq(Replied)
  BY DEF Typed
<1>3. /\ toStation' \in Seq(Replied) /\ Len(toStation') = Len(toStation) - 1
      /\ Len(toStation) \in Nat /\ Len(toStation) >= 1
      /\ DOMAIN toStation = 1 .. Len(toStation) /\ DOMAIN toStation' = 1 .. Len(toStation) - 1
      /\ \A i \in DOMAIN toStation' : i + 1 \in DOMAIN toStation /\ toStation'[i] = toStation[i + 1]
      /\ m = toStation[1] /\ m \in Replied
  BY <1>1, <1>2, TailFacts
<1>4. Len(toStation) = 1 => toStation' = <<>>
  <2>1. Len(toStation) = 1 => Len(toStation') = 0
    BY <1>3
  <2> QED BY <1>3, <2>1, EmptySeq
<1> QED BY <1>1, <1>3, <1>4

LEMMA OpenKeepsCalm ==
  ASSUME IInv, UnderWay, Calm', NEW m, Receives(m), phase = "Open", m.op = "Open", m.type = "Ack",
         m.seq = expectedSeq, Burst(expectedSeq, 0), Unread
  PROVE  UnderWay'
<1>1. Typed /\ Session /\ expectedSeq \in Int /\ result = "None"
  BY ConstantsAssumption DEF IInv, Typed, Numbers
<1>2. m = toStation[1] /\ ~dead /\ 1 \in DOMAIN toStation
  BY <1>1, CalmTakes
<1>3. 1 = Len(toStation) /\ toVehicle = <<>> /\ stream = NoStream
  BY <1>1, <1>2 DEF Session, Opening
<1>4. toStation' = <<>> /\ stream' = NoStream
  BY <1>1, <1>3, CalmTakes
<1>5. PICK request \in Requests : request = [op |-> "Burst", offset |-> 0]
  <2>1. 0 \in 0 .. Size
    BY ConstantsAssumption
  <2> QED BY <2>1, RequestFacts
<1>6. /\ Send(expectedSeq, request) /\ phase' = "Burst" /\ result' = result /\ missing' = missing
  BY <1>5 DEF Burst, Continue, Ask, Unread, transfer
<1>7. toVehicle' = <<[seq |-> Forward(expectedSeq, 1), request |-> request]>>
  BY <1>1, <1>2, <1>3, <1>6, Sent
<1>8. toVehicle' # <<>>
  BY <1>7
<1> QED BY <1>1, <1>4, <1>6, <1>8 DEF UnderWay

\* A packet that comes when all is well is the next.
LEMMA CalmBurst ==
  ASSUME Typed, UnderWay, Calm', NEW m, Receives(m), phase = "Burst"
  PROVE  /\ toVehicle = <<>> /\ m.op = "Burst" /\ m.seq = expectedSeq
         /\ \/ m.type = "Data" /\ m.offset = expectedOffset /\ m \in Packets
            \/ m.type = "Eof" /\ expectedOffset = Size
<1>1. toStation # <<>> /\ m = toStation[1] /\ m \in Replied /\ 1 \in DOMAIN toStation
  BY CalmTakes
<1>2. toVehicle = <<>> /\ Streaming
  BY <1>1 DEF UnderWay
<1>3. After(1 - 1) = expectedOffset /\ Forward(expectedSeq, 1 - 1) = expectedSeq
  <2>1. PICK z \in Int : z = 1 - 1 /\ z = 0
    OBVIOUS
  <2>2. After(z) = expectedOffset
    BY <2>1 DEF After
  <2>3. expectedSeq \in Numbers
    BY DEF Typed
  <2>4. Forward(expectedSeq, z) = expectedSeq
    BY <2>1, <2>3, ForwardSame
  <2> QED BY <2>1, <2>2, <2>4
<1>4. /\ m.op = "Burst" /\ m.seq = Forward(expectedSeq, 1 - 1)
      /\ \/ m.type = "Data" /\ m.offset = After(1 - 1)
         \/ m.type = "Eof" /\ After(1 - 1) = Size
  BY <1>1, <1>2 DEF Streaming
<1> QED BY <1>1, <1>2, <1>3, <1>4, RepliedFields

LEMMA LastWriteKeepsCalm ==
  ASSUME IInv, InStep, UnderWay, Calm', NEW m, Receives(m), phase = "Burst", OnBurst(m),
         m.type = "Data", m.complete
  PROVE  UnderWay'
<1>1. /\ Typed /\ result = "None" /\ missing = <<>>
      /\ expectedOffset \in 0 .. Size
  BY DEF IInv, Typed, UnderWay
<1>2. toVehicle = <<>> /\ m.op = "Burst" /\ m.offset = expectedOffset /\ m \in Packets
  BY <1>1, CalmBurst
<1>3. m.offset \in Nat /\ m.offset + m.count <= Size /\ m.seq \in Numbers /\ m.seq \in Int
  <2>1. m.offset \in Nat /\ m.offset + m.count <= Size
    BY <1>2, PacketFields
  <2>2. m.seq \in Numbers
    BY <1>1, CalmTakes, RepliedFields
  <2> QED BY <2>1, <2>2, ConstantsAssumption DEF Numbers
<1>4. OnBurstData(m) /\ WithinFile(m) /\ m.offset >= expectedOffset /\ ~(m.offset > expectedOffset)
  BY <1>2, <1>3 DEF OnBurst, WithinFile
<1>5. /\ phase' = "Burst" /\ result' = result /\ missing' = missing /\ expectedOffset' \in 0 .. Size
      /\ Send(m.seq, [op |-> "Burst", offset |-> expectedOffset'])
  BY <1>2, <1>4, BurstWrites
<1>6. Len(toStation) = 1
  <2>1. ~Spent(1)
    BY <1>2, <1>4, PacketAhead
  <2>2. m = toStation[1] /\ 1 \in DOMAIN toStation
    BY <1>1, CalmTakes
  <2> QED BY <2>1, <2>2 DEF InStep, EndsLast, Last, Ending
<1>7. toStation' = <<>> /\ ~dead
  BY <1>1, <1>6, CalmTakes
<1>8. PICK request \in Requests : request = [op |-> "Burst", offset |-> expectedOffset']
  BY <1>5, RequestFacts
<1>9. toVehicle' = <<[seq |-> Forward(m.seq, 1), request |-> request]>>
  BY <1>1, <1>2, <1>3, <1>5, <1>7, <1>8, Sent
<1>10. toVehicle' # <<>>
  BY <1>9
<1> QED BY <1>1, <1>5, <1>7, <1>10 DEF UnderWay

LEMMA WriteKeepsCalm ==
  ASSUME IInv, UnderWay, Calm', NEW m, Receives(m), phase = "Burst", OnBurst(m),
         m.type = "Data", ~m.complete
  PROVE  UnderWay'
<1>1. /\ Typed /\ result = "None" /\ missing = <<>>
      /\ expectedOffset \in 0 .. Size /\ expectedSeq \in Int
  BY ConstantsAssumption DEF IInv, Typed, UnderWay, Numbers
<1>2. toVehicle = <<>> /\ m.op = "Burst" /\ m.offset = expectedOffset /\ m \in Packets /\ m.seq = expectedSeq
  BY <1>1, CalmBurst
<1>3. m.offset \in Nat /\ m.offset + m.count <= Size
  BY <1>2, PacketFields
<1>4. OnBurstData(m) /\ WithinFile(m) /\ m.offset >= expectedOffset /\ ~(m.offset > expectedOffset)
  BY <1>2, <1>3 DEF OnBurst, WithinFile
<1>5. /\ phase' = "Burst" /\ result' = result /\ missing' = missing
      /\ expectedOffset' = m.offset + m.count
      /\ expectedSeq' = Forward(expectedSeq, 1) /\ toVehicle' = <<>>
  BY <1>2, <1>4, BurstWrites
<1>6. PICK l \in Nat : l = Len(toStation) /\ l >= 1
  BY <1>1, CalmTakes
<1>7. /\ toStation # <<>> /\ m = toStation[1]
      /\ toStation' \in Seq(Replied) /\ Len(toStation') = l - 1
      /\ DOMAIN toStation = 1 .. l /\ DOMAIN toStation' = 1 .. l - 1
      /\ \A i \in DOMAIN toStation' : i + 1 \in DOMAIN toStation /\ toStation'[i] = toStation[i + 1]
      /\ stream' = stream
  BY <1>1, <1>6, CalmTakes
<1>8. Streaming
  BY <1>2, <1>7 DEF UnderWay
<1>9. ASSUME NEW i \in 0 .. l - 1
      PROVE  After(i)' = After(i + 1) /\ Forward(expectedSeq', i) = Forward(expectedSeq, i + 1)
  <2>1. After(i)' = After(i + 1)
    <3>1. i + 1 # 0
      OBVIOUS
    <3>2. CASE i = 0
      <4>1. i + 1 = 1
        BY <3>2
      <4> QED BY <1>5, <1>7, <3>2, <4>1 DEF After
    <3>3. CASE i # 0
      <4>1. i \in 1 .. l - 1
        BY <3>3
      <4>2. toStation'[i] = toStation[i + 1]
        BY <1>7, <4>1
      <4> QED BY <3>1, <3>3, <4>2 DEF After
    <3> QED BY <3>2, <3>3
  <2>2. Forward(expectedSeq', i) = Forward(expectedSeq, i + 1)
    <3>1. Forward(Forward(expectedSeq, 1), i) = Forward(expectedSeq, 1 + i) /\ 1 + i = i + 1
      BY <1>1, ForwardForward
    <3> QED BY <1>5, <3>1
  <2> QED BY <2>1, <2>2
<1>10. ASSUME NEW i \in DOMAIN toStation'
       PROVE  /\ toStation'[i].op = "Burst" /\ toStation'[i].seq = Forward(expectedSeq', i - 1)
              /\ \/ toStation'[i].type = "Data" /\ toStation'[i].offset = After(i - 1)'
                 \/ toStation'[i].type = "Eof" /\ After(i - 1)' = Size
  <2>1. PICK j \in 2 .. l : j = i + 1
    BY <1>7
  <2>2. PICK n \in 0 .. l - 1 : n = i - 1
    BY <1>7
  <2>3. toStation'[i] = toStation[j] /\ j \in DOMAIN toStation /\ j - 1 = n + 1 /\ n + 1 \in Nat
    BY <1>7, <2>1, <2>2
  <2>4. /\ toStation[j].op = "Burst" /\ toStation[j].seq = Forward(expectedSeq, j - 1)
        /\ \/ toStation[j].type = "Data" /\ toStation[j].offset = After(j - 1)
           \/ toStation[j].type = "Eof" /\ After(j - 1) = Size
    BY <1>8, <2>3 DEF Streaming
  <2>5. After(n)' = After(n + 1) /\ Forward(expectedSeq', n) = Forward(expectedSeq, n + 1)
    BY <1>9
  <2>6. Forward(expectedSeq, j - 1) = Forward(expectedSeq, n + 1) /\ After(j - 1) = After(n + 1)
    BY <2>3
  <2>7. /\ toStation'[i].seq = Forward(expectedSeq', n)
        /\ \/ toStation'[i].type = "Data" /\ toStation'[i].offset = After(n)'
           \/ toStation'[i].type = "Eof" /\ After(n)' = Size
    BY <2>3, <2>4, <2>5, <2>6
  <2> QED BY <2>2, <2>3, <2>4, <2>7
<1>11. PICK n \in 0 .. l - 1 : n = l - 1 /\ n + 1 = l
  BY <1>6
<1>12. After(n)' = After(l) /\ Forward(expectedSeq', n) = Forward(expectedSeq, l)
  BY <1>9, <1>11
<1>13. Streaming'
  <2>1. CASE stream = NoStream
    <3>1. Ending(toStation[l])
      BY <1>6, <1>8, <2>1 DEF Streaming, Ending
    <3>2. l # 1
      <4>1. ~Ending(m)
        BY DEF Ending
      <4> QED BY <1>7, <3>1, <4>1
    <3>3. n \in DOMAIN toStation' /\ toStation'[n] = toStation[l]
      BY <1>7, <1>11, <3>2
    <3>4. toStation' # <<>> /\ Ending(toStation'[Len(toStation')])
      BY <1>7, <1>11, <3>1, <3>3 DEF Ending
    <3> QED BY <1>7, <1>10, <2>1, <3>4 DEF Streaming, Ending
  <2>2. CASE stream # NoStream
    <3>1. stream.seq = Forward(expectedSeq, l) /\ stream.offset = After(l)
      BY <1>6, <1>8, <2>2 DEF Streaming
    <3>2. stream'.seq = Forward(expectedSeq', n) /\ stream'.offset = After(n)'
      BY <1>7, <1>12, <3>1
    <3>3. n = Len(toStation')
      BY <1>7, <1>11
    <3>4. stream'.seq = Forward(expectedSeq', Len(toStation')) /\ stream'.offset = After(Len(toStation))'
      BY <3>2, <3>3 DEF After
    <3> QED BY <1>7, <1>10, <2>2, <3>4 DEF Streaming
  <2> QED BY <2>1, <2>2
<1> QED BY <1>1, <1>5, <1>13 DEF UnderWay

LEMMA EndKeepsCalm ==
  ASSUME Short, IInv, InStep, UnderWay, Calm', NEW m, Receives(m), phase = "Burst", OnBurst(m),
         m.type = "Eof", ~Old(m.seq)
  PROVE  UnderWay'
<1>1. /\ Typed /\ result = "None" /\ missing = <<>> /\ file \in 1 .. MaxDownloads
      /\ got \subseteq (1 .. MaxDownloads) \X Bytes /\ expectedSeq \in Int
      /\ \A b \in got : b[1] = file
  BY ConstantsAssumption DEF IInv, Typed, UnderWay, Accounted, Numbers
<1>2. toVehicle = <<>> /\ m.op = "Burst" /\ m.seq = expectedSeq /\ expectedOffset = Size
  BY <1>1, CalmBurst
<1>3. Len(toStation) = 1 /\ stream' = NoStream
  BY <1>2, EndAhead
<1>4. toStation' = <<>> /\ ~dead
  BY <1>1, <1>3, CalmTakes
<1>5. written = Size
  <2>1. written = Cardinality(got) /\ Covers(Size, got, missing)
    BY <1>2 DEF IInv, Accounted
  <2>2. PICK bytes \in SUBSET ((1 .. MaxDownloads) \X Bytes), f \in 1 .. MaxDownloads :
          bytes = got /\ f = file
    BY <1>1
  <2>3. Covers(Size, bytes, <<>>) /\ \A b \in bytes : b[1] = f
    BY <1>1, <2>1, <2>2
  <2>4. bytes = {f} \X Bytes
    BY <2>2, <2>3, AllCovered
  <2>5. Cardinality(bytes) = Size
    BY <2>2, <2>3, <2>4, AllBytes
  <2> QED BY <2>1, <2>2, <2>5
<1>6. Fill(expectedSeq, missing, written) /\ missing' = missing
  BY <1>2 DEF OnBurst, OnBurstEnd
<1>7. PICK request \in Requests : request = [op |-> "Reset"]
  BY RequestFacts
<1>8. /\ Send(expectedSeq, request) /\ phase' = "Reset" /\ result' = result
  BY <1>1, <1>5, <1>6, <1>7 DEF Fill, Reset, Continue, Ask
<1>9. /\ expectedSeq' = Forward(expectedSeq, 2)
      /\ toVehicle' = <<[seq |-> Forward(expectedSeq, 1), request |-> request]>>
  BY <1>1, <1>2, <1>4, <1>8, Sent
<1>10. Forward(Forward(expectedSeq, 1), 1) = Forward(expectedSeq, 2)
  BY <1>1, ForwardForward
<1>11. /\ Len(toVehicle') = 1 /\ toVehicle'[1].request.op = "Reset"
       /\ Forward(toVehicle'[1].seq, 1) = expectedSeq'
  BY <1>7, <1>9, <1>10
<1> QED BY <1>1, <1>3, <1>4, <1>6, <1>8, <1>11 DEF UnderWay

\* What a calm link delivers is not dropped as old.
LEMMA CalmIsNew == ASSUME Short, Typed PROVE ~Old(expectedSeq)
<1>1. expectedSeq \in Numbers
  BY DEF Typed
<1>2. Forward(expectedSeq, 0) = expectedSeq
  BY <1>1, ForwardSame
<1>3. ~((expectedSeq - 1 - Forward(expectedSeq, 0)) % SeqMod < (SeqMod - 1) \div 2)
  BY <1>1, OldNumbers
<1> QED BY <1>2, <1>3 DEF Old

LEMMA StationKeepsCalm ==
  ASSUME Short, IInv, UnderWay, phase = "Burst" => InStep, Calm', StationReceive
  PROVE  UnderWay'
<1>0. Typed
  BY DEF IInv
<1>1. PICK m : Receives(m) /\ OnPayload(m)
  BY DEF StationReceive, Receives
<1>2. /\ toStation # <<>> /\ m = toStation[1] /\ m \in Replied /\ stream' = stream
      /\ Len(toStation) = 1 => toStation' = <<>>
  BY <1>0, <1>1, CalmTakes
<1>3. CASE phase \in {"Open", "Reset"}
  <2>1. /\ stream = NoStream /\ toVehicle = <<>>
        /\ toStation = <<[type |-> "Ack", op |-> phase, seq |-> expectedSeq]>>
    BY <1>2, <1>3 DEF UnderWay
  <2>2. m.type = "Ack" /\ m.op = phase /\ m.seq = expectedSeq /\ Len(toStation) = 1
    BY <1>2, <2>1
  <2>3. ~Old(m.seq)
    BY <1>0, <2>2, CalmIsNew
  <2>4. CASE phase = "Open"
    <3>1. Burst(expectedSeq, 0) /\ Unread
      BY <1>1, <2>2, <2>3, <2>4 DEF OnPayload, OnOpen, Asks
    <3> QED BY <1>1, <2>2, <2>4, <3>1, OpenKeepsCalm
  <2>5. CASE phase = "Reset"
    <3>1. End("Ok") /\ Unread
      BY <1>1, <2>2, <2>3, <2>5 DEF OnPayload, OnReset, Asks
    <3>2. phase' = "Idle" /\ result' = "Ok" /\ toVehicle' = <<>> /\ missing' = missing
      BY <2>1, <3>1 DEF End, Unread, transfer
    <3> QED BY <1>2, <2>1, <2>2, <3>2 DEF UnderWay
  <2> QED BY <1>3, <2>4, <2>5
<1>4. CASE phase = "Burst"
  <2>1. /\ m.op = "Burst" /\ m.seq = expectedSeq
        /\ m.type = "Data" \/ m.type = "Eof"
    BY <1>0, <1>1, <1>4, CalmBurst
  <2>2. ~Old(m.seq)
    BY <1>0, <2>1, CalmIsNew
  <2>3. OnBurst(m)
    BY <1>1, <1>4, <2>1, <2>2 DEF OnPayload, Asks
  <2>4. CASE m.type = "Data" /\ m.complete
    BY <1>1, <1>4, <2>3, <2>4, LastWriteKeepsCalm
  <2>5. CASE m.type = "Data" /\ ~m.complete
    BY <1>1, <1>4, <2>3, <2>5, WriteKeepsCalm
  <2>6. CASE m.type = "Eof"
    BY <1>1, <1>4, <2>2, <2>3, <2>6, EndKeepsCalm
  <2> QED BY <2>1, <2>4, <2>5, <2>6
<1> QED BY <1>2, <1>3, <1>4 DEF UnderWay

LEMMA CalmContinues ==
  ASSUME Short, IInv, WholeInv, Calm => UnderWay, [Next]_vars, Calm'
  PROVE  UnderWay'
<1>0. Typed
  BY DEF IInv
<1>1. Calm /\ UnderWay
  BY <1>0, CalmBefore
<1>2. phase = "Burst" => InStep
  BY <1>1 DEF WholeInv, Calm
<1>3. ASSUME NEW check \in BOOLEAN, Start(check) PROVE UnderWay'
  BY <1>0, <1>1, <1>3, StartKeepsCalm
<1>4. ~(Cancel \/ Abandon \/ Lose \/ Die)
  BY <1>1 DEF Calm, Cancel, Abandon, MayCancel, Lose, Die
<1>5. ~Timeout
  BY <1>1, TimeoutIsLate DEF Calm
<1>6. CASE StationReceive
  BY <1>1, <1>2, <1>6, StationKeepsCalm
<1>7. CASE ServerReceive
  BY <1>0, <1>1, <1>2, <1>7, ServedKeepsCalm
<1>8. CASE Stream
  BY <1>0, <1>1, <1>2, <1>8, StreamKeepsCalm
<1>9. CASE UNCHANGED vars
  BY <1>1, <1>9 DEF vars, station, transfer, server, UnderWay, Streaming, After
<1> QED BY <1>3, <1>4, <1>5, <1>6, <1>7, <1>8, <1>9 DEF Next

LEMMA InTimeHolds == Distinct /\ Short => (Spec => []InTimeInv)
<1> SUFFICES ASSUME Distinct, Short PROVE Spec => []InTimeInv
  OBVIOUS
<1>1. Spec => []IInv
  BY Holds
<1>2. Init => InTimeInv
  <2>1. SUFFICES ASSUME Init PROVE InTimeInv
    OBVIOUS
  <2>2. /\ phase = "Idle" /\ result = "None" /\ missing = <<>>
        /\ toVehicle = <<>> /\ toStation = <<>> /\ stream = NoStream
    BY <2>1 DEF Init
  <2> QED BY <2>2 DEF InTimeInv, WholeInv, EndsWhole, UnderWay
<1>3. IInv /\ IInv' /\ InTimeInv /\ [Next]_vars => InTimeInv'
  <2>1. SUFFICES ASSUME IInv, IInv', InTimeInv, [Next]_vars PROVE InTimeInv'
    OBVIOUS
  <2>2. WholeInv'
    BY <2>1, WholeContinues DEF InTimeInv
  <2>3. Calm' => UnderWay'
    BY <2>1, CalmContinues DEF InTimeInv
  <2> QED BY <2>2, <2>3 DEF InTimeInv
<1> QED BY <1>1, <1>2, <1>3, PTL DEF Spec

\* A download that ends well has the whole file, also if nobody compares the sizes as long
\* as no answer came after its timer (on_burst then takes the end of the file for what it
\* is by its number alone); and one that nothing disturbed does not fail.
THEOREM DownloadsEndRightly == Distinct /\ Short => (Spec => []EndsRightly)
<1> SUFFICES ASSUME Distinct, Short PROVE Spec => []EndsRightly
  OBVIOUS
<1>1. Spec => []InTimeInv
  BY InTimeHolds
<1>2. Spec => []IInv
  BY Holds
<1>3. IInv /\ InTimeInv => EndsRightly
  <2>1. SUFFICES ASSUME IInv, InTimeInv PROVE EndsRightly
    OBVIOUS
  <2>2. result = "Ok" /\ (checkSize \/ ~late) => got = {file} \X Bytes
    BY <2>1 DEF InTimeInv, WholeInv, EndsWhole, Whole
  <2>3. result = "Failed" => refused \/ late \/ dead \/ faults > 0 \/ cancels > 0
    <3>1. faults \in Nat /\ cancels \in Nat
      BY <2>1 DEF IInv, Typed
    <3>2. result = "Failed" => ~Calm
      BY <2>1 DEF InTimeInv, UnderWay
    <3> QED BY <3>1, <3>2 DEF Calm
  <2> QED BY <2>2, <2>3 DEF EndsRightly
<1> QED BY <1>1, <1>2, <1>3, PTL
=============================================================================
