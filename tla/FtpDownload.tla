---------------------------- MODULE FtpDownload -----------------------------
(***************************************************************************)
(* Downloads over MAVLink FTP (Download of ftp.rs, one after another as in *)
(* the fetches and file jobs of hub.rs, with the sequence number they hand *)
(* on and their timer) and the vehicle's file server, which is not under   *)
(* src/.  A file is first streamed in bursts; the gaps that lost packets   *)
(* leave are then read one by one.                                         *)
(*                                                                         *)
(* A byte is its file and its offset.  Messages cross two FIFO channels    *)
(* that delay them, past the timer too, or lose them; a vehicle heard over *)
(* two links is heard twice.                                               *)
(***************************************************************************)
EXTENDS Integers, Sequences, FiniteSets

CONSTANTS
  Size,         \* bytes of a file
  DataLen,      \* DATA_LEN: bytes of a message
  MaxRetry,     \* MAX_RETRY
  SeqMod,       \* 2^16: sequence numbers wrap
  FirstSeq,     \* bound of the model: the number reached by what was fetched before
  MaxDownloads, \* bound of the model: files fetched, each once
  MaxFaults,    \* bound of the model: outages that pass and repeated messages
  MaxCancels,   \* bound of the model: downloads cancelled or abandoned
  Capacity      \* bound of the model: messages in flight per direction

ASSUME ConstantsAssumption ==
  /\ Size \in Nat /\ DataLen \in Nat \ {0}
  /\ MaxRetry \in Nat /\ SeqMod \in Nat \ {0} /\ FirstSeq \in 0 .. SeqMod - 1
  /\ Capacity \in Nat \ {0}
  /\ MaxDownloads \in Nat /\ MaxFaults \in Nat /\ MaxCancels \in Nat

VARIABLES
  file,           \* the file being fetched or fetched last, 0 before the first
  checkSize,      \* Download.check_size
  phase,          \* Download.phase
  expectedSeq,    \* Download.expected_seq, and Vehicle.ftp_seq in between
  expectedOffset, \* Download.expected_offset
  written,        \* Download.written
  got,            \* Download.file: the bytes written
  missing,        \* Download.missing
  retries,        \* Download.retries
  due,            \* Vehicle.ftp_due is set: the timer runs
  result,         \* how the last download ended
  opened,         \* the file the server has open, 0 for none
  stream,         \* the burst the server is sending: the next packet
  toVehicle, toStation, \* in flight
  faults, cancels, \* so far
  dead,           \* the link is gone for good
  late,           \* history: a timer has fired for an answer that was yet to come
  refused         \* history: the server has refused a request

transfer == <<expectedOffset, written, got, missing>>
station == <<file, checkSize, phase, expectedSeq, transfer, retries, due, result>>
server == <<opened, stream>>
vars == <<station, server, toVehicle, toStation, faults, cancels, dead, late, refused>>

Phases == {"Idle", "Open", "Burst", "Fill", "Reset", "Terminate"}
Bytes == 0 .. Size - 1
NoStream == <<>>
Least(m, n) == IF m < n THEN m ELSE n
Forward(seq, n) == (seq + n) % SeqMod

\* on_payload drops what is behind the sequence number expected.
OldOrExpected(seq) == (expectedSeq - seq) % SeqMod < (SeqMod - 1) \div 2 \* fault: off by one
Old(seq) == (expectedSeq - 1 - seq) % SeqMod < (SeqMod - 1) \div 2

-----------------------------------------------------------------------------
(* What the station sends, and how a download ends.                        *)

\* send, from the expected_seq in base: a request takes one number, its answer the next.
Send(base, request) ==
  /\ expectedSeq' = Forward(base, 2)
  /\ toVehicle' =
       IF dead \/ Len(toVehicle) = Capacity THEN toVehicle
       ELSE Append(toVehicle, [seq |-> Forward(base, 1), request |-> request])

Ask(base, request) == Send(base, request) /\ due' = TRUE

\* The base that asks again under the number used last.
Again == Forward(expectedSeq, -2)

Asks(p) == CASE p = "Fill" -> "Read" [] OTHER -> p

Continue(next) == phase' = next /\ UNCHANGED result
End(outcome) ==
  /\ phase' = "Idle" /\ due' = FALSE /\ result' = outcome
  /\ UNCHANGED <<expectedSeq, toVehicle>>

Burst(base, offset) ==
  Continue("Burst") /\ Ask(base, [op |-> "Burst", offset |-> offset])

Reset(base) == Continue("Reset") /\ Ask(base, [op |-> "Reset"])

\* As much of a gap as a message holds.
ReadOf(gap) ==
  [op |-> "Read", offset |-> gap.offset,
   count |-> Least(gap.bytes, DataLen)]

ReadGap(base, gap) ==
  Continue("Fill") /\ expectedOffset' = gap.offset /\ Ask(base, ReadOf(gap))

\* fill, with the gaps left and the bytes written so far.
FillUnchecked(base, gaps, count) == \* fault: the bytes are not counted
  IF gaps # <<>> THEN ReadGap(base, gaps[1])
  ELSE UNCHANGED expectedOffset /\ Reset(base)
Fill(base, gaps, count) ==
  IF gaps # <<>> THEN ReadGap(base, gaps[1])
  ELSE
    /\ UNCHANGED expectedOffset
    /\ IF ~checkSize \/ count = Size THEN Reset(base) ELSE End("Failed")

Start(check) ==
  /\ phase = "Idle" /\ file < MaxDownloads
  /\ file' = file + 1 /\ checkSize' = check
  /\ phase' = "Open" /\ result' = "None"
  /\ expectedOffset' = 0 /\ written' = 0 /\ got' = {} /\ missing' = <<>> /\ retries' = 0
  /\ Ask(expectedSeq, [op |-> "Open", file |-> file + 1])
  /\ UNCHANGED <<server, toStation, faults, cancels, dead, late, refused>>

\* cancel has an effect once the size is known, and is not 0.
Cancellable == phase \notin {"Idle", "Open"} /\ Size # 0

MayCancel ==
  /\ cancels < MaxCancels /\ cancels' = cancels + 1
  /\ UNCHANGED <<file, checkSize, transfer, server, toStation, faults, dead, late, refused>>

\* cancel, of a file job: the download ends when the session has ended.
Cancel ==
  /\ Cancellable /\ MayCancel
  /\ Continue("Terminate") /\ retries' = 0
  /\ Ask(expectedSeq, [op |-> "Terminate"])

\* pump, of metadata that comes too slowly: cancelled, and dropped at once.
Abandon ==
  /\ phase # "Idle" /\ MayCancel
  /\ phase' = "Idle" /\ due' = FALSE /\ result' = "Failed"
  /\ IF Cancellable THEN Send(expectedSeq, [op |-> "Terminate"])
     ELSE UNCHANGED <<expectedSeq, toVehicle>>
  /\ UNCHANGED retries

MayRetryOnceMore == retries <= MaxRetry \* fault: off by one
MayRetry == retries < MaxRetry
UncountedRetry == UNCHANGED retries \* fault: retries are not counted
CountedRetry == retries' = retries + 1

\* on_timeout
Timeout ==
  /\ due
  /\ late' = (late \/ toVehicle # <<>> \/ toStation # <<>> \/ stream # NoStream)
  /\ \/ phase = "Open" /\ End("Failed") /\ UNCHANGED retries
     \/ phase = "Reset" /\ End("Ok") /\ UNCHANGED retries
     \/ /\ phase \in {"Burst", "Fill", "Terminate"}
        /\ CountedRetry
        /\ \/ ~MayRetry /\ End("Failed")
           \/ /\ MayRetry
              /\ \/ phase = "Burst" /\ Burst(Again, expectedOffset)
                 \/ phase = "Fill" /\ Ask(Again, ReadOf(missing[1])) /\ Continue("Fill")
                 \/ /\ phase = "Terminate" /\ Continue("Terminate")
                    /\ Ask(Again, [op |-> "Terminate"])
  /\ UNCHANGED <<file, checkSize, transfer, server, toStation, faults, cancels, dead, refused>>

-----------------------------------------------------------------------------
(* Answers.  What does not fit the phase is ignored.                       *)

Ignored == UNCHANGED <<station, toVehicle>>
Unread == UNCHANGED <<file, checkSize, transfer>>

OnOpen(m) ==
  \/ m.seq # expectedSeq /\ Ignored
  \/ /\ m.seq = expectedSeq /\ m.type = "Ack"
     /\ retries' = 0
     /\ Burst(expectedSeq, 0)
     /\ Unread
  \/ /\ m.seq = expectedSeq /\ m.type \in {"Nak", "Eof"}
     /\ End("Failed")
     /\ UNCHANGED retries /\ Unread

WithinFile(m) == m.offset + m.count <= Size
BytesOf(m) == {<<m.file, m.offset + n>> : n \in 0 .. m.count - 1}

\* write_at
Written(m) == got' = got \cup BytesOf(m) /\ written' = written + m.count

GapUnnoticed(m) == UNCHANGED missing \* fault: lost packets are not noticed
GapBefore(m) ==
  missing' = IF m.offset > expectedOffset
             THEN Append(missing, [offset |-> expectedOffset,
                                   bytes |-> m.offset - expectedOffset])
             ELSE missing

OnBurstData(m) ==
  \/ ~WithinFile(m) /\ End("Failed") /\ UNCHANGED retries /\ Unread
  \/ /\ WithinFile(m) /\ m.offset < expectedOffset
     /\ due' = TRUE
     /\ UNCHANGED <<phase, expectedSeq, retries, result, toVehicle>> /\ Unread
  \/ /\ WithinFile(m) /\ m.offset >= expectedOffset
     /\ GapBefore(m)
     /\ Written(m)
     /\ expectedOffset' = m.offset + m.count
     /\ IF m.complete
        THEN retries' = 0 /\ Burst(m.seq, m.offset + m.count)
        ELSE /\ expectedSeq' = Forward(m.seq, 1) /\ due' = TRUE
             /\ UNCHANGED <<phase, retries, result, toVehicle>>
     /\ UNCHANGED <<file, checkSize>>

\* The end of the file, after all that was sent or after packets that were lost.
OnBurstEnd(m) ==
  \/ /\ m.seq # expectedSeq
     /\ retries' = 0
     /\ Burst(m.seq, expectedOffset)
     /\ Unread
  \/ /\ m.seq = expectedSeq
     /\ retries' = IF missing = <<>> THEN retries ELSE 0
     /\ Fill(expectedSeq, missing, written)
     /\ UNCHANGED <<file, checkSize, written, got, missing>>

OnBurst(m) ==
  \/ m.type = "Data" /\ OnBurstData(m)
  \/ m.type = "Eof" /\ OnBurstEnd(m)
  \/ m.type = "Nak" /\ End("Failed") /\ UNCHANGED retries /\ Unread

\* What is left of the gaps once the first has n bytes less.
Shrunk(n) ==
  IF n < missing[1].bytes
  THEN [missing EXCEPT ![1] = [offset |-> @.offset + n, bytes |-> @.bytes - n]]
  ELSE Tail(missing)

OnFillData(m) ==
  \/ /\ m.offset # expectedOffset
     /\ CountedRetry
     /\ IF MayRetry THEN Continue("Fill") /\ Ask(Again, ReadOf(missing[1]))
        ELSE End("Failed")
     /\ Unread
  \/ /\ m.offset = expectedOffset /\ ~WithinFile(m)
     /\ End("Failed") /\ UNCHANGED retries /\ Unread
  \/ /\ m.offset = expectedOffset /\ WithinFile(m)
     /\ Written(m)
     /\ missing' = Shrunk(m.count)
     /\ retries' = IF Shrunk(m.count) = <<>> THEN retries ELSE 0
     /\ Fill(expectedSeq, Shrunk(m.count), written + m.count)
     /\ UNCHANGED <<file, checkSize>>

OnFill(m) ==
  \/ m.seq # expectedSeq /\ Ignored
  \/ m.seq = expectedSeq /\ m.type = "Data" /\ OnFillData(m)
  \/ /\ m.seq = expectedSeq /\ m.type \in {"Nak", "Eof"}
     /\ IF m.type = "Eof" /\ (~checkSize \/ written = Size)
        THEN Reset(expectedSeq) ELSE End("Failed")
     /\ UNCHANGED retries /\ Unread

OnReset(m) ==
  \/ m.seq # expectedSeq /\ Ignored
  \/ m.seq = expectedSeq /\ End("Ok") /\ UNCHANGED retries /\ Unread

OnTerminate(m) ==
  \/ m.seq # expectedSeq /\ Ignored
  \/ m.seq = expectedSeq /\ End("Failed") /\ UNCHANGED retries /\ Unread

\* on_payload; an answer to another kind of request than the phase waits for is ignored.
OnPayload(m) ==
  IF phase = "Idle" \/ Old(m.seq) \/ m.op # Asks(phase) THEN Ignored
  ELSE \/ phase = "Open" /\ OnOpen(m)
       \/ phase = "Burst" /\ OnBurst(m)
       \/ phase = "Fill" /\ OnFill(m)
       \/ phase = "Reset" /\ OnReset(m)
       \/ phase = "Terminate" /\ OnTerminate(m)

\* What was delivered is gone, or comes once more over another link.
DeliveredOnceMore ==
  \/ toStation' = Tail(toStation) /\ UNCHANGED faults
  \/ faults < MaxFaults /\ faults' = faults + 1 /\ UNCHANGED toStation

StationReceive ==
  /\ toStation # <<>>
  /\ OnPayload(Head(toStation))
  /\ DeliveredOnceMore
  /\ UNCHANGED <<server, cancels, dead, late, refused>>

-----------------------------------------------------------------------------
(* The server.  It has one session, answers each request under the next    *)
(* sequence number, and may refuse any.                                    *)

Room == ~dead /\ Len(toStation) < Capacity
Reply(type, op, seq) ==
  toStation' = Append(toStation, [type |-> type, op |-> op, seq |-> seq])
Data(op, seq, offset, count, complete) ==
  toStation' = Append(toStation, [type |-> "Data", op |-> op, seq |-> seq, file |-> opened,
                                  offset |-> offset, count |-> count, complete |-> complete])

Refuse(op, seq) == op # "Reset" /\ refused' = TRUE /\ UNCHANGED server /\ Reply("Nak", op, seq)

Answer(op, request, seq) ==
  \/ op = "Open" /\ opened' = request.file /\ stream' = NoStream /\ Reply("Ack", op, seq)
  \/ op \in {"Reset", "Terminate"} /\ opened' = 0 /\ stream' = NoStream /\ Reply("Ack", op, seq)
  \/ /\ op = "Burst" /\ opened # 0
     /\ stream' = [seq |-> seq, offset |-> request.offset]
     /\ UNCHANGED <<opened, toStation>>
  \/ /\ op = "Read" /\ opened # 0
     /\ UNCHANGED server
     /\ \/ request.offset >= Size /\ Reply("Eof", op, seq)
        \/ /\ request.offset < Size
           /\ Data(op, seq, request.offset, Least(request.count, Size - request.offset), FALSE)

ServerReceive ==
  /\ toVehicle # <<>> /\ Room
  /\ LET m == Head(toVehicle)  seq == Forward(m.seq, 1) IN
       \/ Refuse(m.request.op, seq)
       \/ Answer(m.request.op, m.request, seq) /\ UNCHANGED refused
  /\ toVehicle' = Tail(toVehicle)
  /\ UNCHANGED <<station, faults, cancels, dead, late>>

\* The next packet of a burst, full but for the last of the file, or the end.
Stream ==
  /\ stream # NoStream /\ Room
  /\ \/ /\ stream.offset >= Size
        /\ Reply("Eof", "Burst", stream.seq)
        /\ stream' = NoStream
     \/ /\ stream.offset < Size
        /\ LET n == Least(DataLen, Size - stream.offset) IN
             \E complete \in BOOLEAN :
               /\ Data("Burst", stream.seq, stream.offset, n, complete)
               /\ stream' = IF complete THEN NoStream
                            ELSE [seq |-> Forward(stream.seq, 1), offset |-> stream.offset + n]
  /\ UNCHANGED <<station, opened, toVehicle, faults, cancels, dead, late, refused>>

\* The link is out for a while.
Lose ==
  /\ faults < MaxFaults /\ faults' = faults + 1
  /\ \/ \E n \in DOMAIN toVehicle :
          toVehicle' = SubSeq(toVehicle, n + 1, Len(toVehicle)) /\ UNCHANGED toStation
     \/ \E n \in DOMAIN toStation :
          toStation' = SubSeq(toStation, n + 1, Len(toStation)) /\ UNCHANGED toVehicle
  /\ UNCHANGED <<station, server, cancels, dead, late, refused>>

\* The link is out for good.
Die ==
  /\ ~dead /\ dead' = TRUE
  /\ toVehicle' = <<>> /\ toStation' = <<>>
  /\ UNCHANGED <<station, server, faults, cancels, late, refused>>

-----------------------------------------------------------------------------
Init ==
  /\ file = 0 /\ checkSize = FALSE /\ phase = "Idle" /\ expectedSeq = FirstSeq
  /\ expectedOffset = 0 /\ written = 0 /\ got = {} /\ missing = <<>>
  /\ retries = 0 /\ due = FALSE /\ result = "None"
  /\ opened = 0 /\ stream = NoStream
  /\ toVehicle = <<>> /\ toStation = <<>> /\ faults = 0 /\ cancels = 0
  /\ dead = FALSE /\ late = FALSE /\ refused = FALSE

Next ==
  \/ \E check \in BOOLEAN : Start(check)
  \/ Cancel \/ Abandon \/ Timeout \/ StationReceive
  \/ ServerReceive \/ Stream \/ Lose \/ Die

Spec == Init /\ [][Next]_vars

\* The pump runs on every tick, so a timer that stays due is handled; station and server
\* read what arrives, and a server sends the burst it began.
Fairness ==
  WF_vars(Timeout) /\ WF_vars(StationReceive) /\ WF_vars(ServerReceive) /\ WF_vars(Stream)

FairSpec == Spec /\ Fairness

-----------------------------------------------------------------------------
(* Properties.                                                             *)

Offsets == {byte[2] : byte \in got}
Gap(i) == missing[i].offset .. missing[i].offset + missing[i].bytes - 1
Gaps == UNION {Gap(i) : i \in DOMAIN missing}

\* Every variable keeps its type, retries stop at one past MAX_RETRY, and what is asked
\* for or expected lies in the file.
TypeOK ==
  /\ file \in 0 .. MaxDownloads /\ checkSize \in BOOLEAN /\ phase \in Phases
  /\ expectedSeq \in 0 .. SeqMod - 1 /\ expectedOffset \in 0 .. Size
  /\ written \in 0 .. Size /\ got \subseteq (1 .. MaxDownloads) \X Bytes
  /\ missing \in Seq([offset : Bytes, bytes : 1 .. Size])
  /\ retries \in 0 .. MaxRetry + 1 /\ due \in BOOLEAN
  /\ result \in {"None", "Ok", "Failed"}
  /\ opened \in 0 .. MaxDownloads
  /\ stream = NoStream \/ stream \in [seq : 0 .. SeqMod - 1, offset : 0 .. Size]

\* The bytes read, and the gaps still to be read, are what the bursts have passed, each
\* once: none is lost, read twice or counted twice, whatever is lost, late or repeated;
\* and while gaps are filled there is one (on_fill takes the first without looking).
BytesAccounted ==
  /\ written = Cardinality(got)
  /\ Offsets \cap Gaps = {}
  /\ \A i, j \in DOMAIN missing : i # j => Gap(i) \cap Gap(j) = {}
  /\ \E n \in 0 .. Size : Offsets \cup Gaps = 0 .. n - 1
  /\ phase = "Burst" => Offsets \cup Gaps = 0 .. expectedOffset - 1
  /\ phase = "Fill" => missing # <<>> /\ expectedOffset = missing[1].offset

\* A download that ends well has the whole file and nothing of another, also if nobody
\* compares the sizes as long as no answer came after its timer: then the bursts and
\* their end are told apart by sequence numbers alone.  And one that nobody cancelled,
\* whose requests were not refused and whose messages were neither lost, repeated nor
\* late does not fail, also when the sequence numbers wrap.
EndsRightly ==
  /\ result = "Ok" /\ (checkSize \/ ~late) => got = {file} \X Bytes
  /\ result = "Failed" => refused \/ late \/ dead \/ faults > 0 \/ cancels > 0

\* Every download ends: each phase retries or gives up, and cancelled ones end too.
DownloadsEnd == (phase # "Idle") ~> (phase = "Idle")
=============================================================================
