--------------------------------- MODULE Framing ---------------------------------
(***************************************************************************)
(* WebSocket frames on one connection, in one direction: what several        *)
(* threads of one side write with ws_send_frame, and what the one reading     *)
(* thread of the other side makes of it.                                     *)
(*   up:   client to relay.  Frames are masked and written under send_mutex_; *)
(*         the relay reads a header with one recv(), which may be short.      *)
(*   down: relay to client.  Frames are not masked, and the threads of several *)
(*         sessions write to one socket without a lock; the client reads       *)
(*         exactly as many bytes as it asks for.                              *)
(*                                                                         *)
(* The stream is a sequence of cells.  A cell is one byte of a header, with   *)
(* its value, or a run of payload bytes, of which only the number matters.    *)
(* send() may take a frame in parts, and the network deliver it in parts;     *)
(* wire is what has arrived and is not yet read.                             *)
(***************************************************************************)
EXTENDS Naturals, Sequences

CONSTANTS
  Threads,     \* the threads that write
  Jobs,        \* for each direction and thread, the frames it writes: [op, len]
  MayBreak     \* the directions in which the writing side may disappear

Dirs == {"up", "down"}
Ops == {"text", "close", "ping", "pong"}

ASSUME FramingAssumption ==
  /\ Jobs \subseteq [Dirs -> [Threads -> Seq([op : Ops, len : Nat])]]
  /\ MayBreak \subseteq Dirs /\ "nobody" \notin Threads

VARIABLES
  dir, jobs,               \* the direction, and what is written in it
  next, out, holder,       \* per thread: the next frame, cells not yet sent; send_mutex_
  wire, eof,               \* what has arrived; whether the writing side is gone
  at, frame, op, masked,   \* reader: place; the frame being read, its opcode, whether masked
  left, whole,             \* payload bytes to come; whether those before the end came in full
  end, got,                \* why the reader has stopped; the frames handled, in order
  sent, mixed              \* history: frames in the order of their first byte; parts of two mixed

writer == <<next, out, holder>>
reader == <<at, frame, op, masked, left, whole, end, got>>
history == <<sent, mixed>>
vars == <<dir, jobs, writer, wire, eof, reader, history>>

Frames == [by : Threads, no : Nat]
NoFrame == [by |-> "nobody", no |-> 0]
JobOf(f) == jobs[f.by][f.no]

\* The reader's places while it reads a part of the header, and how many bytes it wants.
Wanted == [hdr |-> 2, ext2 |-> 2, ext8 |-> 8, mask |-> 4]

TypeOK ==
  /\ next \in [Threads -> Nat \ {0}] /\ holder \in Threads \cup {"nobody"}
  /\ at \in DOMAIN Wanted \cup {"payload", "stopped", "garbled"}
  /\ frame \in Frames \cup {NoFrame} /\ op \in Ops
  /\ left \in Nat /\ {masked, whole, eof, mixed} \subseteq BOOLEAN
  /\ end \in {"", "close", "eof", "cut", "short"}
  /\ \A i \in DOMAIN got : got[i].frame \in Frames
  /\ \A i \in DOMAIN wire : wire[i].byte \in 0..255 /\ wire[i].size > 0
  /\ at = "hdr" => (left = 0 /\ whole)

Init ==
  /\ dir \in Dirs /\ jobs \in {job[dir] : job \in Jobs}
  /\ next = [t \in Threads |-> 1] /\ out = [t \in Threads |-> <<>>] /\ holder = "nobody"
  /\ wire = <<>> /\ eof = FALSE
  /\ at = "hdr" /\ frame = NoFrame /\ op = "text" /\ masked = FALSE
  /\ left = 0 /\ whole = TRUE /\ end = "" /\ got = <<>>
  /\ sent = <<>> /\ mixed = FALSE

-------------------------------------------------------------------------------
(* ws_send_frame of either side: the header, byte for byte, and the payload.  *)

Opcode == [text |-> 1, close |-> 8, ping |-> 9, pong |-> 10]

\* The i-th byte of n, counted from the lowest.
Shifted(n) == LET s[i \in 0..7] == IF i = 0 THEN n ELSE s[i - 1] \div 256 IN s
Byte(n, i) == Shifted(n)[i] % 256
\* A length is a size_t: the eighth byte is the last.
ASSUME LengthAssumption ==
  \A job \in Jobs : \A d \in Dirs, t \in Threads :
    \A i \in DOMAIN job[d][t] : Shifted(job[d][t][i].len)[7] < 256

BigEndian(n, count) == [i \in 1..count |-> Byte(n, count - i)]

\* The length: the lower seven bits of the second byte, and the bytes that extend it.
Length_OffByOne(len) ==
  IF len <= 126 THEN <<len>>
  ELSE IF len <= 65535 THEN <<126>> \o BigEndian(len, 2) ELSE <<127>> \o BigEndian(len, 8)

Length(len) ==
  IF len < 126 THEN <<len>>
  ELSE IF len <= 65535 THEN <<126>> \o BigEndian(len, 2) ELSE <<127>> \o BigEndian(len, 8)

Cells(f, kind, bytes) ==
  [i \in 1..Len(bytes) |-> [of |-> f, kind |-> kind, no |-> i, byte |-> bytes[i], size |-> 1]]

\* A payload is two runs, so that it can be cut in between.
Runs(f, len) ==
  LET run(i, size) == [of |-> f, kind |-> "load", no |-> i, byte |-> 0, size |-> size]
  IN IF len = 0 THEN <<>>
     ELSE IF len = 1 THEN <<run(1, 1)>> ELSE <<run(1, 1), run(2, len - 1)>>

Masking == IF dir = "up" THEN 128 ELSE 0

Encode(f) ==
  LET len == JobOf(f).len IN
  Cells(f, "hdr", <<128 + Opcode[JobOf(f).op], Masking + Length(len)[1]>>)
    \o Cells(f, "ext", Tail(Length(len)))
    \o (IF dir = "up" THEN Cells(f, "mask", <<0, 0, 0, 0>>) ELSE <<>>)
    \o Runs(f, len)

\* The client holds send_mutex_ from here to the end of the frame; the relay has none.
Locked_Never == FALSE
Locked == dir = "up"

Begin(t) ==
  /\ ~eof /\ out[t] = <<>> /\ next[t] <= Len(jobs[t])
  /\ Locked => holder = "nobody"
  /\ out' = [out EXCEPT ![t] = Encode([by |-> t, no |-> next[t]])]
  /\ next' = [next EXCEPT ![t] = @ + 1] /\ holder' = IF Locked THEN t ELSE holder
  /\ UNCHANGED <<dir, jobs, wire, eof, reader, history>>

\* Of its frame, a thread has sent nothing yet; a part.
Current(t) == [by |-> t, no |-> next[t] - 1]
Fresh(t) == Len(out[t]) = Len(Encode(Current(t)))
Halfway(t) == out[t] # <<>> /\ ~Fresh(t)

\* The first n cells of what is left of the frame arrive.
WritePart(t, n) ==
  /\ ~eof /\ n \in DOMAIN out[t]
  /\ wire' = wire \o SubSeq(out[t], 1, n)
  /\ out' = [out EXCEPT ![t] = SubSeq(@, n + 1, Len(@))]
  /\ holder' = IF n = Len(out[t]) /\ holder = t THEN "nobody" ELSE holder
  /\ sent' = IF Fresh(t) THEN Append(sent, Current(t)) ELSE sent
  /\ mixed' = (mixed \/ \E other \in Threads \ {t} : Halfway(other))
  /\ UNCHANGED <<dir, jobs, next, eof, reader>>

\* The writing side closes the connection, or ends, perhaps within a frame.
Break ==
  /\ ~eof /\ dir \in MayBreak /\ eof' = TRUE
  /\ UNCHANGED <<dir, jobs, writer, wire, reader, history>>

-------------------------------------------------------------------------------
(* ws_read_loop of the relay, recv_loop of the client.                        *)

KindAt == [hdr |-> "hdr", ext2 |-> "ext", ext8 |-> "ext", mask |-> "mask"]

\* The cells are the part of a frame the reader takes them for.
Aligned(cells) ==
  \A i \in DOMAIN cells :
    /\ cells[i].kind = KindAt[at] /\ cells[i].no = i
    /\ cells[i].of = (IF at = "hdr" THEN cells[1].of ELSE frame)

Value(cells) ==
  LET v[i \in 0..Len(cells)] == IF i = 0 THEN 0 ELSE v[i - 1] * 256 + cells[i].byte
  IN v[Len(cells)]

OpOf(byte) == CHOOSE o \in Ops : Opcode[o] = byte % 16

\* What the reader makes of a whole part of the header.
AfterLength == IF masked' THEN "mask" ELSE "payload"
Decode(cells) ==
  /\ frame' = cells[1].of
  /\ IF at = "hdr" THEN op' = OpOf(cells[1].byte) /\ masked' = (cells[2].byte >= 128)
     ELSE UNCHANGED <<op, masked>>
  /\ \/ /\ at = "hdr" /\ cells[2].byte % 128 < 126
        /\ left' = cells[2].byte % 128 /\ at' = AfterLength
     \/ /\ at = "hdr" /\ cells[2].byte % 128 >= 126
        /\ at' = (IF cells[2].byte % 128 = 126 THEN "ext2" ELSE "ext8") /\ UNCHANGED left
     \/ at \in {"ext2", "ext8"} /\ left' = Value(cells) /\ at' = AfterLength
     \/ at = "mask" /\ at' = "payload" /\ UNCHANGED left
  /\ UNCHANGED <<whole, end, got>>

\* Bytes that are no such part have any meaning from here on.
Garble == at' = "garbled" /\ UNCHANGED <<frame, op, masked, left, whole, end, got>>
Stop(why) == at' = "stopped" /\ end' = why /\ UNCHANGED <<frame, op, masked, left, whole, got>>

\* What of a wanted part is there.
There == SubSeq(wire, 1, IF Len(wire) < Wanted[at] THEN Len(wire) ELSE Wanted[at])
Rest(n) == SubSeq(wire, n + 1, Len(wire))

ReadHeader ==
  /\ at \in DOMAIN Wanted /\ wire # <<>> /\ (Len(wire) >= Wanted[at] \/ ~Aligned(There))
  /\ IF Aligned(There) THEN Decode(There) /\ wire' = Rest(Wanted[at])
     ELSE Garble /\ UNCHANGED wire
  /\ UNCHANGED <<dir, jobs, writer, eof, history>>

\* The relay takes what recv() returns; if that is less than it asked for, it gives up.
Exact_Never == FALSE
Exact == dir = "down"

ShortRead ==
  /\ at \in DOMAIN Wanted /\ ~Exact /\ Len(wire) \in 1..Wanted[at] - 1 /\ Aligned(There)
  /\ Stop("short") /\ wire' = <<>>
  /\ UNCHANGED <<dir, jobs, writer, eof, history>>

\* The stream ends before a frame (the client then reports the loss), or in its header
\* after the first two bytes.
HeaderEnds ==
  /\ at \in DOMAIN Wanted /\ eof /\ Len(wire) < Wanted[at] /\ Aligned(There)
  /\ wire = <<>> \/ Exact
  /\ Stop(IF at = "hdr" THEN "eof" ELSE "cut")
  /\ UNCHANGED <<dir, jobs, writer, wire, eof, history>>

\* The payload is read in chunks of up to 4096 bytes, until it is complete.
ReadPayload ==
  /\ at = "payload" /\ left > 0 /\ wire # <<>>
  /\ LET run == Head(wire) IN
     IF run.kind = "load" /\ run.of = frame /\ run.size <= left
       THEN /\ left' = left - run.size /\ wire' = Tail(wire)
            /\ UNCHANGED <<at, frame, op, masked, whole, end, got>>
       ELSE Garble /\ UNCHANGED wire
  /\ UNCHANGED <<dir, jobs, writer, eof, history>>

\* The stream ends within the payload: the rest of the message is filled, with zeros by the
\* client and with the mask by the relay.
PayloadEnds_Gap ==
  /\ at = "payload" /\ left > 0 /\ whole /\ wire = <<>>
  /\ whole' = FALSE
  /\ UNCHANGED <<dir, jobs, writer, wire, eof, at, frame, op, masked, left, end, got, history>>

PayloadEnds ==
  /\ at = "payload" /\ left > 0 /\ whole /\ wire = <<>> /\ eof
  /\ whole' = FALSE
  /\ UNCHANGED <<dir, jobs, writer, wire, eof, at, frame, op, masked, left, end, got, history>>

\* The frame is handled, even so: a text is delivered, a close frame or ping answered.
Handled == got' = Append(got, [frame |-> frame, whole |-> whole])
Handle_Filled ==
  /\ at = "payload" /\ ((left = 0 /\ JobOf(frame).len > 0) \/ ~whole) /\ Handled
  /\ IF op = "close" THEN at' = "stopped" /\ end' = "close" ELSE at' = "hdr" /\ UNCHANGED end
  /\ frame' = NoFrame /\ op' = "text" /\ masked' = FALSE /\ left' = 0 /\ whole' = TRUE
  /\ UNCHANGED <<dir, jobs, writer, wire, eof, history>>

Handle_LeftOver ==
  /\ at = "payload" /\ (left = 0 \/ ~whole) /\ Handled
  /\ IF op = "close" THEN at' = "stopped" /\ end' = "close" ELSE at' = "hdr" /\ UNCHANGED end
  /\ frame' = NoFrame /\ op' = "text" /\ masked' = FALSE /\ UNCHANGED <<left, whole>>
  /\ UNCHANGED <<dir, jobs, writer, wire, eof, history>>

Handle ==
  /\ at = "payload" /\ (left = 0 \/ ~whole) /\ Handled
  /\ IF op = "close" THEN at' = "stopped" /\ end' = "close" ELSE at' = "hdr" /\ UNCHANGED end
  /\ frame' = NoFrame /\ op' = "text" /\ masked' = FALSE /\ left' = 0 /\ whole' = TRUE
  /\ UNCHANGED <<dir, jobs, writer, wire, eof, history>>

Write(t) == Begin(t) \/ \E n \in DOMAIN out[t] : WritePart(t, n)
Read == ReadHeader \/ ShortRead \/ HeaderEnds \/ ReadPayload \/ PayloadEnds \/ Handle

Next == (\E t \in Threads : Write(t)) \/ Break \/ Read

Spec == Init /\ [][Next]_vars

\* Threads write on, and the reader reads on.
FairSpec == Spec /\ WF_vars(Read) /\ \A t \in Threads : WF_vars(Write(t))

-------------------------------------------------------------------------------
(* Properties.                                                               *)

\* Both sides agree where a frame, its length and its payload begin and end, for every
\* length.  Only the client can lose its place, and only when send() has taken a frame
\* of one of the relay's threads in parts and another thread wrote in between
\* (client_session.cpp:61-69, 186-207; ws_client.cpp:266-297).
Framed == at = "garbled" => (dir = "down" /\ mixed)

\* As long as the reader has not lost its place, what it has handled is what was sent, in
\* that order, each frame once and in full, but for a last one within which the stream ended.
InOrder ==
  at # "garbled" =>
    /\ Len(got) <= Len(sent) /\ \A i \in DOMAIN got : got[i].frame = sent[i]
    /\ \A i \in DOMAIN got : got[i].whole \/ (eof /\ wire = <<>> /\ i = Len(got))

\* The reader stops for a close frame or for the end of the stream, however the network
\* cuts the stream ("poll() timeouts are NOT disconnects", ws_client.cpp:239); the relay
\* also for a header that arrives in parts (client_session.cpp:136-157).
StopsForReason ==
  at = "stopped" => (end = "close" \/ eof \/ (dir = "up" /\ end = "short"))

\* What is written completely is handled in the end, frames without payload included,
\* unless the reader stops or loses its place.
Complete == \A t \in Threads : next[t] > Len(jobs[t]) /\ out[t] = <<>>
AllHandled == Complete ~> (Len(got) = Len(sent) \/ at \in {"stopped", "garbled"})
===============================================================================
