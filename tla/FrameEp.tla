------------------------------- MODULE FrameEp -------------------------------
(***************************************************************************)
(* The frame sources and sinks of the testbenches, udp_alex/udp/tb/        *)
(* {eth,ip,udp,arp}_ep.py: a frame travels as a header, with a handshake   *)
(* of its own, and a payload over an AXI stream (axis_ep.py).  Source and  *)
(* sink face each other; either pauses at any edge.  One step is one       *)
(* rising edge of clk, or a call of send between two edges.                *)
(*                                                                         *)
(* The processes of one edge share Python lists and run in any order: the  *)
(* payload source may see a frame sent to it on the same edge or not, and  *)
(* so the header process the payload received on the same edge.            *)
(*                                                                         *)
(* A frame is its number; its payload is one or more beats.                *)
(***************************************************************************)
EXTENDS Integers, Sequences

CONSTANTS
  Lens,       \* beats of a payload; the stream source cannot send an empty one
  MaxFrames,  \* bound: frames sent
  MaxResets   \* bound: edges with rst

ASSUME FrameEpAssumption ==
  Lens \subseteq Nat \ {0} /\ MaxFrames \in Nat /\ MaxResets \in Nat

VARIABLES
  layer,             \* the pair of endpoints in use
  queue, header_queue, active, hdr, hdr_valid,
                     \* source: its lists, and the header on the wires
  psource,           \* payload_source: queue, beats left, active, the beat on the wires
  hdr_ready_int, tready_int,
  sink_headers, sink_queue,
                     \* sink: header_queue and the frames received
  psink,             \* payload_sink: beats so far and queue
  len,               \* payload of each frame sent
  mixed,             \* history: a reset parted a header from its payload
  failed,            \* history: an assertion of a sink failed
  frames, resets

epSource == <<queue, header_queue, active, hdr, hdr_valid, psource>>
epSink   == <<hdr_ready_int, tready_int, sink_headers, sink_queue, psink, failed>>
epVars   == <<layer, epSource, epSink, len, mixed, frames, resets>>
-----------------------------------------------------------------------------
Layers == {"eth", "ip", "udp", "arp"}
NoBeat == [frame |-> 0, no |-> 0, last |-> FALSE]
BeatOf(f, i) == [frame |-> f, no |-> i, last |-> i = len[f]]

EpInit ==
  /\ layer \in Layers
  /\ queue = << >> /\ header_queue = << >> /\ active = FALSE
  /\ hdr = 0 /\ hdr_valid = FALSE
  /\ psource = [queue |-> << >>, active |-> FALSE, beat |-> NoBeat, valid |-> FALSE]
  /\ hdr_ready_int = FALSE /\ tready_int = FALSE
  /\ sink_headers = << >> /\ sink_queue = << >>
  /\ psink = [data |-> << >>, queue |-> << >>]
  /\ len = << >> /\ mixed = FALSE /\ failed = FALSE /\ frames = 0 /\ resets = 0
-----------------------------------------------------------------------------
(***************************************************************************)
(* AXIStreamSource and AXIStreamSink.  p is pause at this edge.            *)
(***************************************************************************)
stream_ready(p) == tready_int /\ ~p

(* now is the queue as the process finds it, later what is sent after it.  *)
StreamSource(p, pk, now, later) ==
  LET b      == psource.beat
      moves  == stream_ready(pk) /\ psource.valid
      ends   == moves /\ b.last
      begins == (~psource.active \/ ends) /\ now # << >>
  IN  psource' =
        [queue  |-> (IF begins THEN Tail(now) ELSE now) \o later,
         active |-> (psource.active /\ ~ends) \/ begins,
         beat   |-> IF begins THEN BeatOf(Head(now), 1)
                    ELSE IF moves /\ ~ends THEN BeatOf(b.frame, b.no + 1) ELSE b,
         valid  |-> IF begins \/ (moves /\ ~ends) THEN ~p
                    ELSE ~ends /\ psource.active /\ (psource.valid \/ ~p)]

(* Mutant: the beats of a frame are not cleared at its end.                *)
StreamSinkKept(pk) ==
  IF ~psource.valid \/ pk THEN psink
  ELSE LET data == Append(psink.data, psource.beat)
       IN  [data  |-> data,
            queue |-> IF psource.beat.last THEN Append(psink.queue, data) ELSE psink.queue]

(* The sink takes a beat when tvalid is up and pause is not, whatever its  *)
(* own tready_int says.                                                    *)
StreamSink(pk) ==
  IF ~psource.valid \/ pk THEN psink
  ELSE LET data == Append(psink.data, psource.beat)
       IN  [data  |-> IF psource.beat.last THEN << >> ELSE data,
            queue |-> IF psource.beat.last THEN Append(psink.queue, data) ELSE psink.queue]
-----------------------------------------------------------------------------
(***************************************************************************)
(* The frame endpoints.                                                    *)
(***************************************************************************)
Accepted(pk) == hdr_ready_int /\ ~pk /\ hdr_valid

(* The header from list is put on the wires when the one there was taken.  *)
Header(p, pk, list) ==
  LET begins == (~active \/ Accepted(pk)) /\ list # << >>
  IN  /\ active' = ((active /\ ~Accepted(pk)) \/ begins)
      /\ hdr' = IF begins THEN Head(list) ELSE hdr
      /\ hdr_valid' = IF begins THEN ~p
                      ELSE ~Accepted(pk) /\ active /\ (hdr_valid \/ ~p)

(* list after the edge, as the header process leaves it.                   *)
Rest(pk, list) == IF (~active \/ Accepted(pk)) /\ list # << >> THEN Tail(list) ELSE list

(* UDPFrameSource: a frame moves from queue to header_queue, and its       *)
(* payload to the payload source, when header_queue is free.               *)
FrameSource(p, pk, early) ==
  LET left == Rest(pk, header_queue)
      next == IF queue # << >> /\ left = << >> THEN << Head(queue) >> ELSE << >>
  IN  /\ Header(p, pk, header_queue)
      /\ header_queue' = left \o next
      /\ queue' = IF next = << >> THEN queue ELSE Tail(queue)
      /\ StreamSource(p, pk, psource.queue \o (IF early THEN next ELSE << >>),
                      IF early THEN << >> ELSE next)

(* UDPFrameSink: the first payload received goes with the first header;    *)
(* asserts says whether no payload may be left without a header.           *)
FrameSink(pk, early, asserts) ==
  LET headers  == IF Accepted(pk) THEN Append(sink_headers, hdr) ELSE sink_headers
      stream   == StreamSink(pk)
      payloads == IF early THEN stream.queue ELSE psink.queue
      pairs    == headers # << >> /\ payloads # << >>
  IN  /\ hdr_ready_int' = TRUE /\ tready_int' = TRUE
      /\ sink_headers' = IF pairs THEN Tail(headers) ELSE headers
      /\ psink' = IF pairs THEN [stream EXCEPT !.queue = Tail(@)] ELSE stream
      /\ sink_queue' = IF pairs
                       THEN Append(sink_queue, [header |-> Head(headers), payload |-> Head(payloads)])
                       ELSE sink_queue
      /\ failed' = (failed \/ (asserts /\ pairs /\ Len(headers) = 1 /\ Len(payloads) > 1))

EthSource(p, pk, early) == layer = "eth" /\ FrameSource(p, pk, early)
IpSource(p, pk, early)  == layer = "ip"  /\ FrameSource(p, pk, early)
UdpSource(p, pk, early) == layer = "udp" /\ FrameSource(p, pk, early)

(* EthFrameSink asserts nothing.                                           *)
EthSink(pk, early) == layer = "eth" /\ FrameSink(pk, early, FALSE)
IpSink(pk, early)  == layer = "ip"  /\ FrameSink(pk, early, TRUE)
UdpSink(pk, early) == layer = "udp" /\ FrameSink(pk, early, TRUE)

(* An ARP frame is all header.                                             *)
ArpSource(p, pk) ==
  /\ layer = "arp"
  /\ Header(p, pk, queue) /\ queue' = Rest(pk, queue)
  /\ UNCHANGED <<header_queue, psource>>

ArpSink(pk) ==
  /\ layer = "arp"
  /\ hdr_ready_int' = TRUE
  /\ sink_queue' = IF Accepted(pk)
                   THEN Append(sink_queue, [header |-> hdr, payload |-> << >>]) ELSE sink_queue
  /\ UNCHANGED <<tready_int, sink_headers, psink, failed>>

EpEdge ==
  /\ \E p, pk \in BOOLEAN :
       \/ /\ \E early \in BOOLEAN :
               EthSource(p, pk, early) \/ IpSource(p, pk, early) \/ UdpSource(p, pk, early)
          /\ \E early \in BOOLEAN :
               EthSink(pk, early) \/ IpSink(pk, early) \/ UdpSink(pk, early)
       \/ ArpSource(p, pk) /\ ArpSink(pk)
  /\ UNCHANGED <<layer, len, mixed, frames, resets>>

(* The header and the payload on the wires are of the same frame, and no   *)
(* half of a frame has come through.                                       *)
Together ==
  /\ (IF active THEN hdr ELSE 0) = (IF psource.active THEN psource.beat.frame ELSE 0)
  /\ sink_headers = << >> /\ psink.queue = << >>

(* An edge with rst: what is on the wires is lost, what waits is kept.     *)
EpReset ==
  /\ resets < MaxResets /\ resets' = resets + 1
  /\ active' = FALSE /\ hdr_valid' = FALSE /\ hdr' = hdr
  /\ psource' = [psource EXCEPT !.active = FALSE, !.valid = FALSE]
  /\ hdr_ready_int' = FALSE /\ tready_int' = FALSE
  /\ psink' = [psink EXCEPT !.data = << >>]
  /\ mixed' = (mixed \/ (layer # "arp" /\ ~Together))
  /\ UNCHANGED <<layer, queue, header_queue, sink_headers, sink_queue, len, failed, frames>>

(* send of the testbench, between two edges.                               *)
send ==
  /\ frames < MaxFrames /\ frames' = frames + 1
  /\ \E l \in Lens : len' = Append(len, l)
  /\ IF layer # "arp" /\ header_queue = << >>
     THEN /\ header_queue' = << frames + 1 >> /\ queue' = queue
          /\ psource' = [psource EXCEPT !.queue = Append(@, frames + 1)]
     ELSE queue' = Append(queue, frames + 1) /\ UNCHANGED <<header_queue, psource>>
  /\ UNCHANGED <<layer, active, hdr, hdr_valid, epSink, mixed, resets>>

EpNext == EpEdge \/ EpReset \/ send

EpSpec == EpInit /\ [][EpNext]_epVars
-----------------------------------------------------------------------------
Beats(f) == [i \in 1 .. len[f] |-> BeatOf(f, i)]

(* However either side pauses and however the processes of an edge are     *)
(* ordered, every frame received is a frame sent, header with its own      *)
(* payload, whole and in order, and no assertion of a sink fails, unless a *)
(* reset came between a header and its payload; without a reset none is    *)
(* missing (udp_ep.py:356-362,433-476,605-616, axis_ep.py:335-375).        *)
OwnPayload ==
  ~mixed =>
    /\ ~failed
    /\ \A i \in DOMAIN sink_queue :
         LET f == sink_queue[i]
         IN  /\ f.payload = IF layer = "arp" THEN << >> ELSE Beats(f.header)
             /\ resets = 0 => f.header = i
             /\ i > 1 => sink_queue[i - 1].header < f.header

(* Mutant: a payload under way is forgotten.                               *)
idleHeaders == queue = << >> /\ ~active /\ psource.queue = << >>

(* idle of the source, which wait of the testbench polls.                  *)
idle == IF layer = "arp" THEN queue = << >> /\ ~active
        ELSE queue = << >> /\ ~active /\ psource.queue = << >> /\ ~psource.active

(* When the source says that it is idle, every frame sent is in the sink,  *)
(* header and payload, though perhaps not paired yet: a test that waits    *)
(* for the source loses nothing (udp_ep.py:370-375).                       *)
IdleMeansTaken ==
  resets = 0 /\ idle =>
    /\ Len(sink_queue) + Len(sink_headers) = frames
    /\ layer # "arp" => Len(sink_queue) + Len(psink.queue) = frames
=============================================================================
