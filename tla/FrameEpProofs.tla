--------------------------- MODULE FrameEpProofs -----------------------------
(***************************************************************************)
(* The end points never swap or cut headers and payloads, for every layer, *)
(* every length and number of frames, every pause and every order of the   *)
(* processes on an edge, as long as no reset comes between a header and    *)
(* its payload; and without a reset a source that is idle has handed over  *)
(* everything.                                                             *)
(***************************************************************************)
EXTENDS FrameEp, SequenceTheorems, TLAPS

Beat == [frame : Nat, no : Nat, last : BOOLEAN]

(* The types of the end points, and that a reset is needed to mix.         *)
EpTypeOK ==
  /\ layer \in Layers
  /\ active \in BOOLEAN /\ hdr_valid \in BOOLEAN
  /\ psource \in [queue : Seq(Nat), active : BOOLEAN, beat : Beat, valid : BOOLEAN]
  /\ hdr_ready_int \in BOOLEAN /\ tready_int \in BOOLEAN
  /\ psink \in [data : Seq(Beat), queue : Seq(Seq(Beat))]
  /\ len \in Seq(Nat \ {0}) /\ Len(len) = frames /\ frames \in Nat /\ resets \in Nat
  /\ mixed \in BOOLEAN /\ failed \in BOOLEAN
  /\ resets = 0 => ~mixed

(* s is the numbers from a + 1 to b.                                       *)
Numbers(s, a, b) ==
  /\ s \in Seq(Nat) /\ Len(s) = b - a
  /\ \A i \in 1 .. Len(s) : s[i] = a + i

(* The first number of a run is taken.                                     *)
LEMMA NumbersTail ==
  ASSUME NEW s, NEW a \in Nat, NEW b \in Nat, Numbers(s, a, b), s # << >>
  PROVE  /\ Head(s) = a + 1 /\ Numbers(Tail(s), a + 1, b) /\ a + 1 \in Nat /\ a + 1 <= b
<1>1. s \in Seq(Nat) /\ Len(s) = b - a /\ Len(s) \in Nat /\ Len(s) # 0
  BY DEF Numbers
<1>2. Tail(s) \in Seq(Nat) /\ Len(Tail(s)) = Len(s) - 1
      /\ \A i \in 1 .. Len(Tail(s)) : Tail(s)[i] = s[i + 1]
  BY <1>1
<1>3. \A i \in 1 .. Len(s) : s[i] = a + i
  BY DEF Numbers
<1>4. Head(s) = s[1]
  BY <1>1
<1>5. \A i \in 1 .. Len(Tail(s)) : Tail(s)[i] = (a + 1) + i
  BY <1>1, <1>2, <1>3
<1>6. Len(Tail(s)) = b - (a + 1)
  BY <1>1, <1>2
<1>7. Head(s) = a + 1 /\ a + 1 <= b
  BY <1>1, <1>3, <1>4
<1> QED BY <1>2, <1>5, <1>6, <1>7 DEF Numbers

(* The next number is added to a run.                                      *)
LEMMA NumbersAppend ==
  ASSUME NEW s, NEW a \in Nat, NEW b \in Nat, Numbers(s, a, b)
  PROVE  Numbers(Append(s, b + 1), a, b + 1) /\ b + 1 \in Nat
<1>1. s \in Seq(Nat) /\ Len(s) = b - a /\ Len(s) \in Nat
  BY DEF Numbers
<1>2. \A i \in 1 .. Len(s) : s[i] = a + i
  BY DEF Numbers
<1>3. Append(s, b + 1) \in Seq(Nat) /\ Len(Append(s, b + 1)) = Len(s) + 1
      /\ \A i \in 1 .. Len(s) + 1 : Append(s, b + 1)[i] = IF i <= Len(s) THEN s[i] ELSE b + 1
  BY <1>1
<1> DEFINE t == Append(s, b + 1)
<1> HIDE DEF t
<1>4. \A i \in 1 .. Len(t) : t[i] = a + i
  BY <1>1, <1>2, <1>3 DEF t
<1>5. Len(t) = (b + 1) - a
  BY <1>1, <1>3 DEF t
<1>6. t \in Seq(Nat)
  BY <1>3 DEF t
<1>7. Numbers(t, a, b + 1)
  BY <1>4, <1>5, <1>6 DEF Numbers
<1> QED BY <1>7 DEF t

(* A run that has nothing in it.                                           *)
LEMMA NumbersEmpty ==
  ASSUME NEW s, NEW a \in Nat, NEW b \in Nat, Numbers(s, a, b)
  PROVE  (s = << >> <=> a = b) /\ a <= b
<1>1. s \in Seq(Nat) /\ Len(s) = b - a /\ Len(s) \in Nat
  BY DEF Numbers
<1>2. s = << >> <=> Len(s) = 0
  BY <1>1, EmptySeq
<1> QED BY <1>1, <1>2

(* The empty run, and the run of one number.                               *)
LEMMA NumbersFew ==
  ASSUME NEW a \in Nat
  PROVE  Numbers(<< >>, a, a) /\ Numbers(<< a + 1 >>, a, a + 1)
<1>1. << a + 1 >> \in Seq(Nat) /\ Len(<< a + 1 >>) = 1 /\ << a + 1 >>[1] = a + 1
  OBVIOUS
<1>2. Numbers(<< a + 1 >>, a, a + 1)
  BY <1>1 DEF Numbers
<1>3. Numbers(<< >>, a, a)
  BY DEF Numbers
<1> QED BY <1>2, <1>3

(* A run and the run after it.                                             *)
LEMMA NumbersConcat ==
  ASSUME NEW s, NEW t, NEW a \in Nat, NEW b \in Nat, NEW c \in Nat,
         Numbers(s, a, b), Numbers(t, b, c)
  PROVE  Numbers(s \o t, a, c)
<1>1. /\ s \in Seq(Nat) /\ Len(s) = b - a /\ Len(s) \in Nat
      /\ t \in Seq(Nat) /\ Len(t) = c - b /\ Len(t) \in Nat
  BY DEF Numbers
<1>2. (\A i \in 1 .. Len(s) : s[i] = a + i) /\ (\A i \in 1 .. Len(t) : t[i] = b + i)
  BY DEF Numbers
<1> DEFINE u == s \o t
<1>3. /\ u \in Seq(Nat) /\ Len(u) = Len(s) + Len(t)
      /\ \A i \in 1 .. Len(s) + Len(t) : u[i] = IF i <= Len(s) THEN s[i] ELSE t[i - Len(s)]
  BY <1>1, ConcatProperties, Zenon
<1> HIDE DEF u
<1>4. \A i \in 1 .. Len(u) : u[i] = a + i
  <2> SUFFICES ASSUME NEW i \in 1 .. Len(u) PROVE u[i] = a + i
    OBVIOUS
  <2>1. CASE i <= Len(s)
    BY <1>1, <1>2, <1>3, <2>1
  <2>2. CASE ~(i <= Len(s))
    <3>1. i - Len(s) \in 1 .. Len(t) /\ u[i] = t[i - Len(s)]
      BY <1>1, <1>3, <2>2
    <3> QED BY <1>1, <1>2, <3>1
  <2> QED BY <2>1, <2>2
<1>5. Len(u) = c - a
  BY <1>1, <1>3
<1> QED BY <1>3, <1>4, <1>5 DEF Numbers, u

(* Where the frames between a source and its sink are: queue has all after *)
(* q, header_queue and the payload source those after hb and pb up to q.   *)
ListInv(q, hb, pb) ==
  /\ Numbers(queue, q, frames) /\ Numbers(header_queue, hb, q) /\ Numbers(psource.queue, pb, q)
  /\ q <= hb + 1 /\ (hb = q => q = frames) /\ pb <= hb

(* Frames up to hb and pb are on the wires or beyond, headers up to ht and *)
(* payloads up to pt are taken.  The payload of a frame never begins before*)
(* its header, nor is a beat of it up while its header is not.             *)
WireInv(hb, pb, ht, pt) ==
  /\ active => hb = ht + 1 /\ hdr = hb
  /\ ~active => hb = ht
  /\ psource.active => pb = pt + 1
  /\ ~psource.active => pb = pt
  /\ hdr_valid => active /\ hdr_ready_int
  /\ psource.valid => psource.active /\ tready_int
  /\ pb = hb /\ active => psource.active /\ (psource.valid => hdr_valid)

(* A decision of a process at an edge; opaque where both cases are alike.  *)
Flag == BOOLEAN

(* A number after an edge, the same or the next, opaque likewise.          *)
Up(x) == {x, x + 1}

(* What is taken on an edge: a header, a beat, the last beat of a payload. *)
Taken(pk, acc, moves, ends) ==
  /\ acc <=> hdr_ready_int /\ ~pk /\ hdr_valid
  /\ moves <=> tready_int /\ ~pk /\ psource.valid
  /\ ends <=> moves /\ psource.beat.last

(* What begins on an edge, a header or a payload, and what the processes   *)
(* of the source leave of header_queue, move from queue, and find in the   *)
(* queue of the payload source or put there after it.                      *)
Begun(early, acc, ends, hbeg, pbeg, left, next, now, later) ==
  /\ hbeg <=> (~active \/ acc) /\ header_queue # << >>
  /\ left = IF hbeg THEN Tail(header_queue) ELSE header_queue
  /\ next = IF queue # << >> /\ left = << >> THEN << Head(queue) >> ELSE << >>
  /\ now = psource.queue \o (IF early THEN next ELSE << >>)
  /\ later = IF early THEN << >> ELSE next
  /\ pbeg <=> (~psource.active \/ ends) /\ now # << >>

(* While no payload is behind, one may begin only when its header may.     *)
InStep(hb, pb, acc, ends) ==
  pb = hb /\ (~psource.active \/ ends) /\ header_queue # << >> => ~active \/ acc

(* The numbers go on with what begins.                                     *)
Counted(hb, pb, hb2, pb2, hbeg, pbeg) ==
  /\ hb2 = hb + 1 <=> hbeg
  /\ pb2 = pb + 1 <=> pbeg
  /\ hb2 <= frames /\ pb2 <= frames /\ pb2 <= hb2

(* What begins is the next frame, and the lists are again runs.            *)
Listed(q2, hb2, pb2, hbeg, pbeg, left, next, now, later) ==
  /\ hbeg => Head(header_queue) = hb2
  /\ pbeg => Head(now) = pb2
  /\ Numbers(IF next = << >> THEN queue ELSE Tail(queue), q2, frames)
  /\ Numbers(left \o next, hb2, q2)
  /\ Numbers((IF pbeg THEN Tail(now) ELSE now) \o later, pb2, q2)
  /\ q2 <= hb2 + 1 /\ (hb2 = q2 => q2 = frames) /\ pb2 <= hb2

(* How the lists of a source change on an edge.                            *)
LEMMA ListStep ==
  ASSUME NEW q \in Nat, NEW hb \in Nat, NEW pb \in Nat, EpTypeOK,
         NEW early \in Flag, NEW acc \in Flag, NEW ends \in Flag,
         NEW hbeg \in Flag, NEW pbeg \in Flag, NEW left, NEW next, NEW now, NEW later
  PROVE  /\ ListInv(q, hb, pb)
         /\ Begun(early, acc, ends, hbeg, pbeg, left, next, now, later)
         /\ InStep(hb, pb, acc, ends)
         => \E q2 \in Up(q), hb2 \in Up(hb), pb2 \in Up(pb) :
              /\ Counted(hb, pb, hb2, pb2, hbeg, pbeg)
              /\ Listed(q2, hb2, pb2, hbeg, pbeg, left, next, now, later)
<1> USE DEF Flag, Up
<1> SUFFICES
      ASSUME frames \in Nat, ListInv(q, hb, pb),
             NEW hfree \in BOOLEAN, NEW pfree \in BOOLEAN,
             hbeg <=> hfree /\ header_queue # << >>,
             left = IF hbeg THEN Tail(header_queue) ELSE header_queue,
             next = IF queue # << >> /\ left = << >> THEN << Head(queue) >> ELSE << >>,
             now = psource.queue \o (IF early THEN next ELSE << >>),
             later = IF early THEN << >> ELSE next,
             pbeg <=> pfree /\ now # << >>,
             pb = hb /\ pfree /\ header_queue # << >> => hfree
      PROVE  \E q2 \in {q, q + 1}, hb2 \in {hb, hb + 1}, pb2 \in {pb, pb + 1} :
               /\ hb2 = hb + 1 <=> hbeg
               /\ pb2 = pb + 1 <=> pbeg
               /\ hbeg => Head(header_queue) = hb + 1
               /\ pbeg => Head(now) = pb + 1
               /\ hb2 <= frames /\ pb2 <= frames
               /\ Numbers(IF next = << >> THEN queue ELSE Tail(queue), q2, frames)
               /\ Numbers(left \o next, hb2, q2)
               /\ Numbers((IF pbeg THEN Tail(now) ELSE now) \o later, pb2, q2)
               /\ q2 <= hb2 + 1 /\ (hb2 = q2 => q2 = frames) /\ pb2 <= hb2
  <2>1. PICK hfree \in BOOLEAN : hfree <=> ~active \/ acc
    OBVIOUS
  <2>2. PICK pfree \in BOOLEAN : pfree <=> ~psource.active \/ ends
    OBVIOUS
  <2>3. frames \in Nat
    BY DEF EpTypeOK
  <2> QED BY <2>1, <2>2, <2>3, Zenon DEF Begun, InStep, Counted, Listed
<1>1. /\ Numbers(queue, q, frames) /\ Numbers(header_queue, hb, q) /\ Numbers(psource.queue, pb, q)
      /\ q <= hb + 1 /\ (hb = q => q = frames) /\ pb <= hb
  BY DEF ListInv
<1>2. PICK hb2 \in {hb, hb + 1} :
        /\ hb2 = hb + 1 <=> hbeg
        /\ hb2 <= q /\ (hbeg => Head(header_queue) = hb + 1)
        /\ Numbers(left, hb2, q)
  <2>1. CASE hbeg
    <3>1. header_queue # << >> /\ left = Tail(header_queue)
      BY <2>1
    <3>2. /\ Head(header_queue) = hb + 1 /\ Numbers(Tail(header_queue), hb + 1, q)
          /\ hb + 1 <= q
      BY <1>1, <3>1, NumbersTail, Zenon
    <3> QED BY <2>1, <3>1, <3>2
  <2>2. CASE ~hbeg
    <3>1. left = header_queue /\ hb # hb + 1
      BY <2>2
    <3>2. hb <= q
      BY <1>1, NumbersEmpty, Zenon
    <3> QED BY <1>1, <2>2, <3>1, <3>2
  <2> QED BY <2>1, <2>2
<1>3. hb2 \in Nat /\ (left = << >> <=> hb2 = q)
  <2>1. hb2 \in Nat
    OBVIOUS
  <2> QED BY <1>2, <2>1, NumbersEmpty, Zenon
<1>4. queue # << >> <=> q # frames
  BY <1>1, NumbersEmpty
<1>5. PICK q2 \in {q, q + 1} :
        /\ q2 = q + 1 <=> queue # << >> /\ left = << >>
        /\ q2 <= frames /\ q2 \in Nat
        /\ Numbers(next, q, q2)
        /\ Numbers(IF next = << >> THEN queue ELSE Tail(queue), q2, frames)
  <2>1. CASE queue # << >> /\ left = << >>
    <3>1. Head(queue) = q + 1 /\ Numbers(Tail(queue), q + 1, frames) /\ q + 1 <= frames
      BY <1>1, <2>1, NumbersTail
    <3>2. next = << q + 1 >> /\ next # << >>
      BY <2>1, <3>1
    <3> QED BY <2>1, <3>1, <3>2, NumbersFew
  <2>2. CASE ~(queue # << >> /\ left = << >>)
    <3>1. next = << >>
      BY <2>2
    <3>2. q # q + 1 /\ q <= frames
      BY <1>1, NumbersEmpty
    <3> QED BY <1>1, <2>2, <3>1, <3>2, NumbersFew
  <2> QED BY <2>1, <2>2
<1>6. Numbers(left \o next, hb2, q2)
  BY <1>2, <1>3, <1>5, NumbersConcat
<1>7. PICK x \in Nat : /\ Numbers(now, pb, x) /\ Numbers(later, x, q2)
                       /\ (early => x = q2) /\ (~early => x = q)
  <2>1. CASE early
    <3>1. now = psource.queue \o next /\ later = << >>
      BY <2>1
    <3> QED BY <1>1, <1>5, <2>1, <3>1, NumbersConcat, NumbersFew
  <2>2. CASE ~early
    <3>1. now = psource.queue \o << >> /\ later = next
      BY <2>2
    <3>2. Numbers(psource.queue \o << >>, pb, q)
      BY <1>1, NumbersConcat, NumbersFew
    <3> QED BY <1>1, <1>5, <2>2, <3>1, <3>2
  <2> QED BY <2>1, <2>2
<1> DEFINE rest == IF pbeg THEN Tail(now) ELSE now
<1>8. PICK pb2 \in {pb, pb + 1} :
        /\ pb2 = pb + 1 <=> pbeg
        /\ pb2 <= x /\ (pbeg => Head(now) = pb + 1)
        /\ Numbers(rest, pb2, x)
  <2>1. CASE pbeg
    <3>1. now # << >> /\ rest = Tail(now)
      BY <2>1
    <3>2. Head(now) = pb + 1 /\ Numbers(Tail(now), pb + 1, x) /\ pb + 1 <= x
      BY <1>7, <3>1, NumbersTail, Zenon
    <3> HIDE DEF rest
    <3> QED BY <2>1, <3>1, <3>2
  <2>2. CASE ~pbeg
    <3>1. rest = now /\ pb # pb + 1
      <4>1. rest = now
        BY <2>2, Zenon
      <4>2. pb # pb + 1
        OBVIOUS
      <4> QED BY <4>1, <4>2
    <3>2. pb <= x
      BY <1>7, NumbersEmpty, Zenon
    <3> HIDE DEF rest
    <3> QED BY <1>7, <2>2, <3>1, <3>2
  <2> QED BY <2>1, <2>2
<1>9. Numbers((IF pbeg THEN Tail(now) ELSE now) \o later, pb2, q2)
  <2>1. pb2 \in Nat
    OBVIOUS
  <2> QED BY <1>5, <1>7, <1>8, <2>1, NumbersConcat, Zenon
<1>10. q2 <= hb2 + 1 /\ (hb2 = q2 => q2 = frames)
  BY <1>1, <1>2, <1>3, <1>4, <1>5
<1>11. pb2 <= hb2
  <2> SUFFICES ASSUME pbeg, pb = hb PROVE hbeg
    BY <1>1, <1>2, <1>8
  <2>1. CASE header_queue # << >>
    BY <2>1
  <2>2. CASE header_queue = << >>
    <3>1. hb = q
      BY <1>1, <2>2, NumbersEmpty
    <3>2. x = q
      BY <1>1, <1>4, <1>5, <1>7, <3>1
    <3>3. pb + 1 <= q
      BY <1>8, <3>2
    <3> QED BY <3>1, <3>3
  <2> QED BY <2>1, <2>2
<1>12. hb2 <= frames /\ pb2 <= frames
  BY <1>1, <1>2, <1>3, <1>5, <1>7, <1>8, <1>11, NumbersEmpty
<1> QED BY <1>2, <1>5, <1>6, <1>8, <1>9, <1>10, <1>11, <1>12

(* The numbers go on with what is taken.                                   *)
Reached(ht, pt, ht2, pt2, acc, ends) ==
  /\ ht2 = ht + 1 <=> acc
  /\ pt2 = pt + 1 <=> ends
  /\ pt2 <= ht2

(* How the wires change: what was taken goes, what begins comes, and tvalid*)
(* follows the pause p.                                                    *)
Wired(p, acc, moves, ends, hbeg, pbeg, hb2) ==
  /\ active' = ((active /\ ~acc) \/ hbeg)
  /\ hdr' = IF hbeg THEN hb2 ELSE hdr
  /\ hdr_valid' = IF hbeg THEN ~p ELSE ~acc /\ active /\ (hdr_valid \/ ~p)
  /\ psource'.active = ((psource.active /\ ~ends) \/ pbeg)
  /\ psource'.valid = IF pbeg \/ (moves /\ ~ends) THEN ~p
                      ELSE ~ends /\ psource.active /\ (psource.valid \/ ~p)
  /\ hdr_ready_int' = TRUE /\ tready_int' = TRUE

(* How the wires change on an edge: acc and ends tell what is taken, hbeg  *)
(* and pbeg what begins.                                                   *)
LEMMA WireStep ==
  ASSUME NEW hb \in Nat, NEW pb \in Nat, NEW ht \in Nat, NEW pt \in Nat, EpTypeOK,
         NEW p \in Flag, NEW pk \in Flag, NEW early \in Flag,
         NEW acc \in Flag, NEW ends \in Flag, NEW moves \in Flag,
         NEW hbeg \in Flag, NEW pbeg \in Flag, NEW left, NEW next, NEW now, NEW later,
         NEW hb2 \in Up(hb), NEW pb2 \in Up(pb)
  PROVE  /\ WireInv(hb, pb, ht, pt) /\ pb <= hb /\ Taken(pk, acc, moves, ends)
         /\ Begun(early, acc, ends, hbeg, pbeg, left, next, now, later)
         /\ Counted(hb, pb, hb2, pb2, hbeg, pbeg)
         /\ Wired(p, acc, moves, ends, hbeg, pbeg, hb2)
         => \E ht2 \in Up(ht), pt2 \in Up(pt) :
              Reached(ht, pt, ht2, pt2, acc, ends) /\ WireInv(hb2, pb2, ht2, pt2)'
<1> USE DEF Flag, Up
<1> SUFFICES
      ASSUME WireInv(hb, pb, ht, pt) /\ pb <= hb /\ pb2 <= hb2,
             acc <=> hdr_ready_int /\ ~pk /\ hdr_valid,
             moves <=> tready_int /\ ~pk /\ psource.valid,
             ends => moves,
             hbeg => ~active \/ acc,
             pbeg => ~psource.active \/ ends,
             hb2 = hb + 1 <=> hbeg,
             pb2 = pb + 1 <=> pbeg,
             active' = ((active /\ ~acc) \/ hbeg),
             hdr' = IF hbeg THEN hb2 ELSE hdr,
             hdr_valid' = IF hbeg THEN ~p ELSE ~acc /\ active /\ (hdr_valid \/ ~p),
             psource'.active = ((psource.active /\ ~ends) \/ pbeg),
             psource'.valid = IF pbeg \/ (moves /\ ~ends) THEN ~p
                              ELSE ~ends /\ psource.active /\ (psource.valid \/ ~p),
             hdr_ready_int' = TRUE /\ tready_int' = TRUE
      PROVE  \E ht2 \in {ht, ht + 1}, pt2 \in {pt, pt + 1} :
               /\ ht2 = ht + 1 <=> acc
               /\ pt2 = pt + 1 <=> ends
               /\ WireInv(hb2, pb2, ht2, pt2)'
               /\ pt2 <= ht2
  BY Zenon DEF Taken, Begun, Counted, Wired, Reached
<1>1. /\ active \in BOOLEAN /\ hdr_valid \in BOOLEAN /\ hdr_ready_int \in BOOLEAN
      /\ tready_int \in BOOLEAN /\ psource.active \in BOOLEAN /\ psource.valid \in BOOLEAN
  BY DEF EpTypeOK
<1> QED BY <1>1 DEF WireInv

(* The first n beats of the payload of frame f.                            *)
BeatsTo(f, n) == [i \in 1 .. n |-> BeatOf(f, i)]

(* The sink holds the beats before the one on the wires.                   *)
UnderWay(pb) ==
  /\ psource.active => /\ pb \in 1 .. frames /\ psource.beat.no \in 1 .. len[pb]
                       /\ psource.beat = BeatOf(pb, psource.beat.no)
                       /\ psink.data = BeatsTo(pb, psource.beat.no - 1)
  /\ ~psource.active => psink.data = << >>

(* One more beat, and all of them.                                         *)
LEMMA BeatsGrow ==
  ASSUME EpTypeOK, NEW f \in 1 .. frames, NEW n \in Nat
  PROVE  /\ BeatOf(f, n + 1) \in Beat
         /\ BeatsTo(f, n) \in Seq(Beat)
         /\ Append(BeatsTo(f, n), BeatOf(f, n + 1)) = BeatsTo(f, n + 1)
         /\ BeatsTo(f, 0) = << >>
         /\ len[f] \in Nat /\ len[f] >= 1
         /\ BeatsTo(f, len[f]) = Beats(f)
<1>1. f \in Nat /\ frames \in Nat /\ len \in Seq(Nat \ {0}) /\ Len(len) = frames
  BY DEF EpTypeOK
<1>2. \A i \in Nat : BeatOf(f, i) \in Beat
  BY <1>1 DEF BeatOf, Beat
<1>3. \A m \in Nat : BeatsTo(f, m) \in Seq(Beat) /\ Len(BeatsTo(f, m)) = m
  <2> SUFFICES ASSUME NEW m \in Nat
               PROVE  BeatsTo(f, m) \in Seq(Beat) /\ Len(BeatsTo(f, m)) = m
    OBVIOUS
  <2>1. BeatsTo(f, m) \in [1 .. m -> Beat]
    BY <1>2 DEF BeatsTo
  <2>2. BeatsTo(f, m) \in Seq(Beat)
    BY <2>1, SeqDef
  <2>3. DOMAIN BeatsTo(f, m) = 1 .. m
    BY DEF BeatsTo
  <2> QED BY <2>2, <2>3
<1>4. len[f] \in Nat /\ len[f] >= 1
  <2>1. len[f] \in Nat \ {0}
    BY <1>1
  <2> QED BY <2>1
<1>5. BeatsTo(f, 0) = << >>
  BY <1>3, EmptySeq
<1>6. Append(BeatsTo(f, n), BeatOf(f, n + 1)) = BeatsTo(f, n + 1)
  <2> DEFINE s == BeatsTo(f, n)
             t == Append(s, BeatOf(f, n + 1))
             u == BeatsTo(f, n + 1)
  <2>1. s \in Seq(Beat) /\ Len(s) = n /\ u \in Seq(Beat) /\ Len(u) = n + 1
    BY <1>3
  <2>2. /\ t \in Seq(Beat) /\ Len(t) = n + 1
        /\ \A i \in 1 .. n + 1 : t[i] = IF i <= n THEN s[i] ELSE BeatOf(f, n + 1)
    <3> HIDE DEF s
    <3> QED BY <1>2, <2>1
  <2>3. (\A i \in 1 .. n : s[i] = BeatOf(f, i)) /\ (\A i \in 1 .. n + 1 : u[i] = BeatOf(f, i))
    BY DEF BeatsTo
  <2> HIDE DEF s, t, u
  <2>4. \A i \in 1 .. n + 1 : t[i] = u[i]
    BY <2>2, <2>3
  <2>5. t = u
    BY <2>1, <2>2, <2>4, SeqEqual
  <2> QED BY <2>5 DEF s, t, u
<1>7. BeatsTo(f, len[f]) = Beats(f)
  BY DEF BeatsTo, Beats
<1>8. n + 1 \in Nat
  OBVIOUS
<1> QED BY <1>2, <1>3, <1>4, <1>5, <1>6, <1>7, <1>8, Zenon

(* stream is the payload sink after a beat, or none.                       *)
Streamed(moves, stream) ==
  /\ ~moves => stream = psink
  /\ moves => stream =
       [data  |-> IF psource.beat.last THEN << >> ELSE Append(psink.data, psource.beat),
        queue |-> IF psource.beat.last
                  THEN Append(psink.queue, Append(psink.data, psource.beat))
                  ELSE psink.queue]

(* How the beat on the wires changes.                                      *)
BeatWired(moves, ends, pbeg, pb2, stream) ==
  /\ psource'.active = ((psource.active /\ ~ends) \/ pbeg)
  /\ psource'.beat = IF pbeg THEN BeatOf(pb2, 1)
                     ELSE IF moves /\ ~ends
                          THEN BeatOf(psource.beat.frame, psource.beat.no + 1)
                          ELSE psource.beat
  /\ psink'.data = stream.data /\ len' = len /\ frames' = frames

(* With its last beat a payload is in the sink, whole.                     *)
Whole(pb, ends, received) ==
  /\ ends => pb \in 1 .. frames /\ received = Append(psink.queue, Beats(pb))
  /\ ~ends => received = psink.queue

(* How the payload on the wires and in the sink changes on an edge.        *)
LEMMA PayloadStep ==
  ASSUME EpTypeOK, NEW hb \in Nat, NEW hb2, NEW pb \in Nat, NEW pb2 \in Up(pb),
         NEW pk \in Flag, NEW early \in Flag, NEW acc \in Flag,
         NEW moves \in Flag, NEW ends \in Flag, NEW hbeg \in Flag, NEW pbeg \in Flag,
         NEW left, NEW next, NEW now, NEW later, NEW stream
  PROVE  /\ UnderWay(pb) /\ Taken(pk, acc, moves, ends) /\ (moves => psource.active)
         /\ Begun(early, acc, ends, hbeg, pbeg, left, next, now, later)
         /\ Counted(hb, pb, hb2, pb2, hbeg, pbeg)
         /\ Streamed(moves, stream) /\ BeatWired(moves, ends, pbeg, pb2, stream)
         => /\ UnderWay(pb2)'
            /\ psource'.beat \in Beat /\ stream.data \in Seq(Beat)
            /\ Whole(pb, ends, stream.queue)
<1> USE DEF Flag, Up
<1> SUFFICES
      ASSUME UnderWay(pb),
             moves => psource.active, ends <=> moves /\ psource.beat.last,
             pbeg => ~psource.active \/ ends, pb2 = pb + 1 <=> pbeg, pb2 <= frames
      PROVE  /\ Streamed(moves, stream) /\ BeatWired(moves, ends, pbeg, pb2, stream)
             => /\ UnderWay(pb2)'
                /\ psource'.beat \in Beat /\ stream.data \in Seq(Beat)
                /\ Whole(pb, ends, stream.queue)
  BY Zenon DEF Taken, Begun, Counted
<1>1. SUFFICES
        ASSUME ~moves => stream = psink,
               moves => stream =
                 [data  |-> IF psource.beat.last THEN << >> ELSE Append(psink.data, psource.beat),
                  queue |-> IF psource.beat.last
                            THEN Append(psink.queue, Append(psink.data, psource.beat))
                            ELSE psink.queue],
               psource'.active = ((psource.active /\ ~ends) \/ pbeg),
               psource'.beat = IF pbeg THEN BeatOf(pb2, 1)
                               ELSE IF moves /\ ~ends
                                    THEN BeatOf(psource.beat.frame, psource.beat.no + 1)
                                    ELSE psource.beat,
               psink'.data = stream.data, len' = len, frames' = frames
        PROVE  /\ UnderWay(pb2)'
               /\ psource'.beat \in Beat /\ stream.data \in Seq(Beat)
               /\ ends => pb \in 1 .. frames /\ stream.queue = Append(psink.queue, Beats(pb))
               /\ ~ends => stream.queue = psink.queue
  BY Zenon DEF Streamed, BeatWired, Whole
<1>2. /\ psource.beat \in Beat /\ psource.active \in BOOLEAN /\ frames \in Nat
      /\ psink.data \in Seq(Beat) /\ psink \in [data : Seq(Beat), queue : Seq(Seq(Beat))]
  BY DEF EpTypeOK
<1>3. UnderWay(pb2)' =
        (/\ psource'.active => /\ pb2 \in 1 .. frames /\ psource'.beat.no \in 1 .. len[pb2]
                               /\ psource'.beat = BeatOf(pb2, psource'.beat.no)
                               /\ psink'.data = BeatsTo(pb2, psource'.beat.no - 1)
         /\ ~psource'.active => psink'.data = << >>)
  BY <1>1, Zenon DEF UnderWay, BeatsTo, BeatOf
<1>4. ASSUME moves
      PROVE  /\ pb \in 1 .. frames /\ psource.beat.no \in 1 .. len[pb]
             /\ psource.beat.frame = pb
             /\ psource.beat.last <=> psource.beat.no = len[pb]
             /\ Append(psink.data, psource.beat) = BeatsTo(pb, psource.beat.no)
             /\ psource.beat.last => Append(psink.data, psource.beat) = Beats(pb)
             /\ Append(psink.data, psource.beat) \in Seq(Beat)
  <2>1. /\ pb \in 1 .. frames /\ psource.beat.no \in 1 .. len[pb]
        /\ psource.beat = BeatOf(pb, psource.beat.no)
        /\ psink.data = BeatsTo(pb, psource.beat.no - 1)
    BY <1>4, Zenon DEF UnderWay
  <2>2. len[pb] \in Nat /\ BeatsTo(pb, len[pb]) = Beats(pb)
    BY <2>1, BeatsGrow
  <2>3. psource.beat.no - 1 \in Nat /\ (psource.beat.no - 1) + 1 = psource.beat.no
    BY <2>1, <2>2
  <2>4. Append(BeatsTo(pb, psource.beat.no - 1), BeatOf(pb, (psource.beat.no - 1) + 1))
          = BeatsTo(pb, (psource.beat.no - 1) + 1)
    BY <2>1, <2>3, BeatsGrow
  <2>5. Append(psink.data, psource.beat) = BeatsTo(pb, psource.beat.no)
    BY <2>1, <2>3, <2>4
  <2>6. psource.beat.frame = pb /\ (psource.beat.last <=> psource.beat.no = len[pb])
    <3>1. \A n : BeatOf(pb, n).frame = pb /\ (BeatOf(pb, n).last <=> n = len[pb])
      BY DEF BeatOf
    <3> QED BY <2>1, <3>1
  <2>7. psource.beat.last => Append(psink.data, psource.beat) = Beats(pb)
    BY <2>2, <2>5, <2>6
  <2>8. Append(psink.data, psource.beat) \in Seq(Beat)
    BY <1>2
  <2> QED BY <2>1, <2>5, <2>6, <2>7, <2>8, Zenon
<1>5. /\ ~moves => stream.data = psink.data /\ stream.queue = psink.queue
      /\ ends => /\ stream.data = << >> /\ pb \in 1 .. frames
                 /\ stream.queue = Append(psink.queue, Beats(pb))
      /\ moves /\ ~ends => /\ stream.data = BeatsTo(pb, psource.beat.no)
                           /\ stream.queue = psink.queue
  <2>1. CASE ~moves
    BY <1>1, <2>1
  <2>2. CASE ends
    <3>1. moves /\ psource.beat.last
      BY <2>2
    <3>2. stream = [data |-> << >>, queue |-> Append(psink.queue, Beats(pb))]
      BY <1>1, <1>4, <3>1, Zenon
    <3>3. stream.data = << >> /\ stream.queue = Append(psink.queue, Beats(pb))
      BY <3>2
    <3> QED BY <1>4, <2>2, <3>1, <3>3, Zenon
  <2>3. CASE moves /\ ~ends
    BY <1>1, <1>4, <2>3
  <2> QED BY <2>1, <2>2, <2>3
<1>6. stream.data \in Seq(Beat)
  <2>1. << >> \in Seq(Beat)
    OBVIOUS
  <2> QED BY <1>2, <1>4, <1>5, <2>1, Zenon
<1>7. CASE pbeg
  <2>1. pb2 = pb + 1 /\ pb2 \in 1 .. frames
    BY <1>2, <1>7
  <2>2. len[pb2] \in Nat /\ len[pb2] >= 1 /\ BeatsTo(pb2, 0) = << >>
    BY <2>1, BeatsGrow
  <2>3. psource'.beat = BeatOf(pb2, 1) /\ BeatOf(pb2, 1).no = 1 /\ psource'.active
    BY <1>1, <1>7 DEF BeatOf
  <2>4. psource'.beat \in Beat
    BY <2>1, <2>3 DEF BeatOf, Beat
  <2>5. stream.data = << >>
    BY <1>5, <1>7 DEF UnderWay
  <2>6. 1 - 1 = 0 /\ 1 \in 1 .. len[pb2]
    BY <2>2
  <2>7. /\ psource'.beat.no \in 1 .. len[pb2] /\ psource'.beat = BeatOf(pb2, psource'.beat.no)
        /\ psink'.data = BeatsTo(pb2, psource'.beat.no - 1)
    <3>1. psource'.beat.no = 1
      BY <2>3
    <3> QED BY <1>1, <2>2, <2>3, <2>5, <2>6, <3>1, Zenon
  <2>8. UnderWay(pb2)'
    BY <1>3, <2>1, <2>3, <2>7, Zenon
  <2> QED BY <1>5, <1>6, <2>4, <2>8, Zenon
<1>8. CASE ~pbeg /\ moves /\ ~ends
  <2>1. pb2 = pb /\ psource'.active /\ psource.active
    BY <1>1, <1>8
  <2>2. psource'.beat = BeatOf(pb, psource.beat.no + 1)
    BY <1>1, <1>4, <1>8
  <2>3. len[pb] \in Nat /\ psource.beat.no \in Nat
    BY <1>4, <1>8, BeatsGrow
  <2>4. psource.beat.no + 1 \in 1 .. len[pb] /\ (psource.beat.no + 1) - 1 = psource.beat.no
    <3>1. psource.beat.no \in 1 .. len[pb] /\ psource.beat.no # len[pb]
      BY <1>4, <1>8, Zenon
    <3>2. \A l, i \in Nat : i \in 1 .. l /\ i # l => i + 1 \in 1 .. l /\ (i + 1) - 1 = i
      OBVIOUS
    <3> QED BY <2>3, <3>1, <3>2, Zenon
  <2>5. psource'.beat.no = psource.beat.no + 1
    BY <2>2 DEF BeatOf
  <2>6. psource'.beat \in Beat
    BY <1>4, <1>8, <2>2, <2>3, BeatsGrow
  <2>7. UnderWay(pb2)'
    BY <1>1, <1>3, <1>4, <1>5, <1>8, <2>1, <2>2, <2>4, <2>5
  <2> QED BY <1>5, <1>6, <2>6, <2>7, Zenon
<1>9. CASE ~pbeg /\ ends
  <2>1. ~psource'.active /\ psource'.beat = psource.beat /\ stream.data = << >>
    BY <1>1, <1>5, <1>9
  <2>2. UnderWay(pb2)'
    BY <1>1, <1>3, <2>1, Zenon
  <2> QED BY <1>2, <1>5, <1>6, <2>1, <2>2
<1>10. CASE ~pbeg /\ ~moves
  <2>1. psource'.active = psource.active /\ psource'.beat = psource.beat
        /\ stream.data = psink.data /\ pb2 = pb
    BY <1>1, <1>2, <1>5, <1>10
  <2>2. UnderWay(pb2)'
    BY <1>1, <1>3, <2>1, Zenon DEF UnderWay
  <2> QED BY <1>2, <1>5, <1>6, <1>10, <2>1, <2>2
<1> QED BY <1>7, <1>8, <1>9, <1>10

(* s is the payloads of the frames from a + 1 to b.                        *)
Payloads(s, a, b) ==
  /\ s \in Seq(Seq(Beat)) /\ Len(s) = b - a
  /\ \A i \in 1 .. Len(s) : s[i] = Beats(a + i)

(* What a frame is received with.                                          *)
Payload(f) == IF layer = "arp" THEN << >> ELSE Beats(f)

(* The frames received are of those up to base, in order and whole.        *)
Received(base) ==
  /\ sink_queue \in Seq([header : Nat, payload : Seq(Beat)])
  /\ resets = 0 => Len(sink_queue) = base
  /\ \A i \in 1 .. Len(sink_queue) :
       /\ sink_queue[i].header \in 1 .. base
       /\ sink_queue[i].payload = Payload(sink_queue[i].header)
       /\ resets = 0 => sink_queue[i].header = i
       /\ i > 1 => sink_queue[i - 1].header < sink_queue[i].header

(* Headers and payloads that wait in the sink are of the frames after base.*)
SinkInv(base, ht, pt) ==
  /\ Numbers(sink_headers, base, ht) /\ Payloads(psink.queue, base, pt)
  /\ Received(base) /\ ~failed

(* Payloads come and go as numbers do.                                     *)
LEMMA PayloadsMove ==
  ASSUME NEW s, NEW a \in Nat, NEW b \in Nat, Payloads(s, a, b)
  PROVE  /\ s = << >> <=> a = b
         /\ a <= b
         /\ Beats(b + 1) \in Seq(Beat) => Payloads(Append(s, Beats(b + 1)), a, b + 1)
         /\ s # << >> => Head(s) = Beats(a + 1) /\ Payloads(Tail(s), a + 1, b)
<1>1. s \in Seq(Seq(Beat)) /\ Len(s) = b - a /\ Len(s) \in Nat
  BY DEF Payloads
<1>2. \A i \in 1 .. Len(s) : s[i] = Beats(a + i)
  BY DEF Payloads
<1>3. s = << >> <=> Len(s) = 0
  BY <1>1, EmptySeq
<1>4. (s = << >> <=> a = b) /\ a <= b
  BY <1>1, <1>3
<1>5. ASSUME Beats(b + 1) \in Seq(Beat)
      PROVE  Payloads(Append(s, Beats(b + 1)), a, b + 1)
  <2> DEFINE x == Beats(b + 1)
             t == Append(s, x)
  <2> HIDE DEF x
  <2>1. x \in Seq(Beat)
    BY <1>5 DEF x
  <2>2. t \in Seq(Seq(Beat)) /\ Len(t) = Len(s) + 1
        /\ \A i \in 1 .. Len(s) + 1 : t[i] = IF i <= Len(s) THEN s[i] ELSE x
    BY <1>1, <2>1
  <2> HIDE DEF t
  <2>3. \A i \in 1 .. Len(t) : t[i] = Beats(a + i)
    <3> SUFFICES ASSUME NEW i \in 1 .. Len(t) PROVE t[i] = Beats(a + i)
      OBVIOUS
    <3>1. CASE i <= Len(s)
      BY <1>1, <1>2, <2>2, <3>1
    <3>2. CASE ~(i <= Len(s))
      <4>1. a + i = b + 1 /\ t[i] = x
        BY <1>1, <2>2, <3>2
      <4> QED BY <4>1 DEF x
    <3> QED BY <3>1, <3>2
  <2>4. Len(t) = (b + 1) - a
    BY <1>1, <2>2
  <2>5. Payloads(t, a, b + 1)
    BY <2>2, <2>3, <2>4 DEF Payloads
  <2> QED BY <2>5 DEF t, x
<1>6. ASSUME s # << >>
      PROVE  Head(s) = Beats(a + 1) /\ Payloads(Tail(s), a + 1, b)
  <2>1. Len(s) # 0
    BY <1>3, <1>6
  <2>2. Tail(s) \in Seq(Seq(Beat)) /\ Len(Tail(s)) = Len(s) - 1 /\ Head(s) = s[1]
        /\ \A i \in 1 .. Len(Tail(s)) : Tail(s)[i] = s[i + 1]
    BY <1>1, <1>6
  <2>3. \A i \in 1 .. Len(Tail(s)) : Tail(s)[i] = Beats((a + 1) + i)
    <3> SUFFICES ASSUME NEW i \in 1 .. Len(Tail(s)) PROVE Tail(s)[i] = Beats((a + 1) + i)
      OBVIOUS
    <3>1. i + 1 \in 1 .. Len(s) /\ a + (i + 1) = (a + 1) + i
      BY <1>1, <2>2
    <3> QED BY <1>2, <2>2, <3>1
  <2>4. Len(Tail(s)) = b - (a + 1) /\ 1 \in 1 .. Len(s)
    BY <1>1, <2>1, <2>2
  <2> QED BY <1>2, <2>2, <2>3, <2>4 DEF Payloads
<1> QED BY <1>4, <1>5, <1>6

(* What was received stays, also when frames after it are lost by a reset. *)
LEMMA ReceivedKeep ==
  ASSUME NEW base \in Nat, NEW base2 \in Nat, NEW n, Received(base), EpTypeOK
  PROVE  /\ base <= base2 /\ (base = base2 \/ resets' # 0)
         /\ sink_queue' = sink_queue /\ layer' = layer
         /\ resets' = resets \/ resets' # 0
         /\ \A f \in 1 .. frames : Beats(f)' = Beats(f)
         /\ base <= frames
         => Received(base2)'
<1>0. SUFFICES ASSUME /\ base <= base2 /\ (base = base2 \/ resets' # 0)
                      /\ sink_queue' = sink_queue /\ layer' = layer
                      /\ resets' = resets \/ resets' # 0
                      /\ \A f \in 1 .. frames : Beats(f)' = Beats(f)
                      /\ base <= frames
               PROVE  Received(base2)'
  OBVIOUS
<1>1. frames \in Nat
  BY DEF EpTypeOK
<1>2. /\ sink_queue \in Seq([header : Nat, payload : Seq(Beat)])
      /\ resets = 0 => Len(sink_queue) = base
      /\ \A i \in 1 .. Len(sink_queue) :
           /\ sink_queue[i].header \in 1 .. base
           /\ sink_queue[i].payload = Payload(sink_queue[i].header)
           /\ resets = 0 => sink_queue[i].header = i
           /\ i > 1 => sink_queue[i - 1].header < sink_queue[i].header
  BY DEF Received
<1>3. \A f \in 1 .. base : f \in 1 .. base2 /\ f \in 1 .. frames
  BY <1>0, <1>1
<1>4. \A f \in 1 .. base : Payload(f)' = Payload(f)
  BY <1>0, <1>3, Zenon DEF Payload
<1>5. sink_queue' \in Seq([header : Nat, payload : Seq(Beat)])
  BY <1>0, <1>2, Zenon
<1>6. resets' = 0 => resets = 0 /\ base2 = base /\ Len(sink_queue') = base2
  BY <1>0, <1>2, Zenon
<1>7. ASSUME NEW i \in 1 .. Len(sink_queue')
      PROVE  (/\ sink_queue[i].header \in 1 .. base2
              /\ sink_queue[i].payload = Payload(sink_queue[i].header)
              /\ resets = 0 => sink_queue[i].header = i
              /\ i > 1 => sink_queue[i - 1].header < sink_queue[i].header)'
  <2>1. i \in 1 .. Len(sink_queue) /\ sink_queue' = sink_queue
    BY <1>0, <1>7, Zenon
  <2>2. PICK h \in 1 .. base : h = sink_queue[i].header
    BY <1>2, <2>1, Zenon
  <2>3. h = sink_queue'[i].header /\ h \in 1 .. base2
    BY <1>3, <2>1, <2>2, Zenon
  <2>4. sink_queue'[i].payload = Payload(h)'
    BY <1>2, <1>4, <2>1, <2>2, Zenon
  <2>5. (sink_queue[i].payload = Payload(sink_queue[i].header))'
    BY <2>3, <2>4, Zenon DEF Payload, Beats, BeatOf
  <2>6. resets' = 0 => sink_queue'[i].header = i
    BY <1>2, <1>6, <2>1, Zenon
  <2>7. i > 1 => sink_queue'[i - 1].header < sink_queue'[i].header
    BY <1>2, <2>1, Zenon
  <2> QED BY <2>3, <2>5, <2>6, <2>7, Zenon
<1> QED BY <1>5, <1>6, <1>7, Zenon DEF Received, Payload, Beats, BeatOf

(* The next frame is received.                                             *)
LEMMA ReceivedGrow ==
  ASSUME NEW base \in Nat, NEW x \in Seq(Beat), Received(base)
  PROVE  /\ x = Payload(base + 1)
         /\ sink_queue' = Append(sink_queue, [header |-> base + 1, payload |-> x])
         /\ layer' = layer /\ len' = len /\ resets' = resets
         => Received(base + 1)'
<1>0. SUFFICES ASSUME x = Payload(base + 1),
                      sink_queue' = Append(sink_queue, [header |-> base + 1, payload |-> x]),
                      layer' = layer /\ len' = len /\ resets' = resets
               PROVE  Received(base + 1)'
  OBVIOUS
<1>1. /\ sink_queue \in Seq([header : Nat, payload : Seq(Beat)])
      /\ resets = 0 => Len(sink_queue) = base
      /\ \A i \in 1 .. Len(sink_queue) :
           /\ sink_queue[i].header \in 1 .. base
           /\ sink_queue[i].payload = Payload(sink_queue[i].header)
           /\ resets = 0 => sink_queue[i].header = i
           /\ i > 1 => sink_queue[i - 1].header < sink_queue[i].header
  BY DEF Received
<1> DEFINE e == [header |-> base + 1, payload |-> x]
<1>2. e \in [header : Nat, payload : Seq(Beat)] /\ e.header = base + 1 /\ e.payload = x
  OBVIOUS
<1>3. sink_queue' = Append(sink_queue, e)
  BY <1>0
<1> HIDE DEF e
<1>4. PICK n \in Nat : n = Len(sink_queue)
  BY <1>1, LenProperties, Zenon
<1>5. /\ sink_queue' \in Seq([header : Nat, payload : Seq(Beat)]) /\ Len(sink_queue') = n + 1
      /\ \A i \in 1 .. n : sink_queue'[i] = sink_queue[i]
      /\ sink_queue'[n + 1] = e
  BY <1>1, <1>2, <1>3, <1>4
<1>6. \A h \in Nat : Payload(h)' = Payload(h)
  BY <1>0, Zenon DEF Payload, Beats, BeatOf
<1>7. resets' = 0 => Len(sink_queue') = base + 1
  BY <1>0, <1>1, <1>4, <1>5
<1>8. ASSUME NEW i \in 1 .. Len(sink_queue')
      PROVE  (/\ sink_queue[i].header \in 1 .. base + 1
              /\ sink_queue[i].payload = Payload(sink_queue[i].header)
              /\ resets = 0 => sink_queue[i].header = i
              /\ i > 1 => sink_queue[i - 1].header < sink_queue[i].header)'
  <2>1. CASE i \in 1 .. n
    <3>1. sink_queue'[i] = sink_queue[i] /\ i \in 1 .. Len(sink_queue)
      BY <1>4, <1>5, <2>1, Zenon
    <3>2. PICK h \in 1 .. base : h = sink_queue[i].header
      BY <1>1, <3>1, Zenon
    <3>3. h = sink_queue'[i].header /\ h \in 1 .. base + 1 /\ h \in Nat
      <4>1. h \in 1 .. base + 1 /\ h \in Nat
        OBVIOUS
      <4> QED BY <3>1, <3>2, <4>1, Zenon
    <3>4. sink_queue'[i].payload = Payload(h)'
      BY <1>1, <1>6, <3>1, <3>2, <3>3, Zenon
    <3>5. (sink_queue[i].payload = Payload(sink_queue[i].header))'
      BY <3>3, <3>4, Zenon DEF Payload, Beats, BeatOf
    <3>6. resets' = 0 => sink_queue'[i].header = i
      BY <1>0, <1>1, <3>1, Zenon
    <3>7. i > 1 => sink_queue'[i - 1].header < sink_queue'[i].header
      <4>1. i > 1 => i - 1 \in 1 .. n
        BY <2>1
      <4> QED BY <1>1, <1>5, <3>1, <4>1, Zenon
    <3> QED BY <3>3, <3>5, <3>6, <3>7, Zenon
  <2>2. CASE i = n + 1
    <3>1. sink_queue'[i] = e
      BY <1>5, <2>2, Zenon
    <3>2. PICK h \in 1 .. base + 1 : h = base + 1
      OBVIOUS
    <3>3. h = sink_queue'[i].header /\ h \in Nat
      <4>1. h \in Nat
        OBVIOUS
      <4> QED BY <1>2, <3>1, <3>2, <4>1, Zenon
    <3>4. sink_queue'[i].payload = Payload(h)'
      BY <1>0, <1>2, <1>6, <3>1, <3>2, <3>3, Zenon
    <3>5. (sink_queue[i].payload = Payload(sink_queue[i].header))'
      BY <3>3, <3>4, Zenon DEF Payload, Beats, BeatOf
    <3>6. resets' = 0 => sink_queue'[i].header = i
      BY <1>0, <1>1, <1>4, <2>2, <3>2, <3>3, Zenon
    <3>7. i > 1 => sink_queue'[i - 1].header < sink_queue'[i].header
      <4>1. ASSUME i > 1 PROVE i - 1 = n /\ n \in 1 .. n
        BY <2>2, <4>1
      <4>2. ASSUME i > 1 PROVE sink_queue'[i - 1].header \in 1 .. base
        BY <1>1, <1>4, <1>5, <4>1, <4>2, Zenon
      <4>3. \A z \in 1 .. base : z < base + 1
        OBVIOUS
      <4> QED BY <3>2, <3>3, <4>2, <4>3, Zenon
    <3> QED BY <3>2, <3>3, <3>5, <3>6, <3>7, Zenon
  <2>3. i \in 1 .. n \/ i = n + 1
    BY <1>5
  <2> QED BY <2>1, <2>2, <2>3
<1>9. base + 1 \in Nat
  OBVIOUS
<1> QED BY <1>5, <1>7, <1>8, Zenon DEF Received, Payload, Beats, BeatOf

(* The headers and the payloads of which the sink makes a frame.           *)
Offered(soon, acc, received, headers, payloads, pairs) ==
  /\ headers = IF acc THEN Append(sink_headers, hdr) ELSE sink_headers
  /\ payloads = IF soon THEN received ELSE psink.queue
  /\ pairs <=> headers # << >> /\ payloads # << >>

(* The sink makes the first of each a frame, if there is one.              *)
Paired(asserts, received, headers, payloads, pairs) ==
  /\ sink_headers' = IF pairs THEN Tail(headers) ELSE headers
  /\ psink'.queue = IF pairs THEN Tail(received) ELSE received
  /\ sink_queue' = IF pairs
                   THEN Append(sink_queue,
                               [header |-> Head(headers), payload |-> Head(payloads)])
                   ELSE sink_queue
  /\ failed' = (failed \/ (asserts /\ pairs /\ Len(headers) = 1 /\ Len(payloads) > 1))

(* A header and a payload are paired on an edge or not; what the assertion *)
(* forbids, a second payload when the header is the only one, needs a      *)
(* payload that is ahead of its header.                                    *)
LEMMA PairStep ==
  ASSUME EpTypeOK, NEW base \in Nat, NEW ht \in Nat, NEW pt \in Nat,
         NEW ht2 \in Up(ht), NEW pt2 \in Up(pt),
         NEW acc \in Flag, NEW ends \in Flag, NEW early \in Flag,
         NEW pairs \in Flag, NEW asserts \in Flag,
         NEW headers, NEW received, NEW payloads
  PROVE  /\ SinkInv(base, ht, pt) /\ layer # "arp" /\ ht <= frames
         /\ Reached(ht, pt, ht2, pt2, acc, ends) /\ (acc => hdr = ht + 1)
         /\ Whole(pt + 1, ends, received) /\ (ends => Beats(pt + 1) \in Seq(Beat))
         /\ Offered(early, acc, received, headers, payloads, pairs)
         /\ Paired(asserts, received, headers, payloads, pairs)
         /\ UNCHANGED <<layer, len, frames, resets>>
         => \E base2 \in Up(base) : SinkInv(base2, ht2, pt2)'
<1> USE DEF Flag, Up
<1>0. SUFFICES
        ASSUME SinkInv(base, ht, pt) /\ layer # "arp" /\ ht <= frames,
               ht2 = ht + 1 <=> acc,
               pt2 = pt + 1 <=> ends,
               pt2 <= ht2,
               acc => hdr = ht + 1,
               ends => Beats(pt + 1) \in Seq(Beat)
                       /\ received = Append(psink.queue, Beats(pt + 1)),
               ~ends => received = psink.queue,
               headers = IF acc THEN Append(sink_headers, hdr) ELSE sink_headers,
               payloads = IF early THEN received ELSE psink.queue,
               pairs <=> headers # << >> /\ payloads # << >>,
               sink_headers' = IF pairs THEN Tail(headers) ELSE headers,
               psink'.queue = IF pairs THEN Tail(received) ELSE received,
               sink_queue' = IF pairs
                             THEN Append(sink_queue,
                                         [header |-> Head(headers), payload |-> Head(payloads)])
                             ELSE sink_queue,
               failed' = (failed \/ (asserts /\ pairs /\ Len(headers) = 1 /\ Len(payloads) > 1)),
               layer' = layer /\ len' = len /\ frames' = frames /\ resets' = resets
        PROVE  \E base2 \in {base, base + 1} : SinkInv(base2, ht2, pt2)'
  BY Zenon DEF Whole, Offered, Paired, Reached
<1>1. /\ Numbers(sink_headers, base, ht) /\ Payloads(psink.queue, base, pt)
      /\ Received(base) /\ failed = FALSE
  <2>1. failed \in BOOLEAN
    BY DEF EpTypeOK
  <2> QED BY <1>0, <2>1, Zenon DEF SinkInv
<1>2. /\ ht2 \in Nat /\ pt2 \in Nat /\ frames \in Nat /\ base + 1 \in Nat
      /\ base <= ht /\ base <= frames
      /\ (acc => ht2 = ht + 1) /\ (~acc => ht2 = ht)
      /\ (ends => pt2 = pt + 1) /\ (~ends => pt2 = pt)
      /\ pt2 <= ht2
  <2>1. frames \in Nat
    BY DEF EpTypeOK
  <2>2. base <= ht
    BY <1>1, NumbersEmpty, Zenon
  <2> QED BY <1>0, <2>1, <2>2
<1>3. Numbers(headers, base, ht2)
  <2>1. CASE acc
    <3>1. Numbers(Append(sink_headers, ht + 1), base, ht + 1)
      BY <1>1, NumbersAppend, Zenon
    <3>2. headers = Append(sink_headers, ht + 1)
      BY <1>0, <2>1, Zenon
    <3> QED BY <1>2, <2>1, <3>1, <3>2, Zenon
  <2>2. CASE ~acc
    BY <1>0, <1>1, <1>2, <2>2, Zenon
  <2> QED BY <2>1, <2>2
<1>4. Payloads(received, base, pt2)
  <2>1. CASE ends
    <3>1. Beats(pt + 1) \in Seq(Beat) /\ received = Append(psink.queue, Beats(pt + 1))
      BY <1>0, <2>1, Zenon
    <3>2. Payloads(Append(psink.queue, Beats(pt + 1)), base, pt + 1)
      BY <1>1, <3>1, PayloadsMove, Zenon
    <3> QED BY <1>2, <2>1, <3>1, <3>2, Zenon
  <2>2. CASE ~ends
    BY <1>0, <1>1, <1>2, <2>2, Zenon
  <2> QED BY <2>1, <2>2
<1>5. PICK pe \in Nat : Payloads(payloads, base, pe) /\ pe <= pt2
  <2>1. CASE early
    BY <1>0, <1>2, <1>4, <2>1
  <2>2. CASE ~early
    <3>1. pt <= pt2
      OBVIOUS
    <3> QED BY <1>0, <1>1, <2>2, <3>1, Zenon
  <2> QED BY <2>1, <2>2
<1>6. ~failed'
  <2> SUFFICES ASSUME pairs, Len(headers) = 1, Len(payloads) > 1 PROVE FALSE
    BY <1>0, <1>1, Zenon
  <2>1. Len(headers) = ht2 - base /\ Len(payloads) = pe - base
    BY <1>3, <1>5, Zenon DEF Numbers, Payloads
  <2>2. ht2 - base = 1 /\ pe - base > 1
    BY <2>1, Zenon
  <2>3. ~(ht2 - base = 1 /\ pe - base > 1)
    BY <1>2, <1>5
  <2> QED BY <2>2, <2>3, Zenon
<1>7. (\A f \in Nat : Beats(f)' = Beats(f)) /\ (\A f \in 1 .. frames : Beats(f)' = Beats(f))
  BY <1>0, Zenon DEF Beats, BeatOf
<1>8. ASSUME NEW s, NEW b \in Nat, Payloads(s, b, pt2), psink'.queue = s
      PROVE  Payloads(psink.queue, b, pt2)'
  <2>1. s \in Seq(Seq(Beat)) /\ Len(s) = pt2 - b /\ \A i \in 1 .. Len(s) : s[i] = Beats(b + i)
    BY <1>8, Zenon DEF Payloads
  <2>2. \A i \in 1 .. Len(s) : b + i \in Nat
    OBVIOUS
  <2>3. \A i \in 1 .. Len(s) : s[i] = Beats(b + i)'
    BY <1>7, <2>1, <2>2, Zenon
  <2> QED BY <1>8, <2>1, <2>3, Zenon DEF Payloads, Beats, BeatOf
<1>9. CASE pairs
  <2>1. /\ Head(headers) = base + 1 /\ Numbers(Tail(headers), base + 1, ht2)
    BY <1>0, <1>2, <1>3, <1>9, NumbersTail, Zenon
  <2>2. Head(payloads) = Beats(base + 1) /\ base # pe /\ base <= pe
    <3>1. Payloads(payloads, base, pe) /\ payloads # << >> /\ base \in Nat /\ pe \in Nat
      BY <1>0, <1>5, <1>9, Zenon
    <3> QED BY <3>1, PayloadsMove, Zenon
  <2>3. Head(payloads) \in Seq(Beat)
    <3>1. payloads \in Seq(Seq(Beat)) /\ payloads # << >>
      BY <1>0, <1>5, <1>9, Zenon DEF Payloads
    <3> QED BY <3>1
  <2>4. base # pt2
    BY <1>2, <1>5, <2>2
  <2>5. Payloads(Tail(received), base + 1, pt2)
    BY <1>2, <1>4, <2>4, PayloadsMove, Zenon
  <2>6. Payloads(psink.queue, base + 1, pt2)'
    BY <1>0, <1>2, <1>8, <1>9, <2>5, Zenon
  <2>7. Numbers(sink_headers, base + 1, ht2)'
    BY <1>0, <1>9, <2>1, Zenon DEF Numbers
  <2>8. Received(base + 1)'
    <3>1. Head(payloads) = Payload(base + 1)
      BY <1>0, <2>2, Zenon DEF Payload
    <3>2. sink_queue' = Append(sink_queue, [header |-> base + 1, payload |-> Head(payloads)])
      BY <1>0, <1>9, <2>1, Zenon
    <3> QED BY <1>0, <1>1, <2>3, <3>1, <3>2, ReceivedGrow, Zenon
  <2> QED BY <1>6, <2>6, <2>7, <2>8, Zenon DEF SinkInv
<1>10. CASE ~pairs
  <2>1. Payloads(psink.queue, base, pt2)'
    BY <1>0, <1>4, <1>8, <1>10, Zenon
  <2>2. Numbers(sink_headers, base, ht2)'
    BY <1>0, <1>3, <1>10, Zenon DEF Numbers
  <2>3. Received(base)'
    <3>1. base <= base
      BY <1>2
    <3> QED BY <1>0, <1>1, <1>2, <1>7, <1>10, <3>1, ReceivedKeep, Zenon
  <2> QED BY <1>6, <2>1, <2>2, <2>3, Zenon DEF SinkInv
<1> QED BY <1>9, <1>10

(* The end points that have a payload: where every frame is.               *)
FlowInv ==
  \E q, hb, pb, ht, pt \in Nat :
    /\ ListInv(q, hb, pb) /\ WireInv(hb, pb, ht, pt) /\ UnderWay(pb)
    /\ ~mixed => \E base \in Nat : SinkInv(base, ht, pt)

(* The source after an edge.                                               *)
Sourced(p, acc, moves, ends, hbeg, pbeg, left, next, now, later) ==
  /\ active' = ((active /\ ~acc) \/ hbeg)
  /\ hdr' = IF hbeg THEN Head(header_queue) ELSE hdr
  /\ hdr_valid' = IF hbeg THEN ~p ELSE ~acc /\ active /\ (hdr_valid \/ ~p)
  /\ header_queue' = left \o next
  /\ queue' = IF next = << >> THEN queue ELSE Tail(queue)
  /\ psource' =
       [queue  |-> (IF pbeg THEN Tail(now) ELSE now) \o later,
        active |-> (psource.active /\ ~ends) \/ pbeg,
        beat   |-> IF pbeg THEN BeatOf(Head(now), 1)
                   ELSE IF moves /\ ~ends
                        THEN BeatOf(psource.beat.frame, psource.beat.no + 1)
                        ELSE psource.beat,
        valid  |-> IF pbeg \/ (moves /\ ~ends) THEN ~p
                   ELSE ~ends /\ psource.active /\ (psource.valid \/ ~p)]

(* What a source does on an edge, the decisions it takes named.            *)
LEMMA SourceStep ==
  ASSUME EpTypeOK, NEW p \in Flag, NEW pk \in Flag, NEW early \in Flag,
         NEW acc \in Flag, NEW moves \in Flag, NEW ends \in Flag,
         NEW hbeg \in Flag, NEW pbeg \in Flag, NEW left, NEW next, NEW now, NEW later
  PROVE  /\ FrameSource(p, pk, early) /\ Taken(pk, acc, moves, ends)
         /\ Begun(early, acc, ends, hbeg, pbeg, left, next, now, later)
         => Sourced(p, acc, moves, ends, hbeg, pbeg, left, next, now, later)
<1> USE DEF Flag
<1>0. SUFFICES
        ASSUME FrameSource(p, pk, early),
               acc <=> hdr_ready_int /\ ~pk /\ hdr_valid,
               moves <=> tready_int /\ ~pk /\ psource.valid,
               ends <=> moves /\ psource.beat.last,
               hbeg <=> (~active \/ acc) /\ header_queue # << >>,
               left = (IF hbeg THEN Tail(header_queue) ELSE header_queue),
               next = (IF queue # << >> /\ left = << >> THEN << Head(queue) >> ELSE << >>),
               now = psource.queue \o (IF early THEN next ELSE << >>),
               later = (IF early THEN << >> ELSE next),
               pbeg <=> (~psource.active \/ ends) /\ now # << >>
        PROVE  /\ active' = ((active /\ ~acc) \/ hbeg)
               /\ hdr' = IF hbeg THEN Head(header_queue) ELSE hdr
               /\ hdr_valid' = IF hbeg THEN ~p ELSE ~acc /\ active /\ (hdr_valid \/ ~p)
               /\ header_queue' = left \o next
               /\ queue' = IF next = << >> THEN queue ELSE Tail(queue)
               /\ psource' =
                    [queue  |-> (IF pbeg THEN Tail(now) ELSE now) \o later,
                     active |-> (psource.active /\ ~ends) \/ pbeg,
                     beat   |-> IF pbeg THEN BeatOf(Head(now), 1)
                                ELSE IF moves /\ ~ends
                                     THEN BeatOf(psource.beat.frame, psource.beat.no + 1)
                                     ELSE psource.beat,
                     valid  |-> IF pbeg \/ (moves /\ ~ends) THEN ~p
                                ELSE ~ends /\ psource.active /\ (psource.valid \/ ~p)]
  BY Zenon DEF Taken, Begun, Sourced
<1>1. /\ active \in BOOLEAN /\ hdr_valid \in BOOLEAN /\ hdr_ready_int \in BOOLEAN
      /\ tready_int \in BOOLEAN /\ psource.active \in BOOLEAN /\ psource.valid \in BOOLEAN
      /\ psource.beat.last \in BOOLEAN
  BY DEF EpTypeOK, Beat
<1>2. Accepted(pk) <=> acc
  BY <1>0 DEF Accepted
<1>3. (stream_ready(pk) /\ psource.valid <=> moves)
  BY <1>0 DEF stream_ready
<1>4. Rest(pk, header_queue) = left
  BY <1>0, <1>2, Zenon DEF Rest
<1>5. /\ header_queue' = left \o next
      /\ queue' = IF next = << >> THEN queue ELSE Tail(queue)
      /\ StreamSource(p, pk, now, later)
      /\ Header(p, pk, header_queue)
  BY <1>0, <1>4, Zenon DEF FrameSource
<1>6. /\ active' = ((active /\ ~acc) \/ hbeg)
      /\ hdr' = IF hbeg THEN Head(header_queue) ELSE hdr
      /\ hdr_valid' = IF hbeg THEN ~p ELSE ~acc /\ active /\ (hdr_valid \/ ~p)
  <2>1. /\ active' = \/ active /\ ~Accepted(pk)
                     \/ (~active \/ Accepted(pk)) /\ header_queue # << >>
        /\ hdr' = IF ((~active \/ Accepted(pk)) /\ header_queue # << >>)
                  THEN Head(header_queue) ELSE hdr
        /\ hdr_valid' = IF ((~active \/ Accepted(pk)) /\ header_queue # << >>) THEN ~p
                        ELSE ~Accepted(pk) /\ active /\ (hdr_valid \/ ~p)
    BY <1>5, Zenon DEF Header
  <2> QED BY <1>0, <1>1, <2>1 DEF Accepted
<1>7. psource' =
        [queue  |-> (IF pbeg THEN Tail(now) ELSE now) \o later,
         active |-> (psource.active /\ ~ends) \/ pbeg,
         beat   |-> IF pbeg THEN BeatOf(Head(now), 1)
                    ELSE IF moves /\ ~ends
                         THEN BeatOf(psource.beat.frame, psource.beat.no + 1)
                         ELSE psource.beat,
         valid  |-> IF pbeg \/ (moves /\ ~ends) THEN ~p
                    ELSE ~ends /\ psource.active /\ (psource.valid \/ ~p)]
  BY <1>0, <1>1, <1>3, <1>5 DEF StreamSource, stream_ready
<1> QED BY <1>5, <1>6, <1>7, Zenon

(* The sink after an edge.                                                 *)
Sunk(asserts, moves, pairs, headers, stream, payloads) ==
  /\ hdr_ready_int' = TRUE /\ tready_int' = TRUE
  /\ Streamed(moves, stream)
  /\ psink' = [data  |-> stream.data,
               queue |-> IF pairs THEN Tail(stream.queue) ELSE stream.queue]
  /\ Paired(asserts, stream.queue, headers, payloads, pairs)

(* What a sink does on an edge, likewise.                                  *)
LEMMA SinkStep ==
  ASSUME EpTypeOK, NEW pk \in Flag, NEW early \in Flag, NEW asserts \in Flag,
         NEW acc \in Flag, NEW moves \in Flag, NEW ends \in Flag, NEW pairs \in Flag,
         NEW headers, NEW stream, NEW payloads
  PROVE  /\ FrameSink(pk, early, asserts) /\ stream = StreamSink(pk)
         /\ Taken(pk, acc, moves, ends) /\ (psource.valid => tready_int)
         /\ Offered(early, acc, stream.queue, headers, payloads, pairs)
         => Sunk(asserts, moves, pairs, headers, stream, payloads)
<1> USE DEF Flag
<1>0. SUFFICES
        ASSUME FrameSink(pk, early, asserts),
               acc <=> hdr_ready_int /\ ~pk /\ hdr_valid,
               moves <=> ~pk /\ psource.valid,
               headers = (IF acc THEN Append(sink_headers, hdr) ELSE sink_headers),
               stream = StreamSink(pk),
               payloads = (IF early THEN stream.queue ELSE psink.queue),
               pairs <=> headers # << >> /\ payloads # << >>
        PROVE
            /\ hdr_ready_int' = TRUE /\ tready_int' = TRUE
            /\ ~moves => stream = psink
            /\ moves => stream =
                 [data  |-> IF psource.beat.last THEN << >> ELSE Append(psink.data, psource.beat),
                  queue |-> IF psource.beat.last
                            THEN Append(psink.queue, Append(psink.data, psource.beat))
                            ELSE psink.queue]
            /\ sink_headers' = IF pairs THEN Tail(headers) ELSE headers
            /\ psink' = [data  |-> stream.data,
                         queue |-> IF pairs THEN Tail(stream.queue) ELSE stream.queue]
            /\ sink_queue' = IF pairs
                             THEN Append(sink_queue, [header  |-> Head(headers),
                                                      payload |-> Head(payloads)])
                             ELSE sink_queue
            /\ failed' = (failed \/ (asserts /\ pairs /\ Len(headers) = 1 /\ Len(payloads) > 1))
  <2>1. \A x : x = [data |-> stream.data,
                    queue |-> IF pairs THEN Tail(stream.queue) ELSE stream.queue]
               => x.queue = IF pairs THEN Tail(stream.queue) ELSE stream.queue
    OBVIOUS
  <2> QED BY <2>1, Zenon DEF Taken, Offered, Streamed, Paired, Sunk
<1>1. /\ psource.valid \in BOOLEAN /\ psink \in [data : Seq(Beat), queue : Seq(Seq(Beat))]
      /\ failed \in BOOLEAN
  BY DEF EpTypeOK
<1>2. Accepted(pk) <=> acc
  BY <1>0 DEF Accepted
<1>3. (IF Accepted(pk) THEN Append(sink_headers, hdr) ELSE sink_headers) = headers
  BY <1>0, <1>2, Zenon
<1>4. /\ ~moves => stream = psink
      /\ moves => stream =
           [data  |-> IF psource.beat.last THEN << >> ELSE Append(psink.data, psource.beat),
            queue |-> IF psource.beat.last
                      THEN Append(psink.queue, Append(psink.data, psource.beat))
                      ELSE psink.queue]
  BY <1>0, <1>1, Zenon DEF StreamSink
<1>5. stream = [data |-> stream.data, queue |-> stream.queue]
  BY <1>1, <1>4
<1>6. /\ hdr_ready_int' = TRUE /\ tready_int' = TRUE
      /\ sink_headers' = IF headers # << >> /\ payloads # << >> THEN Tail(headers) ELSE headers
      /\ psink' = IF headers # << >> /\ payloads # << >>
                  THEN [stream EXCEPT !.queue = Tail(@)] ELSE stream
      /\ sink_queue' = IF headers # << >> /\ payloads # << >>
                       THEN Append(sink_queue,
                                   [header |-> Head(headers), payload |-> Head(payloads)])
                       ELSE sink_queue
      /\ failed' = (failed \/ (asserts /\ (headers # << >> /\ payloads # << >>)
                               /\ Len(headers) = 1 /\ Len(payloads) > 1))
  BY <1>0, <1>3, Zenon DEF FrameSink
<1>7. psink' = [data  |-> stream.data,
                queue |-> IF pairs THEN Tail(stream.queue) ELSE stream.queue]
  <2>1. CASE pairs
    <3>1. psink' = [stream EXCEPT !.queue = Tail(@)]
      BY <1>0, <1>6, <2>1, Zenon
    <3> QED BY <1>5, <2>1, <3>1
  <2>2. CASE ~pairs
    <3>1. psink' = stream
      BY <1>0, <1>6, <2>2, Zenon
    <3> QED BY <1>5, <2>2, <3>1
  <2> QED BY <2>1, <2>2
<1>8. /\ sink_headers' = IF pairs THEN Tail(headers) ELSE headers
      /\ sink_queue' = IF pairs
                       THEN Append(sink_queue,
                                   [header |-> Head(headers), payload |-> Head(payloads)])
                       ELSE sink_queue
  BY <1>0, <1>6, Zenon
<1>9. failed' = (failed \/ (asserts /\ pairs /\ Len(headers) = 1 /\ Len(payloads) > 1))
  BY <1>0, <1>1, <1>6
<1> QED BY <1>4, <1>6, <1>7, <1>8, <1>9, Zenon

(* An edge of the end points that have a payload keeps every frame.        *)
LEMMA EdgeStep ==
  ASSUME EpTypeOK, NEW p \in Flag, NEW pk \in Flag, NEW early \in Flag,
         NEW soon \in Flag, NEW asserts \in Flag,
         layer # "arp", FlowInv, UNCHANGED <<layer, len, mixed, frames, resets>>
  PROVE  FrameSource(p, pk, early) /\ FrameSink(pk, soon, asserts) => EpTypeOK' /\ FlowInv'
<1>0. SUFFICES ASSUME FrameSource(p, pk, early), FrameSink(pk, soon, asserts)
               PROVE  EpTypeOK' /\ FlowInv'
  OBVIOUS
<1>1. /\ active \in BOOLEAN /\ hdr_valid \in BOOLEAN /\ hdr_ready_int \in BOOLEAN
      /\ tready_int \in BOOLEAN /\ psource.active \in BOOLEAN /\ psource.valid \in BOOLEAN
      /\ psource.beat \in Beat /\ frames \in Nat /\ failed \in BOOLEAN
      /\ psink.queue \in Seq(Seq(Beat))
  BY DEF EpTypeOK
<1>2. PICK q \in Nat, hb \in Nat, pb \in Nat, ht \in Nat, pt \in Nat :
        /\ ListInv(q, hb, pb) /\ WireInv(hb, pb, ht, pt) /\ UnderWay(pb)
        /\ ~mixed => \E base \in Nat : SinkInv(base, ht, pt)
  BY Zenon DEF FlowInv
<1>3. PICK acc \in Flag, moves \in Flag, ends \in Flag : Taken(pk, acc, moves, ends)
  <2>1. PICK acc \in Flag : acc <=> hdr_ready_int /\ ~pk /\ hdr_valid
    BY DEF Flag
  <2>2. PICK moves \in Flag : moves <=> tready_int /\ ~pk /\ psource.valid
    BY DEF Flag
  <2>3. PICK ends \in Flag : ends <=> moves /\ psource.beat.last
    BY DEF Flag
  <2> QED BY <2>1, <2>2, <2>3, Zenon DEF Taken
<1>4. PICK hbeg \in Flag : hbeg <=> (~active \/ acc) /\ header_queue # << >>
  BY DEF Flag
<1> DEFINE left  == IF hbeg THEN Tail(header_queue) ELSE header_queue
           next  == IF queue # << >> /\ left = << >> THEN << Head(queue) >> ELSE << >>
           now   == psource.queue \o (IF early THEN next ELSE << >>)
           later == IF early THEN << >> ELSE next
           stream == StreamSink(pk)
           headers == IF acc THEN Append(sink_headers, hdr) ELSE sink_headers
           payloads == IF soon THEN stream.queue ELSE psink.queue
<1> HIDE DEF left, next, now, later, stream, headers, payloads
<1>5. PICK pbeg \in Flag : pbeg <=> (~psource.active \/ ends) /\ now # << >>
  BY DEF Flag
<1>6. PICK pairs \in Flag : pairs <=> headers # << >> /\ payloads # << >>
  BY DEF Flag
<1>7. Begun(early, acc, ends, hbeg, pbeg, left, next, now, later)
  BY <1>4, <1>5, Zenon DEF Begun, left, next, now, later
<1>8. Offered(soon, acc, stream.queue, headers, payloads, pairs)
  BY <1>6, Zenon DEF Offered, headers, payloads
<1>9. /\ moves => psource.active
      /\ psource.valid => tready_int
      /\ InStep(hb, pb, acc, ends)
      /\ acc => hdr = ht + 1
  BY <1>2, <1>3, Zenon DEF WireInv, Taken, InStep
<1>10. Sourced(p, acc, moves, ends, hbeg, pbeg, left, next, now, later)
  BY <1>0, <1>3, <1>7, SourceStep, Zenon
<1>11. Sunk(asserts, moves, pairs, headers, stream, payloads)
  <2>1. stream = StreamSink(pk)
    BY DEF stream
  <2>2. psource.valid => tready_int
    BY <1>9, Zenon
  <2> QED BY <1>0, <1>3, <1>8, <2>1, <2>2, SinkStep, Zenon
<1>12. /\ hdr_ready_int' = TRUE /\ tready_int' = TRUE
       /\ Streamed(moves, stream)
       /\ psink' = [data  |-> stream.data,
                    queue |-> IF pairs THEN Tail(stream.queue) ELSE stream.queue]
       /\ Paired(asserts, stream.queue, headers, payloads, pairs)
  BY <1>11, Zenon DEF Sunk
<1>13. PICK q2 \in Up(q), hb2 \in Up(hb), pb2 \in Up(pb) :
         /\ Counted(hb, pb, hb2, pb2, hbeg, pbeg)
         /\ Listed(q2, hb2, pb2, hbeg, pbeg, left, next, now, later)
  <2>1. ListInv(q, hb, pb) /\ InStep(hb, pb, acc, ends)
    BY <1>2, <1>9, Zenon
  <2> QED BY <1>7, <2>1, ListStep, Zenon
<1>14. q2 \in Nat /\ hb2 \in Nat /\ pb2 \in Nat
  BY DEF Up
<1>15. /\ psource'.queue = (IF pbeg THEN Tail(now) ELSE now) \o later
       /\ psource'.active = ((psource.active /\ ~ends) \/ pbeg)
       /\ psource'.beat = IF pbeg THEN BeatOf(Head(now), 1)
                          ELSE IF moves /\ ~ends
                               THEN BeatOf(psource.beat.frame, psource.beat.no + 1)
                               ELSE psource.beat
       /\ psource'.valid = IF pbeg \/ (moves /\ ~ends) THEN ~p
                           ELSE ~ends /\ psource.active /\ (psource.valid \/ ~p)
       /\ psource' = [queue |-> psource'.queue, active |-> psource'.active,
                      beat |-> psource'.beat, valid |-> psource'.valid]
  BY <1>10 DEF Sourced
<1>16. psink'.data = stream.data
  BY <1>12
<1>17. Wired(p, acc, moves, ends, hbeg, pbeg, hb2)
  BY <1>10, <1>12, <1>13, <1>15, Zenon DEF Wired, Sourced, Listed
<1>18. BeatWired(moves, ends, pbeg, pb2, stream)
  BY <1>13, <1>15, <1>16, Zenon DEF BeatWired, Listed
<1>19. ListInv(q2, hb2, pb2)'
  BY <1>10, <1>13, <1>15, Zenon DEF ListInv, Numbers, Listed, Sourced
<1>20. PICK ht2 \in Up(ht), pt2 \in Up(pt) :
         Reached(ht, pt, ht2, pt2, acc, ends) /\ WireInv(hb2, pb2, ht2, pt2)'
  <2>1. pb <= hb /\ WireInv(hb, pb, ht, pt)
    BY <1>2, Zenon DEF ListInv
  <2>2. Counted(hb, pb, hb2, pb2, hbeg, pbeg)
    BY <1>13, Zenon
  <2> QED BY <1>3, <1>7, <1>17, <2>1, <2>2, WireStep, Zenon
<1>21. /\ UnderWay(pb2)'
       /\ psource'.beat \in Beat /\ stream.data \in Seq(Beat)
       /\ Whole(pb, ends, stream.queue)
  <2>1. UnderWay(pb) /\ (moves => psource.active) /\ Streamed(moves, stream)
        /\ Counted(hb, pb, hb2, pb2, hbeg, pbeg)
    BY <1>2, <1>9, <1>12, <1>13, Zenon
  <2> QED BY <1>3, <1>7, <1>18, <2>1, PayloadStep, Zenon
<1>22. ends => pb = pt + 1 /\ Beats(pb) \in Seq(Beat) /\ Beats(pt + 1) \in Seq(Beat)
  <2> SUFFICES ASSUME ends
               PROVE  pb = pt + 1 /\ Beats(pb) \in Seq(Beat) /\ Beats(pt + 1) \in Seq(Beat)
    OBVIOUS
  <2>1. pb = pt + 1
    BY <1>2, <1>3, <1>9, Zenon DEF WireInv, Taken
  <2>2. pb \in 1 .. frames
    BY <1>21, Zenon DEF Whole
  <2>3. 0 \in Nat /\ BeatsTo(pb, len[pb]) = Beats(pb) /\ len[pb] \in Nat
    BY <2>2, BeatsGrow
  <2>4. BeatsTo(pb, len[pb]) \in Seq(Beat)
    BY <2>2, <2>3, BeatsGrow, Zenon
  <2> QED BY <2>1, <2>3, <2>4, Zenon
<1>23. ~mixed' => \E base \in Nat : SinkInv(base, ht2, pt2)'
  <2> SUFFICES ASSUME ~mixed PROVE \E base \in Nat : SinkInv(base, ht2, pt2)'
    OBVIOUS
  <2>1. PICK base \in Nat : SinkInv(base, ht, pt)
    BY <1>2, Zenon
  <2>2. acc => hdr = ht + 1
    BY <1>9, Zenon
  <2>3. ht <= frames
    <3>1. hb <= q /\ q <= frames /\ q \in Nat
      BY <1>1, <1>2, NumbersEmpty, Zenon DEF ListInv
    <3>2. hb = ht \/ hb = ht + 1
      BY <1>1, <1>2, Zenon DEF WireInv
    <3> QED BY <1>1, <3>1, <3>2
  <2>4. Whole(pt + 1, ends, stream.queue)
    BY <1>21, <1>22, Zenon DEF Whole
  <2>5. UNCHANGED <<layer, len, frames, resets>>
    OBVIOUS
  <2>6. \E base2 \in Up(base) : SinkInv(base2, ht2, pt2)'
    <3>1. /\ Reached(ht, pt, ht2, pt2, acc, ends)
          /\ ends => Beats(pt + 1) \in Seq(Beat)
          /\ Paired(asserts, stream.queue, headers, payloads, pairs)
      BY <1>12, <1>20, <1>22, Zenon
    <3> QED BY <1>8, <2>1, <2>2, <2>3, <2>4, <2>5, <3>1, PairStep, Zenon
  <2>7. \A x \in Up(base) : x \in Nat
    BY DEF Up
  <2> QED BY <2>6, <2>7, Zenon
<1>24. FlowInv'
  <2>1. ht2 \in Nat /\ pt2 \in Nat
    BY DEF Up
  <2> QED BY <1>14, <1>19, <1>20, <1>21, <1>23, <2>1, Zenon DEF FlowInv
<1>25. EpTypeOK'
  <2>1. /\ active' \in BOOLEAN /\ hdr_valid' \in BOOLEAN
        /\ hdr_ready_int' \in BOOLEAN /\ tready_int' \in BOOLEAN
    BY <1>1, <1>10, <1>12 DEF Sourced, Flag
  <2>2. failed' \in BOOLEAN
    BY <1>1, <1>12 DEF Paired, Flag
  <2>3. psource' \in [queue : Seq(Nat), active : BOOLEAN, beat : Beat, valid : BOOLEAN]
    <3>1. psource'.queue \in Seq(Nat)
      BY <1>13, <1>15, Zenon DEF Numbers, Listed
    <3>2. psource'.active \in BOOLEAN /\ psource'.valid \in BOOLEAN
      BY <1>1, <1>15 DEF Flag
    <3> QED BY <1>15, <1>21, <3>1, <3>2
  <2>4. psink' \in [data : Seq(Beat), queue : Seq(Seq(Beat))]
    <3>1. stream.queue \in Seq(Seq(Beat))
      <4>1. \A s \in Seq(Seq(Beat)), x \in Seq(Beat) : Append(s, x) \in Seq(Seq(Beat))
        OBVIOUS
      <4> QED BY <1>1, <1>21, <1>22, <4>1, Zenon DEF Whole
    <3>2. pairs => stream.queue # << >>
      <4> SUFFICES ASSUME pairs, stream.queue = << >> PROVE FALSE
        OBVIOUS
      <4>1. payloads # << >> /\ payloads = (IF soon THEN stream.queue ELSE psink.queue)
        BY <1>6, Zenon DEF payloads
      <4>2. ends /\ stream.queue = Append(psink.queue, Beats(pb))
        BY <1>21, <4>1, Zenon DEF Whole
      <4>3. Len(Append(psink.queue, Beats(pb))) = Len(psink.queue) + 1 /\ Len(psink.queue) \in Nat
        BY <1>1, <1>22, <4>2
      <4>4. Len(stream.queue) = 0
        OBVIOUS
      <4> QED BY <4>2, <4>3, <4>4
    <3>3. psink'.queue = IF pairs THEN Tail(stream.queue) ELSE stream.queue
      BY <1>12, Zenon DEF Paired
    <3>4. psink'.queue \in Seq(Seq(Beat))
      BY <3>1, <3>2, <3>3
    <3>5. psink' = [data |-> psink'.data, queue |-> psink'.queue]
      BY <1>12, <1>16, <3>3, Zenon
    <3>6. psink'.data \in Seq(Beat)
      BY <1>16, <1>21, Zenon
    <3> QED BY <3>4, <3>5, <3>6
  <2> QED BY <2>1, <2>2, <2>3, <2>4, Zenon DEF EpTypeOK
<1> QED BY <1>24, <1>25

(* A reset loses what is on the wires; unless it parts a header from its   *)
(* payload, no half of a frame is left.                                    *)
LEMMA ResetStep ==
  ASSUME EpTypeOK, layer # "arp", FlowInv, EpReset
  PROVE  EpTypeOK' /\ FlowInv'
<1>1. /\ active' = FALSE /\ hdr_valid' = FALSE /\ hdr' = hdr
      /\ psource' = [psource EXCEPT !.active = FALSE, !.valid = FALSE]
      /\ hdr_ready_int' = FALSE /\ tready_int' = FALSE
      /\ psink' = [psink EXCEPT !.data = << >>]
      /\ mixed' = (mixed \/ (layer # "arp" /\ ~Together)) /\ resets' = resets + 1
      /\ layer' = layer /\ queue' = queue /\ header_queue' = header_queue
      /\ sink_headers' = sink_headers /\ sink_queue' = sink_queue /\ len' = len
      /\ failed' = failed /\ frames' = frames
  BY DEF EpReset
<1>2. /\ psource \in [queue : Seq(Nat), active : BOOLEAN, beat : Beat, valid : BOOLEAN]
      /\ psink \in [data : Seq(Beat), queue : Seq(Seq(Beat))]
      /\ layer \in Layers /\ len \in Seq(Nat \ {0}) /\ Len(len) = frames /\ frames \in Nat
      /\ resets \in Nat /\ mixed \in BOOLEAN /\ failed \in BOOLEAN
  BY DEF EpTypeOK
<1>3. /\ psource'.queue = psource.queue /\ ~psource'.active /\ ~psource'.valid
      /\ psink'.data = << >> /\ psink'.queue = psink.queue
      /\ resets' \in Nat /\ resets' # 0
  BY <1>1, <1>2
<1>4. EpTypeOK'
  <2>1. psource' \in [queue : Seq(Nat), active : BOOLEAN, beat : Beat, valid : BOOLEAN]
    BY <1>1, <1>2
  <2>2. psink' \in [data : Seq(Beat), queue : Seq(Seq(Beat))]
    <3>1. << >> \in Seq(Beat)
      OBVIOUS
    <3>2. psink' = [data |-> << >>, queue |-> psink.queue]
      BY <1>1, <1>2
    <3>3. psink.queue \in Seq(Seq(Beat))
      BY <1>2
    <3> QED BY <3>1, <3>2, <3>3
  <2>3. mixed' \in BOOLEAN
    BY <1>1, <1>2
  <2>4. /\ active' \in BOOLEAN /\ hdr_valid' \in BOOLEAN
        /\ hdr_ready_int' \in BOOLEAN /\ tready_int' \in BOOLEAN
    BY <1>1
  <2> QED BY <1>1, <1>2, <1>3, <2>1, <2>2, <2>3, <2>4, Zenon DEF EpTypeOK
<1>5. PICK q \in Nat, hb \in Nat, pb \in Nat, ht \in Nat, pt \in Nat :
        /\ ListInv(q, hb, pb) /\ WireInv(hb, pb, ht, pt) /\ UnderWay(pb)
        /\ ~mixed => \E base \in Nat : SinkInv(base, ht, pt)
  BY Zenon DEF FlowInv
<1>6. ListInv(q, hb, pb)'
  BY <1>1, <1>3, <1>5, Zenon DEF ListInv, Numbers
<1>7. WireInv(hb, pb, hb, pb)'
  BY <1>1, <1>3, Zenon DEF WireInv
<1>8. UnderWay(pb)'
  BY <1>3, Zenon DEF UnderWay
<1>9. ASSUME ~mixed' PROVE \E base \in Nat : SinkInv(base, hb, pb)'
  <2>1. ~mixed /\ Together
    BY <1>1, <1>2, <1>9
  <2>2. PICK base \in Nat : SinkInv(base, ht, pt)
    BY <1>5, <2>1, Zenon
  <2>3. /\ Numbers(sink_headers, base, ht) /\ Payloads(psink.queue, base, pt)
        /\ Received(base) /\ ~failed
    BY <2>2, Zenon DEF SinkInv
  <2>4. base = ht /\ base = pt
    BY <2>1, <2>3, NumbersEmpty, PayloadsMove, Zenon DEF Together
  <2>5. psource.active => psource.beat.frame = pb /\ pb \in Nat \ {0}
    BY <1>2, <1>5 DEF UnderWay, BeatOf
  <2>6. hb = pb
    <3>1. /\ active \in BOOLEAN
          /\ (active => hb = ht + 1 /\ hdr = hb) /\ (~active => hb = ht)
          /\ (psource.active => pb = pt + 1) /\ (~psource.active => pb = pt)
      BY <1>5, Zenon DEF WireInv, EpTypeOK
    <3>2. (IF active THEN hdr ELSE 0) = (IF psource.active THEN psource.beat.frame ELSE 0)
      BY <2>1, Zenon DEF Together
    <3>3. CASE active
      <4>1. hdr = ht + 1 /\ hdr # 0
        BY <3>1, <3>3
      <4>2. psource.active
        BY <3>2, <3>3, <4>1, Zenon
      <4> QED BY <2>4, <3>1, <3>3, <4>2, Zenon
    <3>4. CASE ~active
      <4>1. ~psource.active
        BY <2>5, <3>2, <3>4
      <4> QED BY <2>4, <3>1, <3>4, <4>1, Zenon
    <3> QED BY <3>3, <3>4
  <2>7. base <= hb /\ hb <= frames /\ base <= frames
    <3>1. hb <= q /\ q <= frames
      BY <1>2, <1>5, NumbersEmpty, Zenon DEF ListInv
    <3>2. hb = ht \/ hb = ht + 1
      BY <1>5 DEF WireInv, EpTypeOK
    <3> QED BY <1>2, <2>4, <3>1, <3>2
  <2>8. \A f \in 1 .. frames : Beats(f)' = Beats(f)
    BY <1>1, Zenon DEF Beats, BeatOf
  <2>9. Received(hb)'
    BY <1>1, <1>3, <2>3, <2>7, <2>8, ReceivedKeep, Zenon
  <2>10. Numbers(sink_headers, hb, hb)'
    <3>1. sink_headers' = << >> /\ Numbers(<< >>, hb, hb)
      BY <1>1, <2>1, NumbersFew, Zenon DEF Together
    <3> QED BY <3>1, Zenon DEF Numbers
  <2>11. Payloads(psink.queue, hb, pb)'
    <3>1. psink'.queue = << >>
      BY <1>3, <2>1, Zenon DEF Together
    <3>2. << >> \in Seq(Seq(Beat)) /\ Len(<< >>) = hb - hb /\ \A i \in 1 .. Len(<< >>) : FALSE
      OBVIOUS
    <3> QED BY <2>6, <3>1, <3>2, Zenon DEF Payloads
  <2>12. ~failed'
    BY <1>1, <2>3
  <2> QED BY <2>9, <2>10, <2>11, <2>12, Zenon DEF SinkInv
<1>10. FlowInv'
  BY <1>6, <1>7, <1>8, <1>9, Zenon DEF FlowInv
<1> QED BY <1>4, <1>10

(* A frame sent waits behind those before it.                              *)
LEMMA SendStep ==
  ASSUME EpTypeOK, layer # "arp", FlowInv, send
  PROVE  EpTypeOK' /\ FlowInv'
<1>1. PICK l \in Lens :
        /\ frames' = frames + 1 /\ len' = Append(len, l)
        /\ (layer # "arp" /\ header_queue = << >>) =>
             /\ header_queue' = << frames + 1 >> /\ queue' = queue
             /\ psource' = [psource EXCEPT !.queue = Append(@, frames + 1)]
        /\ ~(layer # "arp" /\ header_queue = << >>) =>
             /\ queue' = Append(queue, frames + 1)
             /\ header_queue' = header_queue /\ psource' = psource
        /\ layer' = layer /\ active' = active /\ hdr' = hdr /\ hdr_valid' = hdr_valid
        /\ hdr_ready_int' = hdr_ready_int /\ tready_int' = tready_int
        /\ sink_headers' = sink_headers /\ sink_queue' = sink_queue /\ psink' = psink
        /\ failed' = failed /\ mixed' = mixed /\ resets' = resets
  BY Zenon DEF send, epSink
<1>2. /\ psource \in [queue : Seq(Nat), active : BOOLEAN, beat : Beat, valid : BOOLEAN]
      /\ len \in Seq(Nat \ {0}) /\ Len(len) = frames /\ frames \in Nat
  BY DEF EpTypeOK
<1>3. /\ len' \in Seq(Nat \ {0}) /\ Len(len') = frames' /\ frames' \in Nat /\ frames <= frames'
      /\ \A f \in 1 .. frames : len'[f] = len[f] /\ f \in 1 .. frames'
  BY <1>1, <1>2, FrameEpAssumption
<1>4. psource'.active = psource.active /\ psource'.valid = psource.valid
      /\ psource'.beat = psource.beat
  BY <1>1, <1>2
<1>5. (\A f \in 1 .. frames : Beats(f)' = Beats(f))
      /\ \A f \in 1 .. frames : \A i : BeatOf(f, i)' = BeatOf(f, i)
  BY <1>3, Zenon DEF Beats, BeatOf
<1>6. PICK q \in Nat, hb \in Nat, pb \in Nat, ht \in Nat, pt \in Nat :
        /\ ListInv(q, hb, pb) /\ WireInv(hb, pb, ht, pt) /\ UnderWay(pb)
        /\ ~mixed => \E base \in Nat : SinkInv(base, ht, pt)
  BY Zenon DEF FlowInv
<1>7. /\ Numbers(queue, q, frames) /\ Numbers(header_queue, hb, q)
      /\ Numbers(psource.queue, pb, q)
      /\ q <= hb + 1 /\ (hb = q => q = frames) /\ pb <= hb
  BY <1>6, Zenon DEF ListInv
<1>8. hb <= q /\ q <= frames
  BY <1>2, <1>7, NumbersEmpty, Zenon
<1>9. \E q2 \in Nat : ListInv(q2, hb, pb)' /\ psource'.queue \in Seq(Nat)
  <2>1. CASE header_queue = << >>
    <3>1. hb = q /\ q = frames
      BY <1>7, <2>1, NumbersEmpty, Zenon
    <3>2. header_queue' = << hb + 1 >> /\ queue' = queue
          /\ psource'.queue = Append(psource.queue, q + 1) /\ frames' = q + 1
      BY <1>1, <1>2, <2>1, <3>1
    <3>3. Numbers(header_queue', hb, q + 1)
      <4>1. Numbers(<< hb + 1 >>, hb, hb + 1)
        BY NumbersFew, Zenon
      <4> QED BY <3>1, <3>2, <4>1, Zenon
    <3>4. Numbers(psource'.queue, pb, q + 1) /\ q + 1 \in Nat
      BY <1>7, <3>2, NumbersAppend, Zenon
    <3>5. Numbers(queue', q + 1, q + 1)
      <4>1. queue = << >>
        BY <1>2, <1>7, <3>1, NumbersEmpty, Zenon
      <4>2. Numbers(<< >>, q + 1, q + 1)
        BY <3>4, NumbersFew, Zenon
      <4> QED BY <3>2, <4>1, <4>2, Zenon
    <3>6. q + 1 <= hb + 1 /\ hb # q + 1
      BY <3>1
    <3> QED BY <1>7, <3>2, <3>3, <3>4, <3>5, <3>6, Zenon DEF ListInv, Numbers
  <2>2. CASE header_queue # << >>
    <3>1. hb # q
      BY <1>7, <2>2, NumbersEmpty, Zenon
    <3>2. header_queue' = header_queue /\ queue' = Append(queue, frames + 1)
          /\ psource' = psource /\ frames' = frames + 1
      BY <1>1, <2>2, Zenon
    <3>3. Numbers(queue', q, frames')
      <4>1. Numbers(Append(queue, frames + 1), q, frames + 1)
        BY <1>2, <1>7, NumbersAppend, Zenon
      <4> QED BY <3>2, <4>1, Zenon
    <3> QED BY <1>7, <3>1, <3>2, <3>3, Zenon DEF ListInv, Numbers
  <2> QED BY <2>1, <2>2
<1>10. WireInv(hb, pb, ht, pt)'
  BY <1>1, <1>4, <1>6, Zenon DEF WireInv
<1>11. UnderWay(pb)'
  <2>1. CASE psource.active
    <3>1. /\ pb \in 1 .. frames /\ psource.beat.no \in 1 .. len[pb]
          /\ psource.beat = BeatOf(pb, psource.beat.no)
          /\ psink.data = BeatsTo(pb, psource.beat.no - 1)
      BY <1>6, <2>1, Zenon DEF UnderWay
    <3>2. pb \in 1 .. frames' /\ len'[pb] = len[pb]
      BY <1>3, <3>1, Zenon
    <3> QED BY <1>1, <1>4, <3>1, <3>2, <2>1, Zenon DEF UnderWay, BeatsTo, BeatOf
  <2>2. CASE ~psource.active
    <3>1. psink'.data = << >>
      BY <1>1, <1>6, <2>2, Zenon DEF UnderWay
    <3> QED BY <1>4, <2>2, <3>1, Zenon DEF UnderWay
  <2> QED BY <2>1, <2>2
<1>12. ASSUME ~mixed' PROVE \E base \in Nat : SinkInv(base, ht, pt)'
  <2>1. PICK base \in Nat : SinkInv(base, ht, pt)
    BY <1>1, <1>6, <1>12, Zenon
  <2>2. /\ Numbers(sink_headers, base, ht) /\ Payloads(psink.queue, base, pt)
        /\ Received(base) /\ ~failed
    BY <2>1, Zenon DEF SinkInv
  <2>3. base <= ht /\ base <= pt
    BY <2>2, NumbersEmpty, PayloadsMove, Zenon
  <2>4. ht <= hb /\ pt <= pb
    BY <1>6 DEF WireInv, EpTypeOK
  <2>5. base <= frames /\ pt <= frames
    BY <1>2, <1>7, <1>8, <2>3, <2>4
  <2>6. Received(base)'
    <3>1. base <= base
      OBVIOUS
    <3> QED BY <1>1, <1>5, <2>2, <2>5, <3>1, ReceivedKeep, Zenon
  <2>7. Payloads(psink.queue, base, pt)'
    <3>1. /\ psink.queue \in Seq(Seq(Beat)) /\ Len(psink.queue) = pt - base
          /\ \A i \in 1 .. Len(psink.queue) : psink.queue[i] = Beats(base + i)
      BY <2>2, Zenon DEF Payloads
    <3>2. \A i \in 1 .. Len(psink.queue) : base + i \in 1 .. frames
      <4>1. frames \in Nat /\ pt <= frames
        BY <2>5 DEF EpTypeOK
      <4>2. \A i \in 1 .. (pt - base) : base + i \in 1 .. frames
        BY <4>1
      <4> QED BY <3>1, <4>2, Zenon
    <3>3. \A i \in 1 .. Len(psink.queue) : psink.queue[i] = Beats(base + i)'
      BY <1>5, <3>1, <3>2, Zenon
    <3> QED BY <1>1, <3>1, <3>3, Zenon DEF Payloads, Beats, BeatOf
  <2>8. Numbers(sink_headers, base, ht)' /\ ~failed'
    BY <1>1, <2>2, Zenon DEF Numbers
  <2> QED BY <2>6, <2>7, <2>8, Zenon DEF SinkInv
<1>13. FlowInv'
  BY <1>9, <1>10, <1>11, <1>12, Zenon DEF FlowInv
<1>14. EpTypeOK'
  <2>1. psource' \in [queue : Seq(Nat), active : BOOLEAN, beat : Beat, valid : BOOLEAN]
    <3>1. psource'.queue \in Seq(Nat)
      BY <1>9, Zenon
    <3>2. psource' = [queue |-> psource'.queue, active |-> psource'.active,
                      beat |-> psource'.beat, valid |-> psource'.valid]
      BY <1>1, <1>2
    <3>3. psource.active \in BOOLEAN /\ psource.beat \in Beat /\ psource.valid \in BOOLEAN
      BY <1>2
    <3> QED BY <1>4, <3>1, <3>2, <3>3
  <2> QED BY <1>1, <1>3, <2>1, Zenon DEF EpTypeOK
<1> QED BY <1>13, <1>14

(* The ARP end points have no payload: a frame is in queue, on the wires,  *)
(* or received.                                                            *)
ArpInv(q, ht) ==
  /\ Numbers(queue, q, frames)
  /\ active => q = ht + 1 /\ hdr = q
  /\ ~active => q = ht
  /\ hdr_valid => active
  /\ Received(ht) /\ sink_headers = << >> /\ ~failed

ArpFlow == \E q, ht \in Nat : ArpInv(q, ht)

(* An edge of the ARP end points.                                          *)
LEMMA ArpEdgeStep ==
  ASSUME EpTypeOK, layer = "arp", NEW p \in Flag, NEW pk \in Flag
  PROVE  /\ ArpFlow /\ ArpSource(p, pk) /\ ArpSink(pk)
         /\ UNCHANGED <<layer, len, mixed, frames, resets>>
         => EpTypeOK' /\ ArpFlow'
<1>0. SUFFICES ASSUME ArpFlow, ArpSource(p, pk), ArpSink(pk),
                      UNCHANGED <<layer, len, mixed, frames, resets>>
               PROVE  EpTypeOK' /\ ArpFlow'
  BY Zenon
<1>1. /\ active \in BOOLEAN /\ hdr_valid \in BOOLEAN /\ hdr_ready_int \in BOOLEAN /\ frames \in Nat
  BY DEF EpTypeOK
<1>2. PICK q \in Nat, ht \in Nat :
        /\ Numbers(queue, q, frames)
        /\ active => q = ht + 1 /\ hdr = q
        /\ ~active => q = ht
        /\ hdr_valid => active
        /\ Received(ht) /\ sink_headers = << >> /\ ~failed
  BY <1>0, Zenon DEF ArpFlow, ArpInv
<1>3. PICK acc \in Flag : acc <=> hdr_ready_int /\ ~pk /\ hdr_valid
  BY DEF Flag
<1>4. PICK hbeg \in Flag : hbeg <=> (~active \/ acc) /\ queue # << >>
  BY DEF Flag
<1>5. Accepted(pk) <=> acc
  BY <1>3, Zenon DEF Accepted
<1>6. /\ active' = ((active /\ ~acc) \/ hbeg)
      /\ hdr' = IF hbeg THEN Head(queue) ELSE hdr
      /\ hdr_valid' = IF hbeg THEN ~p ELSE ~acc /\ active /\ (hdr_valid \/ ~p)
  <2>1. Header(p, pk, queue)
    BY <1>0, Zenon DEF ArpSource
  <2>2. /\ active' = ((active /\ ~Accepted(pk)) \/ ((~active \/ Accepted(pk)) /\ queue # << >>))
        /\ hdr' = IF ((~active \/ Accepted(pk)) /\ queue # << >>) THEN Head(queue) ELSE hdr
        /\ hdr_valid' = IF ((~active \/ Accepted(pk)) /\ queue # << >>) THEN ~p
                        ELSE ~Accepted(pk) /\ active /\ (hdr_valid \/ ~p)
    BY <2>1, Zenon DEF Header
  <2> QED BY <1>1, <1>3, <1>4, <2>2 DEF Accepted, Flag
<1>7. /\ queue' = IF hbeg THEN Tail(queue) ELSE queue
      /\ header_queue' = header_queue /\ psource' = psource
      /\ hdr_ready_int' = TRUE
      /\ sink_queue' = IF acc THEN Append(sink_queue, [header |-> hdr, payload |-> << >>])
                       ELSE sink_queue
      /\ tready_int' = tready_int /\ sink_headers' = sink_headers
      /\ psink' = psink /\ failed' = failed
      /\ layer' = layer /\ len' = len /\ mixed' = mixed /\ frames' = frames /\ resets' = resets
  BY <1>0, <1>4, <1>5, Zenon DEF ArpSource, ArpSink, Rest
<1>8. EpTypeOK'
  <2>1. active' \in BOOLEAN /\ hdr_valid' \in BOOLEAN /\ hdr_ready_int' \in BOOLEAN
    BY <1>1, <1>6, <1>7 DEF Flag
  <2> QED BY <1>7, <2>1, Zenon DEF EpTypeOK
<1>9. PICK q2 \in Nat : /\ Numbers(queue', q2, frames)
                        /\ hbeg => q2 = q + 1 /\ Head(queue) = q2
                        /\ ~hbeg => q2 = q
  <2>1. CASE hbeg
    <3>1. /\ Head(queue) = q + 1 /\ Numbers(Tail(queue), q + 1, frames) /\ q + 1 \in Nat
      BY <1>1, <1>2, <1>4, <2>1, NumbersTail, Zenon
    <3> QED BY <1>7, <2>1, <3>1, Zenon
  <2>2. CASE ~hbeg
    BY <1>2, <1>7, <2>2, Zenon
  <2> QED BY <2>1, <2>2
<1>10. PICK h2 \in Nat : (acc => h2 = ht + 1) /\ (~acc => h2 = ht)
  <2>1. ht + 1 \in Nat
    OBVIOUS
  <2> QED BY <2>1, Zenon
<1>11. /\ active' => q2 = h2 + 1 /\ hdr' = q2
       /\ ~active' => q2 = h2
       /\ hdr_valid' => active'
  <2>1. acc => active
    BY <1>2, <1>3, Zenon
  <2> QED BY <1>1, <1>2, <1>4, <1>6, <1>9, <1>10, <2>1 DEF Flag
<1>12. Received(h2)'
  <2>1. CASE acc
    <3>1. hdr = ht + 1
      BY <1>2, <1>3, <2>1, Zenon
    <3>2. << >> \in Seq(Beat)
      OBVIOUS
    <3>3. << >> = Payload(ht + 1)
      BY Zenon DEF Payload
    <3>4. sink_queue' = Append(sink_queue, [header |-> ht + 1, payload |-> << >>])
      BY <1>7, <2>1, <3>1, Zenon
    <3>5. Received(ht + 1)'
      BY <1>2, <1>7, <3>2, <3>3, <3>4, ReceivedGrow, Zenon
    <3> QED BY <1>10, <2>1, <3>5, Zenon
  <2>2. CASE ~acc
    <3>1. ht <= ht /\ ht <= frames
      <4>1. q <= frames
        BY <1>1, <1>2, NumbersEmpty, Zenon
      <4> QED BY <1>1, <1>2, <4>1
    <3>2. \A f \in 1 .. frames : Beats(f)' = Beats(f)
      BY <1>7, Zenon DEF Beats, BeatOf
    <3>3. Received(ht)'
      BY <1>2, <1>7, <2>2, <3>1, <3>2, ReceivedKeep, Zenon
    <3> QED BY <1>10, <2>2, <3>3, Zenon
  <2> QED BY <2>1, <2>2
<1>13. ArpFlow'
  BY <1>2, <1>7, <1>9, <1>11, <1>12, Zenon DEF ArpFlow, ArpInv, Numbers
<1> QED BY <1>8, <1>13

(* A reset of the ARP end points loses the frame on the wires.             *)
LEMMA ArpResetStep ==
  ASSUME EpTypeOK, layer = "arp", ArpFlow, EpReset
  PROVE  EpTypeOK' /\ ArpFlow'
<1>1. /\ active' = FALSE /\ hdr_valid' = FALSE
      /\ psource' = [psource EXCEPT !.active = FALSE, !.valid = FALSE]
      /\ hdr_ready_int' = FALSE /\ tready_int' = FALSE
      /\ psink' = [psink EXCEPT !.data = << >>]
      /\ mixed' = (mixed \/ (layer # "arp" /\ ~Together)) /\ resets' = resets + 1
      /\ layer' = layer /\ queue' = queue
      /\ sink_headers' = sink_headers /\ sink_queue' = sink_queue /\ len' = len
      /\ failed' = failed /\ frames' = frames
  BY DEF EpReset
<1>2. /\ psource \in [queue : Seq(Nat), active : BOOLEAN, beat : Beat, valid : BOOLEAN]
      /\ psink \in [data : Seq(Beat), queue : Seq(Seq(Beat))]
      /\ frames \in Nat /\ resets \in Nat /\ mixed \in BOOLEAN
  BY DEF EpTypeOK
<1>3. EpTypeOK'
  <2>1. psource' \in [queue : Seq(Nat), active : BOOLEAN, beat : Beat, valid : BOOLEAN]
    BY <1>1, <1>2
  <2>2. psink' \in [data : Seq(Beat), queue : Seq(Seq(Beat))]
    <3>1. << >> \in Seq(Beat)
      OBVIOUS
    <3>2. psink' = [data |-> << >>, queue |-> psink.queue]
      BY <1>1, <1>2
    <3>3. psink.queue \in Seq(Seq(Beat))
      BY <1>2
    <3> QED BY <3>1, <3>2, <3>3
  <2>3. mixed' \in BOOLEAN /\ resets' \in Nat /\ resets' # 0
    BY <1>1, <1>2
  <2>4. /\ active' \in BOOLEAN /\ hdr_valid' \in BOOLEAN
        /\ hdr_ready_int' \in BOOLEAN /\ tready_int' \in BOOLEAN
    BY <1>1
  <2> QED BY <1>1, <2>1, <2>2, <2>3, <2>4, Zenon DEF EpTypeOK
<1>4. PICK q \in Nat, ht \in Nat : ArpInv(q, ht)
  BY Zenon DEF ArpFlow
<1>5. /\ Numbers(queue, q, frames) /\ Received(ht) /\ sink_headers = << >> /\ ~failed
  BY <1>4, Zenon DEF ArpInv
<1>6. Received(q)'
  <2>1. q <= frames
    BY <1>2, <1>5, NumbersEmpty, Zenon
  <2>2. ht <= q
    BY <1>4 DEF ArpInv, EpTypeOK
  <2>3. ht <= frames /\ resets' # 0
    BY <1>1, <1>2, <2>1, <2>2
  <2>4. \A f \in 1 .. frames : Beats(f)' = Beats(f)
    BY <1>1, Zenon DEF Beats, BeatOf
  <2> QED BY <1>1, <1>5, <2>2, <2>3, <2>4, ReceivedKeep, Zenon
<1>7. ArpInv(q, q)'
  BY <1>1, <1>5, <1>6, Zenon DEF ArpInv, Numbers
<1> QED BY <1>3, <1>7, Zenon DEF ArpFlow

(* A frame sent by the ARP source waits in queue.                          *)
LEMMA ArpSendStep ==
  ASSUME EpTypeOK, layer = "arp", ArpFlow, send
  PROVE  EpTypeOK' /\ ArpFlow'
<1>1. PICK l \in Lens :
        /\ frames' = frames + 1 /\ len' = Append(len, l)
        /\ queue' = Append(queue, frames + 1) /\ psource' = psource
        /\ layer' = layer /\ active' = active /\ hdr' = hdr /\ hdr_valid' = hdr_valid
        /\ hdr_ready_int' = hdr_ready_int /\ tready_int' = tready_int
        /\ sink_headers' = sink_headers /\ sink_queue' = sink_queue /\ psink' = psink
        /\ failed' = failed /\ mixed' = mixed /\ resets' = resets
  BY Zenon DEF send, epSink
<1>2. len \in Seq(Nat \ {0}) /\ Len(len) = frames /\ frames \in Nat
  BY DEF EpTypeOK
<1>3. /\ len' \in Seq(Nat \ {0}) /\ Len(len') = frames' /\ frames' \in Nat
      /\ \A f \in 1 .. frames : len'[f] = len[f]
  BY <1>1, <1>2, FrameEpAssumption
<1>4. EpTypeOK'
  BY <1>1, <1>3, Zenon DEF EpTypeOK
<1>5. PICK q \in Nat, ht \in Nat : ArpInv(q, ht)
  BY Zenon DEF ArpFlow
<1>6. /\ Numbers(queue, q, frames) /\ Received(ht)
  BY <1>5, Zenon DEF ArpInv
<1>7. Received(ht)'
  <2>1. q <= frames
    BY <1>2, <1>6, NumbersEmpty, Zenon
  <2>2. ht <= q
    BY <1>5 DEF ArpInv, EpTypeOK
  <2>3. ht <= frames /\ ht <= ht
    BY <1>2, <2>1, <2>2
  <2>4. \A f \in 1 .. frames : Beats(f)' = Beats(f)
    BY <1>3, Zenon DEF Beats, BeatOf
  <2> QED BY <1>1, <1>6, <2>3, <2>4, ReceivedKeep, Zenon
<1>8. Numbers(queue', q, frames')
  <2>1. Numbers(Append(queue, frames + 1), q, frames + 1)
    BY <1>2, <1>6, NumbersAppend, Zenon
  <2> QED BY <1>1, <2>1, Zenon
<1>9. ArpInv(q, ht)'
  BY <1>1, <1>5, <1>7, <1>8, Zenon DEF ArpInv, Numbers
<1> QED BY <1>4, <1>9, Zenon DEF ArpFlow

(* The inductive invariant of the end points.                              *)
EpInv ==
  /\ EpTypeOK
  /\ layer # "arp" => FlowInv
  /\ layer = "arp" => ArpFlow

(* It holds at first: no frame is anywhere.                                *)
LEMMA EpInvInit == EpInit => EpInv
<1> SUFFICES ASSUME EpInit PROVE EpInv
  OBVIOUS
<1>1. /\ layer \in Layers
      /\ queue = << >> /\ header_queue = << >> /\ active = FALSE
      /\ hdr = 0 /\ hdr_valid = FALSE
      /\ psource = [queue |-> << >>, active |-> FALSE, beat |-> NoBeat, valid |-> FALSE]
      /\ hdr_ready_int = FALSE /\ tready_int = FALSE
      /\ sink_headers = << >> /\ sink_queue = << >>
      /\ psink = [data |-> << >>, queue |-> << >>]
      /\ len = << >> /\ mixed = FALSE /\ failed = FALSE /\ frames = 0 /\ resets = 0
  BY DEF EpInit
<1>2. /\ psource.queue = << >> /\ ~psource.active /\ ~psource.valid
      /\ psink.data = << >> /\ psink.queue = << >>
  BY <1>1
<1>3. EpTypeOK
  <2>1. NoBeat \in Beat
    BY DEF NoBeat, Beat
  <2>2. /\ << >> \in Seq(Nat) /\ << >> \in Seq(Beat) /\ << >> \in Seq(Seq(Beat))
        /\ << >> \in Seq(Nat \ {0}) /\ Len(<< >>) = 0 /\ 0 \in Nat
    OBVIOUS
  <2>3. psource \in [queue : Seq(Nat), active : BOOLEAN, beat : Beat, valid : BOOLEAN]
    BY <1>1, <2>1, <2>2
  <2>4. psink \in [data : Seq(Beat), queue : Seq(Seq(Beat))]
    BY <1>1, <2>2
  <2> QED BY <1>1, <2>2, <2>3, <2>4 DEF EpTypeOK
<1>4. 0 \in Nat /\ Numbers(<< >>, 0, 0)
  <2>1. 0 \in Nat
    OBVIOUS
  <2> QED BY <2>1, NumbersFew, Zenon
<1>5. Received(0)
  <2>1. /\ << >> \in Seq([header : Nat, payload : Seq(Beat)]) /\ Len(<< >>) = 0
        /\ \A i \in 1 .. Len(<< >>) : FALSE
    OBVIOUS
  <2> QED BY <1>1, <2>1, Zenon DEF Received
<1>6. FlowInv
  <2>1. ListInv(0, 0, 0)
    <3>1. 0 <= 0 + 1 /\ 0 <= 0
      OBVIOUS
    <3> QED BY <1>1, <1>2, <1>4, <3>1, Zenon DEF ListInv
  <2>2. WireInv(0, 0, 0, 0) /\ UnderWay(0)
    BY <1>1, <1>2, Zenon DEF WireInv, UnderWay
  <2>3. SinkInv(0, 0, 0)
    <3>1. Payloads(psink.queue, 0, 0)
      <4>1. << >> \in Seq(Seq(Beat)) /\ Len(<< >>) = 0 - 0 /\ \A i \in 1 .. Len(<< >>) : FALSE
        OBVIOUS
      <4> QED BY <1>2, <4>1, Zenon DEF Payloads
    <3> QED BY <1>1, <1>4, <1>5, <3>1, Zenon DEF SinkInv
  <2> QED BY <1>4, <2>1, <2>2, <2>3, Zenon DEF FlowInv
<1>7. ArpFlow
  BY <1>1, <1>4, <1>5, Zenon DEF ArpFlow, ArpInv
<1> QED BY <1>3, <1>6, <1>7 DEF EpInv

(* Every step keeps it.                                                    *)
LEMMA EpInvNext == EpInv /\ [EpNext]_epVars => EpInv'
<1> SUFFICES ASSUME EpInv, [EpNext]_epVars PROVE EpInv'
  OBVIOUS
<1>1. EpTypeOK /\ (layer # "arp" => FlowInv) /\ (layer = "arp" => ArpFlow)
  BY Zenon DEF EpInv
<1>2. ASSUME EpEdge PROVE EpInv'
  <2>1. UNCHANGED <<layer, len, mixed, frames, resets>>
    BY <1>2, Zenon DEF EpEdge
  <2>2. layer' = layer
    BY <2>1
  <2>3. PICK p \in Flag, pk \in Flag :
          \/ /\ \E early \in Flag :
                  EthSource(p, pk, early) \/ IpSource(p, pk, early) \/ UdpSource(p, pk, early)
             /\ \E early \in Flag :
                  EthSink(pk, early) \/ IpSink(pk, early) \/ UdpSink(pk, early)
          \/ ArpSource(p, pk) /\ ArpSink(pk)
    BY <1>2, Zenon DEF EpEdge, Flag
  <2>4. CASE ArpSource(p, pk) /\ ArpSink(pk)
    <3>1. layer = "arp"
      BY <2>4, Zenon DEF ArpSource
    <3>2. EpTypeOK' /\ ArpFlow'
      BY <1>1, <2>1, <2>4, <3>1, ArpEdgeStep, Zenon
    <3> QED BY <2>2, <3>1, <3>2, Zenon DEF EpInv
  <2>5. CASE ~(ArpSource(p, pk) /\ ArpSink(pk))
    <3>1. PICK early \in Flag :
            EthSource(p, pk, early) \/ IpSource(p, pk, early) \/ UdpSource(p, pk, early)
      BY <2>3, <2>5, Zenon
    <3>2. PICK soon \in Flag : EthSink(pk, soon) \/ IpSink(pk, soon) \/ UdpSink(pk, soon)
      BY <2>3, <2>5, Zenon
    <3>3. FrameSource(p, pk, early)
      BY <3>1, Zenon DEF EthSource, IpSource, UdpSource
    <3>4. layer # "arp"
      BY <3>1 DEF EthSource, IpSource, UdpSource
    <3>5. TRUE \in Flag /\ FALSE \in Flag
      BY DEF Flag
    <3>6. PICK asserts \in Flag : FrameSink(pk, soon, asserts)
      BY <3>2, <3>5, Zenon DEF EthSink, IpSink, UdpSink
    <3>7. EpTypeOK' /\ FlowInv'
      BY <1>1, <2>1, <3>3, <3>4, <3>6, EdgeStep, Zenon
    <3> QED BY <2>2, <3>4, <3>7, Zenon DEF EpInv
  <2> QED BY <2>4, <2>5
<1>3. ASSUME EpReset PROVE EpInv'
  <2>1. layer' = layer
    BY <1>3, Zenon DEF EpReset
  <2>2. CASE layer = "arp"
    BY <1>1, <1>3, <2>1, <2>2, ArpResetStep, Zenon DEF EpInv
  <2>3. CASE layer # "arp"
    BY <1>1, <1>3, <2>1, <2>3, ResetStep, Zenon DEF EpInv
  <2> QED BY <2>2, <2>3
<1>4. ASSUME send PROVE EpInv'
  <2>1. layer' = layer
    BY <1>4, Zenon DEF send
  <2>2. CASE layer = "arp"
    BY <1>1, <1>4, <2>1, <2>2, ArpSendStep, Zenon DEF EpInv
  <2>3. CASE layer # "arp"
    BY <1>1, <1>4, <2>1, <2>3, SendStep, Zenon DEF EpInv
  <2> QED BY <2>2, <2>3
<1>5. ASSUME UNCHANGED epVars PROVE EpInv'
  <2>1. /\ layer' = layer /\ queue' = queue /\ header_queue' = header_queue /\ active' = active
        /\ hdr' = hdr /\ hdr_valid' = hdr_valid /\ psource' = psource
        /\ hdr_ready_int' = hdr_ready_int /\ tready_int' = tready_int
        /\ sink_headers' = sink_headers /\ sink_queue' = sink_queue /\ psink' = psink
        /\ failed' = failed /\ len' = len /\ mixed' = mixed /\ frames' = frames
        /\ resets' = resets
    BY <1>5 DEF epVars, epSource, epSink
  <2>2. EpTypeOK'
    BY <1>1, <2>1, Zenon DEF EpTypeOK
  <2>3. \A base \in Nat : Received(base) => Received(base)'
    BY <2>1, Zenon DEF Received, Payload, Beats, BeatOf
  <2>4. layer # "arp" => FlowInv'
    <3> SUFFICES ASSUME FlowInv PROVE FlowInv'
      BY <1>1
    <3>1. PICK q \in Nat, hb \in Nat, pb \in Nat, ht \in Nat, pt \in Nat :
            /\ ListInv(q, hb, pb) /\ WireInv(hb, pb, ht, pt) /\ UnderWay(pb)
            /\ ~mixed => \E base \in Nat : SinkInv(base, ht, pt)
      BY Zenon DEF FlowInv
    <3>2. ListInv(q, hb, pb)' /\ WireInv(hb, pb, ht, pt)'
      BY <2>1, <3>1, Zenon DEF ListInv, WireInv, Numbers
    <3>3. UnderWay(pb)'
      BY <2>1, <3>1, Zenon DEF UnderWay, BeatsTo, BeatOf
    <3>4. \A base \in Nat : SinkInv(base, ht, pt) => SinkInv(base, ht, pt)'
      <4> SUFFICES ASSUME NEW base \in Nat, SinkInv(base, ht, pt) PROVE SinkInv(base, ht, pt)'
        OBVIOUS
      <4>1. Numbers(sink_headers, base, ht)' /\ ~failed'
        BY <2>1, Zenon DEF SinkInv, Numbers
      <4>2. Payloads(psink.queue, base, pt)'
        BY <2>1, Zenon DEF SinkInv, Payloads, Beats, BeatOf
      <4> QED BY <2>3, <4>1, <4>2, Zenon DEF SinkInv
    <3> QED BY <2>1, <3>1, <3>2, <3>3, <3>4, Zenon DEF FlowInv
  <2>5. layer = "arp" => ArpFlow'
    <3> SUFFICES ASSUME ArpFlow PROVE ArpFlow'
      BY <1>1
    <3>1. PICK q \in Nat, ht \in Nat : ArpInv(q, ht)
      BY Zenon DEF ArpFlow
    <3>2. ArpInv(q, ht)'
      BY <2>1, <2>3, <3>1, Zenon DEF ArpInv, Numbers
    <3> QED BY <3>2, Zenon DEF ArpFlow
  <2> QED BY <2>1, <2>2, <2>4, <2>5, Zenon DEF EpInv
<1> QED BY <1>2, <1>3, <1>4, <1>5, Zenon DEF EpNext

(* The end points always are in the invariant.                             *)
LEMMA EpAlways == EpSpec => []EpInv
<1> QED BY EpInvInit, EpInvNext, PTL DEF EpSpec

(* The types of the end points hold (udp_ep.py:320-480, axis_ep.py:150-375)*)
(* for every length of payload and any number of frames and resets.        *)
THEOREM EpTypesHold == EpSpec => []EpTypeOK
<1>1. EpInv => EpTypeOK
  BY Zenon DEF EpInv
<1> QED BY <1>1, EpAlways, PTL

(* However source and sink pause and the processes of an edge are ordered, *)
(* every frame received is one sent, header with its own payload, whole    *)
(* and in order, and no assertion of a sink fails, unless a reset came     *)
(* between a header and its payload                                        *)
(* (udp_ep.py:356-362,433-476,605-616, axis_ep.py:335-375).                *)
THEOREM OwnPayloadHolds == EpSpec => []OwnPayload
<1>1. EpInv => OwnPayload
  <2> SUFFICES ASSUME EpInv, ~mixed PROVE OwnPayload
    BY Zenon DEF OwnPayload
  <2>1. PICK base \in Nat : Received(base) /\ ~failed
    BY Zenon DEF EpInv, FlowInv, SinkInv, ArpFlow, ArpInv
  <2>2. PICK n \in Nat : n = Len(sink_queue)
    BY <2>1, LenProperties, Zenon DEF Received
  <2>3. DOMAIN sink_queue = 1 .. Len(sink_queue)
    BY <2>1, LenProperties, Zenon DEF Received
  <2>4. \A i \in 1 .. Len(sink_queue) :
          /\ sink_queue[i].payload = Payload(sink_queue[i].header)
          /\ resets = 0 => sink_queue[i].header = i
          /\ i > 1 => sink_queue[i - 1].header < sink_queue[i].header
    BY <2>1, Zenon DEF Received
  <2> QED BY <2>1, <2>3, <2>4, Zenon DEF OwnPayload, Payload
<1> QED BY <1>1, EpAlways, PTL

(* When a source that no reset has met says that it is idle, every frame   *)
(* sent is in the sink, header and payload (udp_ep.py:370-375).            *)
THEOREM IdleMeansTakenHolds == EpSpec => []IdleMeansTaken
<1>1. EpInv => IdleMeansTaken
  <2> SUFFICES ASSUME EpInv, resets = 0, idle
               PROVE  /\ Len(sink_queue) + Len(sink_headers) = frames
                      /\ layer # "arp" => Len(sink_queue) + Len(psink.queue) = frames
    BY Zenon DEF IdleMeansTaken
  <2>1. frames \in Nat /\ ~mixed
    BY Zenon DEF EpInv, EpTypeOK
  <2>2. CASE layer = "arp"
    <3>1. PICK q \in Nat, ht \in Nat : ArpInv(q, ht)
      BY <2>2, Zenon DEF EpInv, ArpFlow
    <3>2. queue = << >> /\ ~active
      BY <2>2, Zenon DEF idle
    <3>3. q = frames /\ q = ht
      BY <2>1, <3>1, <3>2, NumbersEmpty, Zenon DEF ArpInv
    <3>4. Len(sink_queue) = ht /\ sink_headers = << >>
      BY <3>1, Zenon DEF ArpInv, Received
    <3> QED BY <2>1, <2>2, <3>3, <3>4
  <2>3. CASE layer # "arp"
    <3>1. PICK q \in Nat, hb \in Nat, pb \in Nat, ht \in Nat, pt \in Nat, base \in Nat :
            ListInv(q, hb, pb) /\ WireInv(hb, pb, ht, pt) /\ SinkInv(base, ht, pt)
      BY <2>1, <2>3, Zenon DEF EpInv, FlowInv
    <3>2. queue = << >> /\ ~active /\ psource.queue = << >> /\ ~psource.active
      BY <2>3, Zenon DEF idle
    <3>3. /\ Numbers(queue, q, frames) /\ Numbers(header_queue, hb, q)
          /\ Numbers(psource.queue, pb, q) /\ pb <= hb
      BY <3>1, Zenon DEF ListInv
    <3>4. q = frames /\ pb = q /\ hb <= q
      BY <2>1, <3>2, <3>3, NumbersEmpty, Zenon
    <3>5. hb = ht /\ pb = pt
      BY <3>1, <3>2, Zenon DEF WireInv
    <3>6. ht = frames /\ pt = frames
      BY <2>1, <3>3, <3>4, <3>5
    <3>7. Len(sink_queue) = base /\ Len(sink_headers) = ht - base /\ Len(psink.queue) = pt - base
      BY <3>1, Zenon DEF SinkInv, Received, Numbers, Payloads
    <3> QED BY <2>1, <3>6, <3>7
  <2> QED BY <2>2, <2>3
<1> QED BY <1>1, EpAlways, PTL
=============================================================================
