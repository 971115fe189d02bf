----------------------------- MODULE EventQueue -----------------------------
(***************************************************************************)
(* What a time-stamping unit promises to the firmware: the event frames,   *)
(* in the order of their arrival, each with the stamp of its own start.    *)
(* A frame may be left out only when the writer has no credit, a credit    *)
(* being an entry it knows to be free; the reader returns the credit of an *)
(* entry some time after it has taken it.                                  *)
(***************************************************************************)
EXTENDS Integers, Sequences

CONSTANTS Depth, MaxFrames

VARIABLES
  events,  \* the frames that carry an event, chosen at the start
  last,    \* the last frame that was dealt with
  q,       \* the entries
  credit   \* the entries the writer knows to be free

queueVars == <<events, last, q, credit>>

QueueInit ==
  /\ events \in SUBSET (1 .. MaxFrames)
  /\ last = 0 /\ q = << >> /\ credit = Depth

(* The writer keeps the credit c and may learn of entries given back.      *)
Credit(c) == credit' \in c .. Depth - Len(q')

Frame == last < MaxFrames /\ last' = last + 1 /\ UNCHANGED events

Report == /\ Frame /\ last' \in events /\ credit > 0
          /\ q' = Append(q, [frame |-> last', stamp |-> last'])
          /\ Credit(credit - 1)

Overflow == Frame /\ last' \in events /\ credit = 0 /\ q' = q /\ Credit(0)

Ignore == Frame /\ last' \notin events /\ q' = q /\ Credit(credit)

Reclaim == q' = q /\ Credit(credit + 1) /\ UNCHANGED <<events, last>>

Take == q # << >> /\ q' = Tail(q) /\ UNCHANGED <<events, last, credit>>

Reset == q' = << >> /\ credit' = Depth /\ UNCHANGED <<events, last>>

QueueNext == Report \/ Overflow \/ Ignore \/ Take \/ Reclaim \/ Reset

QueueSpec == QueueInit /\ [][QueueNext]_queueVars
=============================================================================
