---------------------------- MODULE FrameChannel ----------------------------
(***************************************************************************)
(* What a connection's writer promises its owner, without queue, strand or *)
(* operations in flight: frames are taken in one after the other; each, in *)
(* that order, is either sent or, if it is a notification, given up; and   *)
(* the channel may stop at any point.  Nothing is sent twice, nothing      *)
(* overtakes, and no call or response is skipped.                          *)
(***************************************************************************)
EXTENDS Naturals, Sequences

CONSTANTS Calls, Notifies

VARIABLES
  taken,    \* the frames taken in, in order
  settled,  \* how many of them, from the front, were sent or given up
  sent      \* the frames sent, in order

chanVars == <<taken, settled, sent>>

ChanInit ==
  /\ taken = <<>>
  /\ settled = 0
  /\ sent = <<>>

Take(f) ==
  /\ taken' = Append(taken, f)
  /\ UNCHANGED <<settled, sent>>

Send ==
  /\ settled < Len(taken)
  /\ settled' = settled + 1
  /\ sent' = Append(sent, taken[settled + 1])
  /\ UNCHANGED taken

GiveUp ==
  /\ settled < Len(taken)
  /\ taken[settled + 1] \in Notifies
  /\ settled' = settled + 1
  /\ UNCHANGED <<taken, sent>>

ChanNext ==
  \/ \E f \in Calls \cup Notifies : Take(f)
  \/ Send
  \/ GiveUp

ChanSpec == ChanInit /\ [][ChanNext]_chanVars

=============================================================================
