----------------------------- MODULE EventLog -----------------------------
(***************************************************************************)
(* What a session's transcript promises to the gateway: one append-only    *)
(* sequence of events numbered 1, 2, 3, ...; an event is acknowledged to   *)
(* the caller after it is durable and before the next one is written, or   *)
(* never; deleting the session forgets everything.  The promise ends with  *)
(* a damage that is not repaired, and starts again with a new transcript.  *)
(***************************************************************************)
EXTENDS Naturals, Sequences

VARIABLES durable, acked, intact

Init == durable = <<>> /\ acked = <<>> /\ intact = TRUE

Write ==
  /\ intact
  /\ durable' = Append(durable, Len(durable) + 1)
  /\ UNCHANGED <<acked, intact>>

Acknowledge ==
  /\ intact
  /\ durable # <<>>
  /\ acked # <<>> => acked[Len(acked)] # durable[Len(durable)]
  /\ acked' = Append(acked, durable[Len(durable)])
  /\ UNCHANGED <<durable, intact>>

\* The first event is seen no sooner than it is acknowledged.
WriteAcknowledged ==
  /\ intact
  /\ durable' = Append(durable, Len(durable) + 1)
  /\ acked' = Append(acked, Len(durable) + 1)
  /\ UNCHANGED intact

Forget == durable' = <<>> /\ acked' = <<>> /\ intact' = TRUE

\* What was acknowledged stays acknowledged, whether or not it can still be read.
Damage == intact /\ intact' = FALSE /\ UNCHANGED acked

Damaged == ~ intact /\ ~ intact'

Next == Write \/ Acknowledge \/ WriteAcknowledged \/ Forget \/ Damage \/ Damaged

Spec == Init /\ [][Next]_<<durable, acked, intact>>
=============================================================================
