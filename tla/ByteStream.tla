----------------------------- MODULE ByteStream -----------------------------
(***************************************************************************)
(* What the read functions of src/src/ftdi.c promise together: the         *)
(* application gets the bytes of the chip in order, each at most once, and *)
(* none is missing unless a call reported it (an error, a cancelled        *)
(* transfer) or the application asked for it (a flush).                    *)
(***************************************************************************)
EXTENDS Naturals, Sequences

VARIABLES
    sent,    \* bytes 1..sent have left the chip
    pending, \* those of them that are on their way, in order
    got,     \* what the application has received
    report   \* flips whenever a call reports, or requests, a loss

streamVars == <<sent, pending, got, report>>

Init == sent = 0 /\ pending = <<>> /\ got = <<>> /\ report = FALSE

\* All that is on its way once the chip has sent more.
Sent(more) == pending \o [i \in 1..(more - sent) |-> sent + i]

Send ==
    /\ sent' > sent
    /\ pending' = Sent(sent')
    /\ UNCHANGED <<got, report>>

\* A call returns with the next bytes; a synchronous read has taken some of
\* them from the chip in the same step.
Receive ==
    /\ sent' >= sent
    /\ \E n \in 0..Len(Sent(sent')) :
          /\ got' = got \o SubSeq(Sent(sent'), 1, n)
          /\ pending' = SubSeq(Sent(sent'), n + 1, Len(Sent(sent')))
    /\ UNCHANGED report

\* Bytes are lost, and the application is told.  A failing transfer may have
\* taken them from the chip in the same step.
Lose ==
    /\ sent' >= sent
    /\ \E j \in 0..Len(Sent(sent')) : \E i \in 0..j :
          pending' = SubSeq(Sent(sent'), 1, i)
                       \o SubSeq(Sent(sent'), j + 1, Len(Sent(sent')))
    /\ report' = ~report
    /\ UNCHANGED got

Next == Send \/ Receive \/ Lose

Spec == Init /\ [][Next]_streamVars
=============================================================================
