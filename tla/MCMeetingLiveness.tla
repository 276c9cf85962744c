------------------------- MODULE MCMeetingLiveness --------------------------
(* What must happen in a meeting in the end: Meeting with one participant over *)
(* three connections, and Mailboxes of one slot with three participants.  Each *)
(* behaviour runs one of the two.  The other one stays as it began, with no    *)
(* fair action enabled, so that the fairness of both can be asked of every     *)
(* behaviour.                                                                  *)
EXTENDS Meeting, Mailboxes, TLC

CONSTANTS p1, c1, c2, c3

VARIABLE part
partVars == <<part, vars, mailVars>>

OnePid     == {p1}
ThreeConns == {c1, c2, c3}
NoOne      == {}

PartsInit == part \in {"meeting", "mailboxes"} /\ Init /\ MailInit
PartsNext ==
    /\ UNCHANGED part
    /\ \/ part = "meeting" /\ Next /\ UNCHANGED mailVars
       \/ part = "mailboxes" /\ MailNext /\ UNCHANGED vars
PartsSpec == PartsInit /\ [][PartsNext]_partVars /\ Fairness /\ MailFairness
=============================================================================
