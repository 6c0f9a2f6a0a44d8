------------------------- MODULE MCRepairLifecycle -------------------------
(***************************************************************************)
(* Model values and small sets for model checking RepairLifecycle.         *)
(***************************************************************************)
EXTENDS RepairLifecycle, TLC, Functions

CONSTANTS t1, t2, a1, a2, a3, w1, s1

OneTicket == {t1}
TwoTickets == {t1, t2}
ThreeAppointments == {a1, a2, a3}

\* Two slots that touch without overlapping and one that overlaps both.
Early == [from |-> 1, to |-> 3]
Late == [from |-> 3, to |-> 5]
Middle == [from |-> 2, to |-> 4]
AllSlots == {Early, Middle, Late}
OneSlot == {Early}

EveryPair == {w1} \X {Early, Middle, Late}

Identities == Permutations(Tickets) \cup Permutations(Appointments)

\* Two regions of one run: long histories of a single ticket, whose visits all take the
\* early slot, and short ones in which two tickets compete for the worker's calendar.
LongAlone == /\ \E t \in Tickets : \A u \in Tickets \ {t} : ticket[u].status = "ABSENT"
                                                 /\ \A c \in creating : c.ticket # u
             /\ \A a \in Appointments : appointment[a].slot \in {Early, NoAppointment.slot}
ShortTogether == FoldFunctionOnSet(LAMBDA t, sum : t.version + sum, 0, ticket, Tickets) <= 5
LongOrShort == LongAlone \/ ShortTogether
=============================================================================
