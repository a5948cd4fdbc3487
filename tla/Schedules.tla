----------------------------- MODULE Schedules ------------------------------
(***************************************************************************)
(* A recurring schedule of a merchant (schedules.service.ts).  An update   *)
(* reads the row and then writes it: the interval it writes is its own or  *)
(* the one it has read, and the date of the next run follows only when the *)
(* update brings an interval.  Nothing in src runs a schedule.             *)
(*                                                                         *)
(* Abstractions.  A date is the interval it was computed from and the      *)
(* update that computed it; recipient and amount are one column, written   *)
(* when given (COALESCE).                                                  *)
(***************************************************************************)
EXTENDS Integers, FiniteSets

CONSTANTS
    Updates,    \* calls of PATCH /schedules/:id
    Intervals, Kept     \* 'daily', 'weekly', 'monthly'; Kept when not given

ASSUME SchedulesAssumption == Kept \notin Intervals /\ Intervals # {}

ScheduleStatuses == {"active", "paused", "cancelled"}

VARIABLES
    interval, status, nextRun,  \* the row; nextRun is the interval it follows
    update,     \* what each call brings, has read and is doing
    overlapped  \* an update wrote between another's read and write

schedulesVars == <<interval, status, nextRun, update, overlapped>>

NoUpdate == [pc |-> "idle", interval |-> Kept, status |-> "kept", read |-> Kept]

SchedulesInit ==
    /\ interval \in Intervals /\ nextRun = interval /\ status = "active"
    /\ update = [u \in Updates |-> NoUpdate] /\ overlapped = FALSE

\* get
ReadSchedule(u, i, s) ==
    /\ update[u].pc = "idle"
    /\ update' = [update EXCEPT ![u] =
                     [pc |-> "write", interval |-> i, status |-> s, read |-> interval]]
    /\ UNCHANGED <<interval, status, nextRun, overlapped>>

\* Mutant: the date of the next run stays.
WriteUndated(u) ==
    /\ update[u].pc = "write"
    /\ interval' = IF update[u].interval = Kept THEN update[u].read ELSE update[u].interval
    /\ status' = IF update[u].status = "kept" THEN status ELSE update[u].status
    /\ update' = [update EXCEPT ![u].pc = "done"]
    /\ overlapped' = (overlapped \/ \E v \in Updates \ {u} : update[v].pc = "write")
    /\ UNCHANGED nextRun

WriteSchedule(u) ==
    /\ update[u].pc = "write"
    /\ interval' = IF update[u].interval = Kept THEN update[u].read ELSE update[u].interval
    /\ nextRun' = IF update[u].interval = Kept THEN nextRun ELSE update[u].interval
    /\ status' = IF update[u].status = "kept" THEN status ELSE update[u].status
    /\ update' = [update EXCEPT ![u].pc = "done"]
    /\ overlapped' = (overlapped \/ \E v \in Updates \ {u} : update[v].pc = "write")

UpdateFails(u) ==
    /\ update[u].pc = "write"
    /\ update' = [update EXCEPT ![u].pc = "done"]
    /\ UNCHANGED <<interval, status, nextRun, overlapped>>

\* remove: it may be reactivated by an update
RemoveSchedule ==
    /\ status' = "cancelled"
    /\ UNCHANGED <<interval, nextRun, update, overlapped>>

SchedulesNext ==
    \/ \E u \in Updates :
          \/ \E i \in Intervals \union {Kept}, s \in ScheduleStatuses \union {"kept"} :
                ReadSchedule(u, i, s)
          \/ WriteSchedule(u) \/ UpdateFails(u)
    \/ RemoveSchedule

SchedulesSpec == SchedulesInit /\ [][SchedulesNext]_schedulesVars

-----------------------------------------------------------------------------
SchedulesTypeOK ==
    /\ interval \in Intervals /\ nextRun \in Intervals /\ status \in ScheduleStatuses
    /\ overlapped \in BOOLEAN
    /\ update \in [Updates -> [pc : {"idle", "write", "done"}, interval : Intervals \union {Kept},
                               status : ScheduleStatuses \union {"kept"},
                               read : Intervals \union {Kept}]]

\* The next run is dated by the interval the schedule has, unless two updates
\* overlapped: the one that brings no interval writes back the interval it
\* has read and leaves the date of the other (update, lines 78-85).
DateFollowsInterval == overlapped \/ nextRun = interval
=============================================================================
