----------------------------- MODULE Compliance -----------------------------
(***************************************************************************)
(* The combined check of a payment (compliance.service.ts): the screening  *)
(* of the payer, cached in Redis for an hour, and the volume of the        *)
(* merchant in the present hour, kept in a sorted set that each check adds *)
(* to and then reads.  The two run side by side (Promise.all).             *)
(*                                                                         *)
(* Abstractions.  One merchant.  A verdict is one of three, and the        *)
(* provider may give any; a failed or late answer of it is "review".  The  *)
(* members of the sorted set are amounts, so equal amounts of one hour are *)
(* one member.  A key outlives its hour (EXPIRE 7200).                     *)
(***************************************************************************)
EXTENDS Integers, FiniteSetsExt

CONSTANTS
    Checks,     \* calls of combinedCheck
    Payers,     \* addresses
    Cents,      \* amounts
    VelocityLimit,  \* VELOCITY_LIMIT_PER_HOUR_CENTS
    MaxClock    \* bound: hours that begin

ASSUME ComplianceAssumption ==
    /\ Payers # {} /\ Cents \subseteq Nat \ {0}
    /\ VelocityLimit \in Nat /\ MaxClock \in Nat \ {0}

Verdicts == {"clear", "review", "blocked"}

VARIABLES
    clock,      \* the present hour
    velocity,   \* the set under velocity:<merchant>:<hour>
    cached,     \* the verdict under ofac:<address>, as a set of at most one
    check       \* what each call is doing

complianceVars == <<clock, velocity, cached, check>>

\* vel: "idle", "add", "read", then the verdict on the volume
NoCheck == [vel |-> "idle", screen |-> "idle", payer |-> CHOOSE p \in Payers : TRUE,
            cents |-> 0, hour |-> 0]

ComplianceInit ==
    /\ clock = 1 /\ velocity = [h \in 1..MaxClock |-> {}]
    /\ cached = [p \in Payers |-> {}]
    /\ check = [c \in Checks |-> NoCheck]

NextHour ==
    /\ clock < MaxClock /\ clock' = clock + 1
    /\ UNCHANGED <<velocity, cached, check>>

\* The hour of the key is that of the beginning.
BeginCheck(c, p, cents) ==
    /\ check[c].vel = "idle"
    /\ check' = [check EXCEPT ![c] = [vel |-> "add", screen |-> "get", payer |-> p,
                                      cents |-> cents, hour |-> clock]]
    /\ UNCHANGED <<clock, velocity, cached>>

\* zadd: the member is the amount
AddVolume(c) ==
    /\ check[c].vel = "add"
    /\ velocity' = [velocity EXCEPT ![check[c].hour] = @ \union {check[c].cents}]
    /\ check' = [check EXCEPT ![c].vel = "read"]
    /\ UNCHANGED <<clock, cached>>

Identity(x) == x
Total(amounts) == MapThenSumSet(Identity, amounts)

\* Mutant: the volume is that of the other payments.
ReadVolumeOfOthers(c) ==
    /\ check[c].vel = "read"
    /\ check' = [check EXCEPT ![c].vel =
                    IF Total(velocity[check[c].hour] \ {check[c].cents}) <= VelocityLimit
                    THEN "within" ELSE "over"]
    /\ UNCHANGED <<clock, velocity, cached>>

\* zrange and the sum of its members
ReadVolume(c) ==
    /\ check[c].vel = "read"
    /\ check' = [check EXCEPT ![c].vel =
                    IF Total(velocity[check[c].hour]) <= VelocityLimit THEN "within" ELSE "over"]
    /\ UNCHANGED <<clock, velocity, cached>>

GetVerdict(c) ==
    /\ check[c].screen = "get"
    /\ check' = [check EXCEPT ![c].screen =
                    IF cached[check[c].payer] = {} THEN "ask"
                    ELSE CHOOSE v \in cached[check[c].payer] : TRUE]
    /\ UNCHANGED <<clock, velocity, cached>>

\* The provider's answer, and cache: SET with EX 3600
AskProvider(c, verdict) ==
    /\ check[c].screen = "ask"
    /\ cached' = [cached EXCEPT ![check[c].payer] = {verdict}]
    /\ check' = [check EXCEPT ![c].screen = verdict]
    /\ UNCHANGED <<clock, velocity>>

VerdictExpires(p) ==
    /\ cached[p] # {} /\ cached' = [cached EXCEPT ![p] = {}]
    /\ UNCHANGED <<clock, velocity, check>>

\* combinedCheck, when both have answered
Combined(c) ==
    IF check[c].vel = "over" /\ check[c].screen = "clear" THEN "review" ELSE check[c].screen
Answered(c) == check[c].vel \in {"within", "over"} /\ check[c].screen \in Verdicts

ComplianceNext ==
    \/ NextHour
    \/ \E c \in Checks :
          \/ \E p \in Payers, cents \in Cents : BeginCheck(c, p, cents)
          \/ AddVolume(c) \/ ReadVolume(c) \/ GetVerdict(c)
          \/ \E verdict \in Verdicts : AskProvider(c, verdict)
    \/ \E p \in Payers : VerdictExpires(p)

ComplianceSpec == ComplianceInit /\ [][ComplianceNext]_complianceVars

-----------------------------------------------------------------------------
ComplianceTypeOK ==
    /\ clock \in 1..MaxClock /\ velocity \in [1..MaxClock -> SUBSET Cents]
    /\ cached \in [Payers -> SUBSET Verdicts]
    /\ check \in [Checks -> [vel : {"idle", "add", "read", "within", "over"},
                             screen : {"idle", "get", "ask"} \union Verdicts,
                             payer : Payers, cents : Cents \union {0}, hour : 0..MaxClock]]

\* The distinct amounts of the payments of one hour that were found clear
\* stay within the limit, however the checks overlap: each adds its amount
\* before it reads the set (checkVelocity, lines 51-53).
VelocityHolds ==
    \A h \in 1..MaxClock :
        Total({check[c].cents : c \in {d \in Checks :
            check[d].hour = h /\ Answered(d) /\ Combined(d) = "clear"}}) <= VelocityLimit
=============================================================================
