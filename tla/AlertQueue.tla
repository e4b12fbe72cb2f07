------------------------------ MODULE AlertQueue ------------------------------
(***************************************************************************)
(* What notification_outbox promises of the alerts written to it, with no  *)
(* mention of workers, leases or attempts: an alert the bot owes its       *)
(* holder is struck off only once Telegram has it, retention drops no      *)
(* alert that is still owed, an alert that was erased is owed again only   *)
(* if its deletion is recorded again while the message is still there, and *)
(* an alert that is gone never comes back.                                 *)
(***************************************************************************)
CONSTANT Alerts

VARIABLES
    ledger,     \* [Alerts -> {"none", "owed", "parked", "settled", "gone"}]
    received    \* the alerts Telegram accepted

vars == <<ledger, received>>

Init ==
    /\ ledger = [a \in Alerts |-> "none"]
    /\ received = {}

Move(S, to) == ledger' = [a \in Alerts |-> IF a \in S THEN to ELSE ledger[a]]

In(states) == {a \in Alerts : ledger[a] \in states}

\* A deletion is recorded: its alerts are owed from the same commit on.
Owe(S) ==
    /\ S \subseteq In({"none"})
    /\ Move(S, "owed")
    /\ UNCHANGED received

\* Telegram accepts an alert, whatever became of its row meanwhile.
Receive(a) ==
    /\ received' = received \cup {a}
    /\ UNCHANGED ledger

\* The alert is recorded as sent: Telegram has it.
StrikeOff(a) ==
    /\ ledger[a] = "owed" /\ a \in received
    /\ Move({a}, "settled")
    /\ UNCHANGED received

\* The slow lane: the alert stays replayable.
Park(a) ==
    /\ ledger[a] = "owed"
    /\ Move({a}, "parked")
    /\ UNCHANGED received

Resume(a) ==
    /\ ledger[a] = "parked"
    /\ Move({a}, "owed")
    /\ UNCHANGED received

\* Retention, or the erasure of the messages: what is still owed stays.
Retire(S) ==
    /\ S \subseteq In({"none", "parked", "settled"})
    /\ Move(S, "gone")
    /\ UNCHANGED received

\* The holder's erasure takes every alert; those in S are gone for good, the
\* messages of the others can still be deleted again.
Erase(S) ==
    /\ ledger' = [a \in Alerts |-> IF ledger[a] \notin {"owed", "parked", "settled"}
                                   THEN ledger[a]
                                   ELSE IF a \in S THEN "gone" ELSE "none"]
    /\ UNCHANGED received

Next ==
    \/ \E S \in SUBSET Alerts : Owe(S) \/ Retire(S) \/ Erase(S)
    \/ \E a \in Alerts : Receive(a) \/ StrikeOff(a) \/ Park(a) \/ Resume(a)

Spec == Init /\ [][Next]_vars
===============================================================================
