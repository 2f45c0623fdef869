--------------------------- MODULE OfflineContract ---------------------------
(* What an operator is promised about an offline run: the analysis ends once, *)
(* nothing is found after its end, and the page shows COMPLETED or FAILED     *)
(* only as the outcome, and COMPLETED only with every result there will be.   *)
(* What the page shows is not final: reconcile passes that run side by side   *)
(* may show an earlier state again after a later one.                         *)
EXTENDS Naturals

CONSTANT Runs

VARIABLES
    status,     \* status[r]: what the page shows of run r
    asked,      \* the runs somebody has asked to cancel
    outcome,    \* outcome[r]: where the analysis of r stands, and how it ended
    produced,   \* produced[r]: results the analysis of r has found
    imported    \* imported[r]: results of r the page can show

vars == <<status, asked, outcome, produced, imported>>

Open     == {"QUEUED", "PROCESSING"}
Terminal == {"COMPLETED", "FAILED", "CANCELLED"}
Statuses == Open \cup Terminal \cup {"ABSENT"}

Init ==
    /\ status = [r \in Runs |-> "ABSENT"]
    /\ asked = {}
    /\ outcome = [r \in Runs |-> "NONE"]
    /\ produced = [r \in Runs |-> 0]
    /\ imported = [r \in Runs |-> 0]

(* A new analysis is a new identity.                                          *)
Submit(r) ==
    /\ status[r] = "ABSENT"
    /\ status' = [status EXCEPT ![r] = "QUEUED"]
    /\ UNCHANGED <<asked, outcome, produced, imported>>

Ask(r) ==
    /\ status[r] \in Open
    /\ asked' = asked \cup {r}
    /\ UNCHANGED <<status, outcome, produced, imported>>

Begin(r) ==
    /\ status[r] # "ABSENT" /\ outcome[r] = "NONE"
    /\ outcome' = [outcome EXCEPT ![r] = "PROCESSING"]
    /\ UNCHANGED <<status, asked, produced, imported>>

Find(r) ==
    /\ outcome[r] = "PROCESSING"
    /\ produced' = [produced EXCEPT ![r] = @ + 1]
    /\ UNCHANGED <<status, asked, outcome, imported>>

Import(r) ==
    /\ imported[r] < produced[r]
    /\ imported' = [imported EXCEPT ![r] = @ + 1]
    /\ UNCHANGED <<status, asked, outcome, produced>>

(* An analysis ends once.                                                     *)
Decide(r) ==
    /\ outcome[r] = "PROCESSING"
    /\ \E s \in Terminal : outcome' = [outcome EXCEPT ![r] = s]
    /\ UNCHANGED <<status, asked, produced, imported>>

(* What the page may show, whatever it has shown before.                      *)
Show(r) ==
    /\ status[r] # "ABSENT"
    /\ \E s \in Terminal \cup {"PROCESSING"} :
        /\ s = "PROCESSING" => outcome[r] # "NONE"
        /\ s \in {"COMPLETED", "FAILED"} => outcome[r] = s
        /\ s = "COMPLETED" => imported[r] = produced[r]
        /\ s = "CANCELLED" => r \in asked \/ outcome[r] = s
        /\ status' = [status EXCEPT ![r] = s]
    /\ UNCHANGED <<asked, outcome, produced, imported>>

Next ==
    \E r \in Runs : \/ Submit(r) \/ Ask(r) \/ Begin(r) \/ Find(r) \/ Import(r)
                    \/ Decide(r) \/ Show(r)

Spec == Init /\ [][Next]_vars
==============================================================================
