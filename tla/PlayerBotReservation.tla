------------------------ MODULE PlayerBotReservation ------------------------
(***************************************************************************)
(* What the manager promises about one roster character, whatever timers,  *)
(* scripts and deaths do: who sits in its seat, and how far its            *)
(* reservation has come.  PlayerBotLifecycle implements this.              *)
(***************************************************************************)
CONSTANT Bots

VARIABLES
    status,     \* "Unlisted", "Reserved", "Active", "Recovering", "Terminal"
    seat        \* who plays the character: "empty", "bot" or "human"

vars == <<status, seat>>

Init ==
    /\ status = [b \in Bots |-> "Unlisted"]
    /\ seat = [b \in Bots |-> "empty"]

\* The whole roster is reserved in one step, before anybody is activated.
Reserve ==
    /\ \A b \in Bots : status[b] = "Unlisted"
    /\ status' = [b \in Bots |-> "Reserved"]
    /\ UNCHANGED seat

\* A bot sits down in an empty seat, and only then is activated.
SitDown(b) ==
    /\ status[b] \in {"Reserved", "Recovering"} /\ seat[b] = "empty"
    /\ seat' = [seat EXCEPT ![b] = "bot"]
    /\ UNCHANGED status

TakeOver(b) ==
    /\ status[b] \in {"Reserved", "Recovering"} /\ seat[b] = "bot"
    /\ status' = [status EXCEPT ![b] = "Active"]
    /\ UNCHANGED seat

Die(b) ==
    /\ status[b] = "Active"
    /\ status' = [status EXCEPT ![b] = "Recovering"]
    /\ UNCHANGED seat

\* The seat of an active bot empties only together with its reservation.
StandUp(b) ==
    /\ status[b] # "Active" /\ seat[b] = "bot"
    /\ seat' = [seat EXCEPT ![b] = "empty"]
    /\ UNCHANGED status

GiveUp(b) ==
    /\ status[b] = "Recovering"
    /\ status' = [status EXCEPT ![b] = "Reserved"]
    /\ \/ UNCHANGED seat
       \/ seat[b] = "bot" /\ seat' = [seat EXCEPT ![b] = "empty"]

End(b) ==
    /\ status[b] \in {"Reserved", "Active", "Recovering"}
    /\ status' = [status EXCEPT ![b] = "Terminal"]
    /\ \/ status[b] # "Active" /\ UNCHANGED seat
       \/ seat[b] = "bot" /\ seat' = [seat EXCEPT ![b] = "empty"]

\* A human needs an empty seat, and leaves it empty.
HumanSits(b) ==
    /\ status[b] # "Active" /\ seat[b] = "empty"
    /\ seat' = [seat EXCEPT ![b] = "human"]
    /\ UNCHANGED status

HumanLeaves(b) ==
    /\ seat[b] = "human"
    /\ seat' = [seat EXCEPT ![b] = "empty"]
    /\ UNCHANGED status

Next ==
    \/ Reserve
    \/ \E b \in Bots :
        \/ SitDown(b) \/ TakeOver(b) \/ Die(b) \/ StandUp(b) \/ GiveUp(b)
        \/ End(b) \/ HumanSits(b) \/ HumanLeaves(b)

Spec == Init /\ [][Next]_vars
=============================================================================
