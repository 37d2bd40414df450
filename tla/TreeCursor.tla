----------------------------- MODULE TreeCursor -----------------------------
(***************************************************************************)
(* What browsing promises, whoever implements it: there is one current     *)
(* topic, one step down goes to a child of it, one step up to its parent.  *)
(* Browsing may open at a topic given beforehand.  Both the Navigator of   *)
(* the library and the interactive session of hlp implement this.          *)
(***************************************************************************)
CONSTANTS Topic,   \* the topics one may stand at
          Top,     \* where one stands before any topic is chosen
          Up,      \* Up[t], in Topic \cup {Top}: what t is directly below
          HomeKey  \* whether one may also return to Top in one step

VARIABLES cur,     \* the current topic
          opened   \* FALSE until browsing has opened

Init == cur = Top /\ opened \in BOOLEAN

Open == /\ ~ opened /\ opened' = TRUE
        /\ cur' \in Topic \cup {Top}

Down == /\ opened /\ UNCHANGED opened
        /\ cur' \in Topic /\ Up[cur'] = cur

Climb == /\ opened /\ UNCHANGED opened
         /\ cur \in Topic /\ cur' = Up[cur]

Home == /\ HomeKey
        /\ opened /\ UNCHANGED opened
        /\ cur' = Top

Next == Open \/ Down \/ Climb \/ Home

Spec == Init /\ [][Next]_<<cur, opened>>
=============================================================================
