-------------------------------- MODULE Unit --------------------------------
(***************************************************************************)
(* What the service manager relies on, for a unit of Type=notify-reload    *)
(* (resources/mpdris.service): a unit is active only while its D-Bus name  *)
(* is served, goes through reloading and back, and ends well only after it *)
(* said that it is stopping.  It may fail at any time.                     *)
(***************************************************************************)
VARIABLES state, serving
unitVars == <<state, serving>>

States == {"inactive", "activating", "active", "reloading", "deactivating", "failed"}

Init == state = "inactive" /\ serving = FALSE

Start == /\ state \in {"inactive", "failed"}
         /\ state' = "activating" /\ serving' = FALSE

Serve == state = "activating" /\ serving' = TRUE /\ UNCHANGED state

Ready == /\ state \in {"activating", "reloading"} /\ serving
         /\ state' = "active" /\ UNCHANGED serving

\* A reload that was not announced as done may be followed by another.
Reload == /\ state \in {"active", "reloading"}
          /\ state' = "reloading" /\ UNCHANGED serving

Stop == /\ state \in {"active", "reloading"}
        /\ state' = "deactivating" /\ UNCHANGED serving

Exit == state = "deactivating" /\ state' = "inactive" /\ serving' = FALSE

Fail == /\ state \in States \ {"inactive", "failed"}
        /\ state' = "failed" /\ serving' = FALSE

Next == Start \/ Serve \/ Ready \/ Reload \/ Stop \/ Exit \/ Fail

Spec == Init /\ [][Next]_unitVars
=============================================================================
