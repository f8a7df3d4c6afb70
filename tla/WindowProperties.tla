--------------------------- MODULE WindowProperties ---------------------------
(* What the engine promises about the life of a window.                     *)
EXTENDS WindowLife

WindowTypeOK ==
  /\ phase \in [Window -> {"live", "over"} \cup Outcome]
  /\ loop \in [Window -> {"off", "setup", "quoting"}]
  /\ watch \in [Window -> {"off", "waiting", "resolved", "known"}]
  /\ found \in [Window -> Outcome \cup {None}]
  /\ inv \in [Window -> Int] /\ tracked \in SUBSET Window
  /\ order \in SUBSET Window /\ job \in Window \cup {None}
  /\ unseen \in SUBSET Window /\ sweep \in Window \cup {None}
  /\ row \in [Window -> {"none", "open"} \cup Outcome] /\ booked \in [Window -> Nat]
  /\ crashes \in Nat

\* "Never guess the winner": whatever failed and was retried, a window is settled only
\* as the oracle answered (engine.go:1107-1122).
SettledAsResolved == \A m \in Window : row[m] \in Outcome => row[m] = phase[m]

\* No window is "silently excluded from realised attribution" (engine.go:360-365): once
\* nobody works for an ended window with a row, it is settled, or nobody could watch
\* for the answer, or it came too late, or the ledger refused it.
Unsettled == {"not watched", "timeout", "not recorded"}
UnsettledForAReason ==
  \A m \in Window :
    row[m] = "open" /\ phase[m] # "live" /\ loop[m] = "off" /\ watch[m] = "off"
      => excuses[m] \cap Unsettled # {}

\* What a loop decides from is what the ledger holds, restarts included, once the
\* executor and the sweep are through with it (engine.go:1044-1070, 260-275).
Unknown == {"position forgotten", "no row", "fill not recorded"}
KnowsItsPosition ==
  \A m \in Window :
    loop[m] = "quoting" /\ m \notin {job, sweep}
      => inv[m] = booked[m] \/ excuses[m] \cap Unknown # {}

\* A window that is quoted is settled and forgotten in the end (engine.go:345-367,
\* 1087-1126).
EveryWindowCloses ==
  \A m \in Window :
    loop[m] = "quoting"
      ~> \/ row[m] \in Outcome /\ m \notin tracked
         \/ excuses[m] \cap ({"no row", "late fill"} \cup Unsettled) # {}
=============================================================================
