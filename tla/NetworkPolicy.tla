--------------------------- MODULE NetworkPolicy ---------------------------
(* The Pad's choice between Wi-Fi and cellular
   (apps/android-qc/.../operator/cloud/NetworkPolicy.kt).  A reading is reduced
   to what the thresholds tell apart: Wi-Fi is down, ready but slow (above the
   4 Mbps that make it usable, not above the 6 Mbps to return to it) or fast. *)
EXTENDS Naturals

CONSTANTS
    WifiReading,   \* readings of the Wi-Fi samples in the window
    CellReading    \* whether the last cellular sample is within its limits

ASSUME NetworkAssumption == WifiReading \subseteq {"down", "slow", "fast"} /\ CellReading \subseteq BOOLEAN

VARIABLES
    wifi, cell,
    since,       \* wifiHealthySinceMs: "none", "recent", or "long", wifiReturnSustainMs ago
    steady,      \* Wi-Fi has been fast for that long without a break (no variable of the code)
    selected,    \* the network in use: "wifi", "cellular" or "none"
    active,      \* the network of the job in progress, or Free
    deferred     \* the switch to make when the job ends, or Free

netVars == <<wifi, cell, since, steady, selected, active, deferred>>

Free == "free"
Network == {"wifi", "cellular", "none"}

NetInit ==
    /\ wifi = "down" /\ cell = FALSE /\ since = "none" /\ steady = FALSE
    /\ selected = "none" /\ active = Free /\ deferred = Free

----------------------------------------------------------------------------
Desired(sel, w, c) ==
    CASE sel = "cellular" /\ w = "fast" -> IF since = "long" THEN "wifi" ELSE "cellular"
      [] w # "down" /\ ~ (sel = "cellular" /\ w = "fast") -> "wifi"
      [] w = "down" /\ c -> "cellular"
      [] w = "down" /\ ~c -> "none"

Since(sel, w) ==
    CASE w = "down" -> "none"
      [] sel = "cellular" /\ w = "fast" /\ since = "none" -> "recent"
      [] OTHER -> since

\* observe and decide: while a job holds the network, a switch is put off
Observe(w, c) ==
    /\ wifi' = w /\ cell' = c
    /\ since' = Since(selected, w)
    /\ steady' = (steady /\ w = "fast")
    /\ LET d == Desired(selected, w, c) IN
       IF active # Free /\ d # selected
       THEN deferred' = d /\ UNCHANGED selected
       ELSE selected' = d /\ UNCHANGED deferred
    /\ UNCHANGED active

\* wifiReturnSustainMs pass, and the readings stay as they are
Elapse ==
    /\ since' = IF since = "recent" THEN "long" ELSE since
    /\ steady' = (wifi = "fast")
    /\ UNCHANGED <<wifi, cell, selected, active, deferred>>

BeginJob ==
    /\ active = Free
    /\ active' = selected
    /\ UNCHANGED <<wifi, cell, since, steady, selected, deferred>>

EndJob ==
    LET sel == IF deferred # Free THEN deferred ELSE selected IN
    /\ active' = Free /\ deferred' = Free
    /\ since' = Since(sel, wifi)
    /\ selected' = Desired(sel, wifi, cell)
    /\ UNCHANGED <<wifi, cell, steady>>

NetNext ==
    \/ \E w \in WifiReading, c \in CellReading : Observe(w, c)
    \/ Elapse \/ BeginJob
    \/ active # Free /\ EndJob

\* time passes
NetSpec == NetInit /\ [][NetNext]_netVars /\ WF_netVars(Elapse)

----------------------------------------------------------------------------
\* docs/api-contracts/pad-health-state.md: "Return from cellular to Wi-Fi only after
\* effective Wi-Fi uplink remains above 6 Mbps for 60 continuous seconds".
ReturnIsSustained == [][selected = "cellular" /\ selected' = "wifi" => steady]_netVars
=============================================================================
