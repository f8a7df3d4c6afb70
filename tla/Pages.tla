-------------------------------- MODULE Pages --------------------------------
(***************************************************************************)
(* What the ledger, system, coverage and evidence pages show, as functions *)
(* of the state their reads have left: app/ledger/page.tsx,                *)
(* app/system/page.tsx, app/coverage/page.tsx, app/evidence/page.tsx.      *)
(* Money is in integer units; layout and colour are left out.              *)
(***************************************************************************)
EXTENDS Reads, ReadModels

CONSTANTS
  Failed,  \* a page or a section that shows an error
  Busy,    \* ... that shows a placeholder
  None     \* ... that says there is nothing on record

VARIABLE cadence  \* the ledger page's filter: "all" or a cadence's label
-----------------------------------------------------------------------------
\* The rows the table has, as positions in the server's list.
Traded(d) == {i \in DOMAIN d.windows : d.windows[i].Fills > 0}
Cadences(d) == {d.windows[i].Label : i \in Traded(d)}
InCadence(d, c) == {i \in Traded(d) : c \in {"all", d.windows[i].Label}}
\* "Mirrors ledger.Sum in Go": the same loop over the rows the filter leaves.
SumOf(d, some) == Sum(d.windows, some)

BugTotals(d, c) == d.totals
Totals(d, c) == IF c = "all" THEN d.totals ELSE SumOf(d, InCadence(d, c))

BugReading(t) ==
  CASE t["Edge"] > 0 /\ t["Selection"] < 0 -> "right about price, wrong about outcome"
    [] t["Net"] >= 0 /\ t["Edge"] > 0 -> "the edge survived"
    [] OTHER -> "not below fair value"
\* The sentence below the bars; the first case that applies.
Reading(t) ==
  IF t["Net"] >= 0 /\ t["Edge"] > 0 THEN "the edge survived"
  ELSE IF t["Edge"] > 0 /\ t["Selection"] < 0 THEN "right about price, wrong about outcome"
  ELSE IF t["Edge"] <= 0 THEN "not below fair value"
  ELSE "mixed"

LedgerScreen ==
  IF "pnl" \in bad THEN Failed
  ELSE IF data["pnl"] = Nothing THEN Busy
  ELSE IF Traded(data["pnl"]) = {} THEN None
  ELSE [rows |-> InCadence(data["pnl"], cadence), totals |-> Totals(data["pnl"], cadence),
        reading |-> Reading(Totals(data["pnl"], cadence)),
        fewWindows |-> Totals(data["pnl"], cadence)["Windows"] < 30]

\* The filter is offered when there is more than one cadence to choose from.
ChooseCadence(c) ==
  /\ page = "ledger" /\ LedgerScreen \notin {Failed, Busy, None}
  /\ Cardinality(Cadences(data["pnl"])) > 1
  /\ c \in {"all"} \cup Cadences(data["pnl"]) /\ c # cadence
  /\ cadence' = c
  /\ UNCHANGED reads
-----------------------------------------------------------------------------
\* Each section of the system page by itself; the error of the health read is
\* shown above them for as long as the page is open.
Used(a) == 100 * (IF a.netUp < 0 THEN -a.netUp ELSE a.netUp)
BarOf(a) == IF a.cap <= 0 THEN 0
            ELSE IF Used(a) > 100 * a.cap THEN 100 ELSE Used(a) \div a.cap
Hot(a) == a.cap > 0 /\ Used(a) > 80 * a.cap
RiskSection ==
  IF "risk" \in bad THEN Failed
  ELSE IF data["risk"] = Nothing \/ data["risk"] = <<>> THEN None
  ELSE Map(LAMBDA a : [asset |-> a.asset, netUp |-> a.netUp, cap |-> a.cap,
                       pct |-> BarOf(a), hot |-> Hot(a)], data["risk"])
HealthSection == IF data["health"] = Nothing THEN None
                 ELSE IF data["health"].n = 0 THEN None ELSE data["health"]
SystemScreen ==
  [banner |-> "health" \in bad, health |-> HealthSection, risk |-> RiskSection,
   chain |-> IF data["chain"] = Nothing THEN Busy ELSE data["chain"]]
-----------------------------------------------------------------------------
\* The coverage table stays below the error; the evidence page shows nothing else.
CoverageScreen ==
  [banner |-> "coverage" \in bad,
   table |-> IF data["coverage"] # Nothing
             THEN IF data["coverage"] = <<>> THEN None ELSE data["coverage"]
             ELSE IF "coverage" \in bad THEN Failed ELSE Busy]
EvidenceScreen == IF "calibration" \in bad THEN Failed
                  ELSE IF data["calibration"] = Nothing THEN Busy
                  ELSE data["calibration"]
=============================================================================
