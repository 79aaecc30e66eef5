--------------------------- MODULE ReferenceTable ---------------------------
(***************************************************************************)
(* The other half of src/policy/bank_health.py: the reference table of     *)
(* decline rates per bank, read from a CSV file once in the life of a      *)
(* process.  A file that cannot be read, or not to its end, leaves an      *)
(* empty table; every bank then gets the system-wide figures.  Except that *)
(* a row which ends early raises a TypeError that nothing catches: the     *)
(* call fails and the table stays unread.                                  *)
(*                                                                         *)
(* The file is replaced, removed or damaged by others at any time.  Of a   *)
(* signal only matters which of the two kinds of figures it carries.       *)
(***************************************************************************)
EXTENDS Integers

CONSTANTS
  EarlyRows,   \* the banks whose rows come before the damage in a damaged file
  LateRows,    \* the banks of the other rows
  OtherBanks   \* banks the file does not list

Listed == EarlyRows \cup LateRows
Banks  == Listed \cup OtherBanks

ASSUME BanksAssumption ==
  EarlyRows \cap LateRows = {} /\ Listed \cap OtherBanks = {} /\ Listed # {}

VARIABLES
  file,        \* "good", "missing", "damaged", or "short": a row ends early
  loaded,      \* _REFERENCE_CACHE is not None
  table,       \* the banks it has a row for
  loadError,   \* _LAST_LOAD_ERROR is not None
  signals      \* history: <<bank, confidence>> of every signal of this life

tableVars == <<file, loaded, table, loadError, signals>>

FileStates == {"good", "missing", "damaged", "short"}
Confidence == {"calibrated_synthetic", "system_wide_fallback"}

TableInit ==
  /\ file = "good"
  /\ loaded = FALSE
  /\ table = {}
  /\ loadError = FALSE
  /\ signals = {}

-----------------------------------------------------------------------------
\* The banks a reader of the file gets to see before it ends or fails.
RowsRead == CASE file = "good" -> Listed [] file = "missing" -> {} [] OTHER -> EarlyRows

\* A slip: an empty cache is taken for no cache.
MutantCached == loaded /\ table # {}

Cached == loaded

\* A slip: what was read before the damage is kept.
MutantKeepRows == RowsRead

\* A reading that fails part way keeps nothing of it.
TableRead == IF file = "good" THEN RowsRead ELSE {}

\* _load_reference_table
Load ==
  IF Cached THEN UNCHANGED <<loaded, table, loadError>>
  ELSE /\ loaded' = TRUE
       /\ table' = TableRead
       /\ loadError' = (loadError \/ file # "good")

Raises == ~Cached /\ file = "short"

\* bank_health_score, as far as it depends on the table.
Score(bank) ==
  IF Raises THEN UNCHANGED tableVars
  ELSE /\ Load
       /\ signals' = signals \cup
            { <<bank, IF bank \in table' THEN "calibrated_synthetic" ELSE "system_wide_fallback">> }
       /\ UNCHANGED file

ReplaceFile ==
  /\ \E f \in FileStates : file' = f
  /\ UNCHANGED <<loaded, table, loadError, signals>>

\* reset_reference_cache_for_testing, or a new process.
TableReset ==
  /\ loaded' = FALSE
  /\ table' = {}
  /\ loadError' = FALSE
  /\ signals' = {}
  /\ UNCHANGED file

TableNext == (\E bank \in Banks : Score(bank)) \/ ReplaceFile \/ TableReset

TableSpec == TableInit /\ [][TableNext]_tableVars

-----------------------------------------------------------------------------
(* Properties *)

TableTypeOK ==
  /\ file \in FileStates
  /\ loaded \in BOOLEAN
  /\ table \subseteq Listed
  /\ loadError \in BOOLEAN
  /\ signals \subseteq Banks \X Confidence

\* The strategies a process compares see one table, whatever becomes of the
\* file meanwhile: a bank never gets two kinds of figures in one life.
OneTablePerLife ==
  \A s, t \in signals : s[1] = t[1] => s[2] = t[2]

\* reference_table_status tells the truth: figures fell back for a listed bank
\* exactly when it reports a failed load, and then they did for every bank.
FallbackIsReported ==
  \A s \in signals :
    s[2] = "system_wide_fallback" <=> s[1] \notin Listed \/ loadError
=============================================================================
