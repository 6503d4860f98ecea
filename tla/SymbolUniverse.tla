---------------------------- MODULE SymbolUniverse ----------------------------
(***************************************************************************)
(* The symbol master and the universes read from it.  The morning symbol   *)
(* refresh makes symbols.is_active match the provider's answer unless the  *)
(* answer looks truncated; the F&O refresh replaces fno_universe by the    *)
(* active symbols with derivative contracts; the backfill script records   *)
(* IPO listing dates.  All three may run at the same time.  Only what the  *)
(* universes depend on is kept of a row: no row is the same as an inactive *)
(* one without a listing date.                                             *)
(***************************************************************************)
EXTENDS Integers, FiniteSets

CONSTANTS
  Symbol,      \* symbols a provider may ever report
  MinPercent   \* universe_reconciliation_min_fraction, in percent

ASSUME FractionOK == IsFiniteSet(Symbol) /\ MinPercent \in 1..100

VARIABLES
  active,   \* rows with is_active
  dated,    \* rows with a listing_date
  young,    \* symbols listed less than ipo_universe_max_age_years ago
  fno,      \* rows of fno_universe
  \* the symbol refresh
  refresh,  \* "idle" or "loaded"
  confirmed,\* symbols of the answer that passed validation
  loaded,   \* dated rows as this session read them
  \* the F&O refresh
  fnoJob,   \* "idle" or "matched"
  matched   \* active symbols among the roots, as this session read them

refreshVars == <<refresh, confirmed, loaded>>
fnoVars == <<fnoJob, matched>>
universeVars == <<active, dated, young, fno, refreshVars, fnoVars>>

UniverseInit ==
  /\ active = {} /\ dated = {} /\ young \in SUBSET Symbol /\ fno = {}
  /\ refresh = "idle" /\ confirmed = {} /\ loaded = {}
  /\ fnoJob = "idle" /\ matched = {}

-----------------------------------------------------------------------------
(* MarketDataCollector.collect_symbols                                     *)

(* What get_symbols may answer: the master, completely or not, without its *)
(* malformed records.                                                      *)
SymbolAnswer == SUBSET Symbol

(* The symbols of an answer that pass validate_symbol.  A provider error   *)
(* changes nothing.                                                        *)
RefreshLoad ==
  /\ refresh = "idle" /\ refresh' = "loaded"
  /\ \E answer \in SymbolAnswer : confirmed' \in SUBSET answer
  /\ loaded' = dated
  /\ UNCHANGED <<active, dated, young, fno, fnoVars>>

(* Mutant of Suspicious: only an empty answer is. *)
SuspiciousIfEmpty(previous) == confirmed = {}

(* _reconcile_universe's guard; previous was read after the upserts. *)
Suspicious(previous) ==
  Cardinality(confirmed) * 100 < Cardinality(previous) * MinPercent

(* SymbolRepository.upsert for every confirmed symbol.  Neither provider   *)
(* reports a listing date, so upsert sets it to NULL; the session writes   *)
(* only columns that differ from what it read.                             *)
Upsert == dated' = dated \ (confirmed \cap loaded)

(* deactivate_missing *)
DeactivateMissing(previous) == previous \cap confirmed

(* The upserts, then the reconciliation, in one transaction. *)
RefreshCommit ==
  /\ refresh = "loaded" /\ refresh' = "idle"
  /\ LET previous == active \cup confirmed IN
       active' = IF Suspicious(previous) THEN previous ELSE DeactivateMissing(previous)
  /\ Upsert
  /\ confirmed' = {} /\ loaded' = {}
  /\ UNCHANGED <<young, fno, fnoVars>>

(* A failing statement, or two rows of one symbol: the run is aborted. *)
RefreshFails ==
  /\ refresh = "loaded" /\ refresh' = "idle"
  /\ confirmed' = {} /\ loaded' = {}
  /\ UNCHANGED <<active, dated, young, fno, fnoVars>>

-----------------------------------------------------------------------------
(* The F&O refresh                                                         *)

(* What get_fno_symbol_roots may answer. *)
Roots == SUBSET Symbol

FnoMatch ==
  /\ fnoJob = "idle" /\ fnoJob' = "matched"
  /\ \E roots \in Roots : matched' = active \cap roots
  /\ UNCHANGED <<active, dated, young, fno, refreshVars>>

(* Mutant of ReplaceAll: an incremental upsert. *)
ReplaceNone == fno' = fno \cup matched

(* FnoUniverseRepository.replace_all *)
ReplaceAll == fno' = matched

FnoCommit ==
  /\ fnoJob = "matched" /\ fnoJob' = "idle"
  /\ ReplaceAll /\ matched' = {}
  /\ UNCHANGED <<active, dated, young, refreshVars>>

FnoFails ==
  /\ fnoJob = "matched" /\ fnoJob' = "idle" /\ matched' = {}
  /\ UNCHANGED <<active, dated, young, fno, refreshVars>>

-----------------------------------------------------------------------------
(* scripts/backfill_ipo_listing_dates.py                                   *)

(* The symbols a CSV file can be matched to, by ISIN or by name. *)
MatchRows == SUBSET active

(* Reading and writing may be one step: whether a refresh that commits in  *)
(* between wins is the same as in one of the two orders.                   *)
Backfill ==
  /\ \E rows \in MatchRows : dated' = dated \cup rows
  /\ UNCHANGED <<active, young, fno, refreshVars, fnoVars>>

(* A symbol passes the cutoff of get_ipo_universe. *)
Ages ==
  /\ \E s \in young : young' = young \ {s}
  /\ UNCHANGED <<active, dated, fno, refreshVars, fnoVars>>

IpoUniverse == active \cap dated \cap young

-----------------------------------------------------------------------------
UniverseNext ==
  \/ RefreshLoad \/ RefreshCommit \/ RefreshFails
  \/ FnoMatch \/ FnoCommit \/ FnoFails
  \/ Backfill \/ Ages

UniverseSpec == UniverseInit /\ [][UniverseNext]_universeVars

(* The F&O job runs every morning and now and then succeeds. *)
FairUniverseSpec == UniverseSpec /\ WF_universeVars(FnoMatch) /\ SF_universeVars(FnoCommit)

-----------------------------------------------------------------------------
(* Properties                                                              *)

(* Every variable has its type; what a job holds it holds only while it    *)
(* runs.                                                                   *)
UniverseTypeOK ==
  /\ active \in SUBSET Symbol /\ dated \in SUBSET Symbol
  /\ young \in SUBSET Symbol /\ fno \in SUBSET Symbol
  /\ refresh \in {"idle", "loaded"} /\ fnoJob \in {"idle", "matched"}
  /\ confirmed \in SUBSET Symbol /\ loaded \in SUBSET Symbol
  /\ matched \in SUBSET Symbol
  /\ refresh = "idle" => confirmed = {} /\ loaded = {}
  /\ fnoJob = "idle" => matched = {}

(* However truncated an answer is, a refresh leaves at least the fraction  *)
(* MinPercent of the symbols active before it, so the universe is never    *)
(* emptied, by one answer or by a row of them (_reconcile_universe).       *)
NoMassDeactivation ==
  [][Cardinality(active') * 100 >= Cardinality(active) * MinPercent]_universeVars

(* A symbol deactivated in the master does not stay in the F&O universe:   *)
(* get_fno_universe does not look at is_active, so only the replacement    *)
(* removes it (replace_all's comment).                                     *)
FnoFollows == \A s \in Symbol : s \in fno \ active ~> s \notin fno \/ s \in active

(* A young symbol does not leave the IPO universe while it is active:      *)
(* listing_date is its sole criterion and comes only from the backfill     *)
(* (models/symbol.py, get_ipo_universe).  Violated by every refresh, which *)
(* resets it.                                                              *)
IpoUniverseKept ==
  [][\A s \in IpoUniverse : s \in active' /\ s \in young' => s \in dated']_universeVars
=============================================================================
