----------------------------- MODULE MLflowHistory -----------------------------
(***************************************************************************)
(* The finished-run history both runners read (mlflow_history.py): MLflow  *)
(* rows found by the platform's run id, and one listing of all of them,    *)
(* cached for a while and re-read by a single sweep thread at a time.      *)
(* mark_cancelled() is its only write.  A runner's module shares these     *)
(* variables and adds the steps that open and close rows.                  *)
(***************************************************************************)
EXTENDS RunStatus

CONSTANTS Runs, Faults

VARIABLES
  rows,   \* MLflow: run id -> status of its row, "NONE" when there is none
  cache,  \* _listing_cache: what the last sweep stored
  sweep   \* _listing_refresh: the sweep under way

historyVars == <<rows, cache, sweep>>

Listings == [Runs -> JobStatus \cup {"NONE"}]

NoListing == [r \in Runs |-> "NONE"]

\* A cached listing is held, and is fresh until its deadline passes.
Cache == [held: BOOLEAN, fresh: BOOLEAN, listing: Listings]

NoCache == [held |-> FALSE, fresh |-> FALSE, listing |-> NoListing]

Sweep == [step: {"none", "fetch", "store"}, listing: Listings]

NoSweep == [step |-> "none", listing |-> NoListing]

HistoryTypeOK ==
  /\ rows \in [Runs -> MLflowStatuses]
  /\ cache \in Cache
  /\ sweep \in Sweep

HistoryInit ==
  /\ rows = [r \in Runs |-> "NONE"]
  /\ cache = NoCache
  /\ sweep = NoSweep

\* _to_listing(): a row as the platform reports it.
RowAnswer(r) == IF rows[r] = "NONE" THEN "NONE" ELSE history_status(rows[r])

\* end_time is set exactly on closed rows.
RowClosed(r) == rows[r] \in {"FINISHED", "FAILED", "KILLED"}

\* list_runs() with no fresh listing, or prewarm(): one sweep at a time.
StartSweep ==
  /\ sweep.step = "none"
  /\ ~cache.fresh
  /\ sweep' = [NoSweep EXCEPT !.step = "fetch"]
  /\ UNCHANGED <<rows, cache>>

\* _fetch_listings(): every page of the experiment's runs.
FetchListings ==
  /\ sweep.step = "fetch"
  /\ sweep' = [step |-> "store", listing |-> [r \in Runs |-> RowAnswer(r)]]
  /\ UNCHANGED <<rows, cache>>

\* A failed sweep caches nothing; the previous listing keeps being served.
FetchFails ==
  /\ "tracking" \in Faults
  /\ sweep.step = "fetch"
  /\ sweep' = NoSweep
  /\ UNCHANGED <<rows, cache>>

StoreListings ==
  /\ sweep.step = "store"
  /\ cache' = [held |-> TRUE, fresh |-> TRUE, listing |-> sweep.listing]
  /\ sweep' = NoSweep
  /\ UNCHANGED rows

\* (mutant) the deadline of a stored listing never passes
ListingNeverExpires ==
  /\ cache.fresh
  /\ UNCHANGED historyVars

\* HISTORY_LIST_TTL_SECONDS have passed.
ListingExpires ==
  /\ cache.fresh
  /\ cache' = [cache EXCEPT !.fresh = FALSE]
  /\ UNCHANGED <<rows, sweep>>

\* mark_cancelled(): an open row is closed as KILLED and every cached listing
\* is dropped; without a row there is nothing to reconcile.
MarkCancelled(r) ==
  /\ rows' = [rows EXCEPT ![r] = IF @ = "RUNNING" THEN "KILLED" ELSE @]
  /\ cache' = IF rows[r] = "NONE" THEN cache ELSE NoCache
  /\ UNCHANGED sweep

\* The tracking server is unreachable: nothing is found.
MarkCancelledFails == "tracking" \in Faults /\ UNCHANGED historyVars

Sweeping == StartSweep \/ FetchListings \/ FetchFails \/ StoreListings \/ ListingExpires

ListingAnswer(r) == IF cache.held THEN cache.listing[r] ELSE "NONE"
================================================================================
