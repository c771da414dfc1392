---------------------------- MODULE TapeIndexer ----------------------------
(***************************************************************************)
(* The event tape of the indexer (indexer/src/tape/poller.ts): a walk      *)
(* backwards over the program's history, done once, then ticks that index  *)
(* what is newer than a cursor.                                            *)
(*                                                                         *)
(* Signatures are numbered in the order of the chain.  Pages come newest   *)
(* first; a page is fetched in batches, and a batch that fails is passed   *)
(* over, not retried.  The cursor, the backfill's position and the tape    *)
(* are in a database and survive a crash; the rest is in memory.  What     *)
(* falls behind the cursor is never asked for again.                       *)
(***************************************************************************)
EXTENDS Integers, FiniteSets

CONSTANTS
    PageSize,    \* signatures per page
    BatchSize,   \* transactions per fetch
    Floor,       \* first signature that is not older than the backfill floor
    MaxChain,    \* bound: signatures on the chain
    MaxCrashes   \* bound: crashes of the indexer

ASSUME TapeAssumption ==
    /\ PageSize \in Nat \ {0} /\ BatchSize \in Nat \ {0}
    /\ Floor \in Nat /\ MaxChain \in Nat /\ MaxCrashes \in Nat

VARIABLES
    chain,       \* how many signatures there are
    tape,        \* signatures whose transaction is indexed
    passed,      \* signatures whose transaction was not there, or not readable
    cursor,      \* cursor_sig: newest signature that is done, 0 if none
    reached,     \* backfill_before: oldest signature of the walk, 0 if none
    walked,      \* backfill_done
    mode,        \* what the indexer does next
    work,        \* signatures collected and not yet fetched
    newest,      \* newest signature collected
    oldest,      \* oldest signature collected
    failed,      \* a batch of this tick has failed
    crashes      \* how often the indexer has crashed

dbVars == <<tape, passed, cursor, reached, walked>>
memoryVars == <<work, newest, oldest, failed>>
tapeVars == <<chain, dbVars, mode, memoryVars, crashes>>

TapeInit ==
    /\ chain \in 0..MaxChain
    /\ tape = {} /\ passed = {}
    /\ cursor = 0 /\ reached = 0 /\ walked = FALSE
    /\ mode = "boot"
    /\ work = {} /\ newest = 0 /\ oldest = 0 /\ failed = FALSE
    /\ crashes = 0

NewTransaction ==
    /\ chain < MaxChain
    /\ chain' = chain + 1
    /\ UNCHANGED <<dbVars, mode, memoryVars, crashes>>

\* Mutant: the signature a page stops at is part of it.
PageFromLimit(above, below) ==
    LET top == IF below = 0 THEN chain ELSE below - 1
    IN  {i \in above .. top : i > top - PageSize}

\* The newest signatures above one position and below another (0: no limit).
PageBetween(above, below) ==
    LET top == IF below = 0 THEN chain ELSE below - 1
    IN  {i \in above + 1 .. top : i > top - PageSize}

Newest(S) == CHOOSE i \in S : \A j \in S : j <= i
Lowest(S) == CHOOSE i \in S : \A j \in S : i <= j

Boot ==
    /\ mode = "boot"
    /\ mode' = IF walked THEN "tail" ELSE "walk"
    /\ UNCHANGED <<chain, dbVars, memoryVars, crashes>>

-----------------------------------------------------------------------------
(* Backfill. *)

WalkPage ==
    /\ mode = "walk"
    /\ LET page == PageBetween(0, reached) IN
       IF page = {}
       THEN /\ walked' = TRUE
            /\ mode' = "tail"
            /\ UNCHANGED <<cursor, memoryVars>>
       ELSE /\ cursor' = IF reached = 0 /\ cursor = 0 THEN Newest(page)
                                                       ELSE cursor
            /\ work' = page
            /\ oldest' = Lowest(page)
            /\ mode' = "walking"
            /\ UNCHANGED <<walked, newest, failed>>
    /\ UNCHANGED <<chain, tape, passed, reached, crashes>>

\* The page is done, whether or not its batches were fetched.
WalkPageDone ==
    /\ mode = "walking" /\ work = {}
    /\ reached' = oldest
    /\ walked' = (oldest < Floor)
    /\ mode' = IF oldest < Floor THEN "tail" ELSE "walk"
    /\ oldest' = 0 /\ failed' = FALSE
    /\ UNCHANGED <<chain, tape, passed, cursor, work, newest, crashes>>

\* The page cannot be had: the walk is left for the next boot.
WalkAborts ==
    /\ mode = "walk"
    /\ mode' = "tail"
    /\ UNCHANGED <<chain, dbVars, memoryVars, crashes>>

-----------------------------------------------------------------------------
(* One batch of a page, in the walk or in a tick.                          *)

Ingesting == mode \in {"walking", "ingesting"}

Batches == {batch \in SUBSET work : batch # {} /\ Cardinality(batch) <= BatchSize}

\* A transaction that is not there is no outage: it is counted and passed over.
FetchBatch ==
    /\ Ingesting
    /\ \E batch \in Batches :
           /\ work' = work \ batch
           /\ \E readable \in SUBSET batch :
                  /\ tape' = tape \cup readable
                  /\ passed' = passed \cup (batch \ readable)
    /\ UNCHANGED <<chain, cursor, reached, walked, mode,
                   newest, oldest, failed, crashes>>

BatchFails ==
    /\ Ingesting
    /\ \E batch \in Batches : work' = work \ batch
    /\ failed' = TRUE
    /\ UNCHANGED <<chain, dbVars, mode, newest, oldest, crashes>>

-----------------------------------------------------------------------------
(* A tick: all pages down to the cursor, and only then the transactions.   *)

TailPage ==
    /\ mode \in {"tail", "paging"}
    /\ LET page == PageBetween(cursor, oldest) IN
       /\ work' = work \cup page
       /\ newest' = IF newest = 0 /\ page # {} THEN Newest(page) ELSE newest
       /\ oldest' = IF page # {} THEN Lowest(page) ELSE oldest
       /\ mode' = IF Cardinality(page) = PageSize THEN "paging"
                  ELSE IF work' = {} THEN "tail" ELSE "ingesting"
    /\ UNCHANGED <<chain, dbVars, failed, crashes>>

\* Mutant: the next tick goes on below where this one stopped.
TickKeepsPlace ==
    /\ mode' = "tail"
    /\ work' = {} /\ newest' = newest /\ oldest' = oldest /\ failed' = FALSE

\* The memory of a tick does not survive it.
TickOver ==
    /\ mode' = "tail"
    /\ work' = {} /\ newest' = 0 /\ oldest' = 0 /\ failed' = FALSE

\* A page cannot be had: the tick is given up.
TailAborts ==
    /\ mode \in {"tail", "paging"}
    /\ TickOver
    /\ UNCHANGED <<chain, dbVars, crashes>>

\* Mutant: the cursor moves although a batch has failed.
CursorMovesAnyway ==
    /\ mode = "ingesting" /\ work = {}
    /\ cursor' = newest
    /\ TickOver
    /\ UNCHANGED <<chain, tape, passed, reached, walked, crashes>>

\* The cursor moves to the newest signature of the tick, if every batch was
\* fetched; else the next tick does it all again.
TailDone ==
    /\ mode = "ingesting" /\ work = {}
    /\ cursor' = IF failed THEN cursor ELSE newest
    /\ TickOver
    /\ UNCHANGED <<chain, tape, passed, reached, walked, crashes>>

Crash ==
    /\ crashes < MaxCrashes
    /\ crashes' = crashes + 1
    /\ mode' = "boot"
    /\ work' = {} /\ newest' = 0 /\ oldest' = 0 /\ failed' = FALSE
    /\ UNCHANGED <<chain, dbVars>>

IndexerStep ==
    \/ Boot \/ WalkPage \/ WalkPageDone \/ WalkAborts
    \/ FetchBatch \/ BatchFails
    \/ TailPage \/ TailAborts \/ TailDone

TapeNext == NewTransaction \/ IndexerStep \/ Crash

\* A page of a tick that could be had.
PageComes == TailPage /\ mode' # "tail"

\* All its pages have come.
PagesCome == TailPage /\ mode' = "ingesting"

BatchComes == FetchBatch /\ <<tape, passed>>' # <<tape, passed>>

\* The indexer runs; pages that are asked for again and again come in the end,
\* all pages of a tick included, and so does a batch.
TapeFairness ==
    /\ WF_tapeVars(IndexerStep)
    /\ SF_tapeVars(PageComes) /\ SF_tapeVars(PagesCome)
    /\ SF_tapeVars(BatchComes)

TapeSpec == TapeInit /\ [][TapeNext]_tapeVars /\ TapeFairness

-----------------------------------------------------------------------------
(* Properties. *)

Signatures == 1..MaxChain

Modes == {"boot", "walk", "walking", "tail", "paging", "ingesting"}

\* Every variable has its type.
TapeTypeOK ==
    /\ chain \in 0..MaxChain
    /\ tape \subseteq Signatures /\ passed \subseteq Signatures
    /\ cursor \in 0..MaxChain /\ reached \in 0..MaxChain
    /\ walked \in BOOLEAN
    /\ mode \in Modes
    /\ work \subseteq Signatures
    /\ newest \in 0..MaxChain /\ oldest \in 0..MaxChain
    /\ failed \in BOOLEAN
    /\ crashes \in 0..MaxCrashes

\* What a tick has left to do or has done is all there is above the cursor.
Done == tape \cup passed

\* Once there is a cursor, it never moves over a signature that was not looked
\* at (poller.ts: advancing over work that did not land makes it unreachable).
CursorLeavesNothingBehind ==
    [][cursor # 0 /\ cursor' # cursor =>
          /\ cursor' > cursor
          /\ \A i \in cursor + 1 .. cursor' : i \in Done]_tapeVars

\* Through failed batches, failed pages and crashes, the tape catches up again
\* and again: nothing that is newer than the cursor waits for ever.
TapeCatchesUp ==
    []<>(cursor # 0 => \A i \in cursor + 1 .. chain : i \in Done)
=============================================================================
