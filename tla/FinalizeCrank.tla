--------------------------- MODULE FinalizeCrank ---------------------------
(***************************************************************************)
(* The settlement crank (crank/bot.ts): the loop that records the          *)
(* settlement price of expired series, settles their vaults, and then      *)
(* pays everybody out, vault by vault, without being asked.                *)
(*                                                                         *)
(* A vault that looked finished is remembered, in memory and in a file, so *)
(* that it is not scanned again (crank/finalizeCache.ts).  Scans and       *)
(* transactions fail, the process is restarted anywhere, the file may be   *)
(* lost or refused, and owners act for themselves all the while.           *)
(*                                                                         *)
(* Amounts are in SharedVault and WriterAskVault; here an account is owed  *)
(* something or is not.                                                    *)
(* Vaults are numbered in the order of their expiry, which is also the     *)
(* order of the scan.                                                      *)
(***************************************************************************)
EXTENDS Integers, FiniteSets

CONSTANTS
    Vaults,        \* the vaults, numbered
    Dues,          \* which accounts each vault has: see Accounts
    Collateral,    \* whose money each vault holds once it is settled
    StuckVaults,   \* vaults whose settlement always fails
    OffCurve,      \* vaults with a holder that is not a wallet
    MaxPerTick,    \* FANOUT_MAX_PER_TICK: vaults one fan-out may take on
    MaxRestarts    \* bound: restarts of the process

\* Resale listings, resale asks and bids of the book, option token accounts,
\* the positions of pool writers, and those of writer asks, whose pot settlement
\* merged into the vault.
Accounts == {"listing", "ask", "bid", "holder", "writer", "backer"}

Owners == {"holders", "writers", "backers"}

ASSUME CrankAssumption ==
    /\ Vaults \subseteq Nat /\ IsFiniteSet(Vaults)
    /\ Dues \in [Vaults -> SUBSET Accounts]
    /\ Collateral \in [Vaults -> SUBSET Owners]
    /\ \A v \in Vaults :
           /\ "writers" \in Collateral[v] => "writer" \in Dues[v]
           /\ "backers" \in Collateral[v] => "backer" \in Dues[v]
    /\ OffCurve \subseteq Vaults
    /\ StuckVaults \subseteq Vaults
    /\ Cardinality(StuckVaults) < MaxPerTick
    /\ MaxRestarts \in Nat

VARIABLES
    stage,      \* "expired", then "recorded", then "settled"
    owed,       \* the accounts of each vault that are still open
    left,       \* whose money is still in the vault (collateral_remaining)
    windowOver, \* vaults whose holders' exercise window has passed
    finished,   \* the crank's memory of finished vaults
    file,       \* the same, on disk
    todo,       \* settled vaults this sweep has still to look at
    funded,     \* vaults that held collateral when the sweep began
    pass,       \* what the sweep does next for the first vault of todo
    clean,      \* all passes over that vault have found nothing so far
    restarts    \* how often the process has been restarted

chainVars == <<stage, owed, left, windowOver>>
cacheVars == <<finished, file>>
sweepVars == <<todo, funded, pass, clean>>
crankVars == <<chainVars, cacheVars, sweepVars, restarts>>

CrankInit ==
    /\ stage = [v \in Vaults |-> "expired"]
    /\ owed = Dues
    /\ left = Collateral
    /\ windowOver = {}
    /\ finished = {} /\ file = {}
    /\ todo = {} /\ funded = {}
    /\ pass = "settle"
    /\ clean = FALSE
    /\ restarts = 0

Settled == {v \in Vaults : stage[v] = "settled"}

Oldest(S) == CHOOSE v \in S : \A u \in S : v <= u

-----------------------------------------------------------------------------
(* What a call discharges.  Tokens that leave a listing or an ask go back  *)
(* to an owner, who holds them from then on.                               *)

Discharge(v, items) ==
    owed' = [owed EXCEPT ![v] = (@ \ items) \cup
                IF items \cap {"listing", "ask"} # {} THEN {"holder"} ELSE {}]

\* Holders take what they won, which may be all there is.
HoldersLeave(money) ==
    IF "holders" \in money THEN {money \ {"holders"}, {}} ELSE {money}

\* Pool writers and backers, after the window, share all there is: the last
\* leave nothing, and the first leave the others a part of whatever was there.
WritersLeave(money) == IF money = {} THEN {} ELSE (money \ {"writers"}) \cup {"backers"}
BackersLeave(money) == IF money = {} THEN {} ELSE (money \ {"backers"}) \cup {"writers"}

\* What may be left of a vault's money when an account is paid.
Remains(money, account, accounts) ==
    CASE account = "holder" -> HoldersLeave(money)
      [] account = "writer" ->
             {IF "backer" \in accounts THEN WritersLeave(money) ELSE {}}
      [] account = "backer" ->
             {IF "writer" \in accounts THEN BackersLeave(money) ELSE {}}

Pay(v, account) ==
    /\ account \in {"writer", "backer"} => v \in windowOver
    /\ owed' = [owed EXCEPT ![v] = @ \ {account}]
    /\ \E money \in Remains(left[v], account, owed[v]) :
           left' = [left EXCEPT ![v] = money]

-----------------------------------------------------------------------------
(* Others: any user may make the same calls, and time passes.              *)

SomebodySettles(v) ==
    /\ stage[v] # "settled" /\ v \notin StuckVaults
    /\ stage' = [stage EXCEPT ![v] =
                    IF @ = "expired" THEN "recorded" ELSE "settled"]
    /\ UNCHANGED <<owed, left, windowOver, cacheVars, sweepVars, restarts>>

SomebodyCloses(v) ==
    /\ v \in Settled
    /\ \E item \in owed[v] :
           IF item \in {"holder", "writer", "backer"} THEN Pay(v, item)
           ELSE Discharge(v, {item}) /\ UNCHANGED left
    /\ UNCHANGED <<stage, windowOver, cacheVars, sweepVars, restarts>>

\* Of interest while there is a writer or a backer to wait for it.
WindowEnds(v) ==
    /\ v \notin windowOver
    /\ owed[v] \cap {"writer", "backer"} # {}
    /\ windowOver' = windowOver \cup {v}
    /\ UNCHANGED <<stage, owed, left, cacheVars, sweepVars, restarts>>

-----------------------------------------------------------------------------
(* Settling: leg 1 records the price of each expired tuple, and a tuple    *)
(* that fails does not stop the next; leg 2 settles recorded vaults, oldest*)
(* first and at most so many, a failed batch being taken apart.            *)

RecordPrice(v) ==
    /\ pass = "settle"
    /\ stage[v] = "expired"
    /\ stage' = [stage EXCEPT ![v] = "recorded"]
    /\ UNCHANGED <<owed, left, windowOver, cacheVars, sweepVars, restarts>>

Eligible == {v \in Vaults : stage[v] = "recorded"}

Fanout(v) ==
    /\ pass = "settle"
    /\ v \in Eligible \ StuckVaults
    /\ Cardinality({u \in Eligible : u < v}) < MaxPerTick
    /\ stage' = [stage EXCEPT ![v] = "settled"]
    /\ UNCHANGED <<owed, left, windowOver, cacheVars, sweepVars, restarts>>

-----------------------------------------------------------------------------
(* The sweep over settled vaults.                                          *)

StartSweep ==
    /\ pass = "settle"
    /\ todo' = Settled
    /\ funded' = {v \in Vaults : left[v] # {}}
    /\ pass' = "vault"
    /\ UNCHANGED <<clean, chainVars, cacheVars, restarts>>

At(v, p) == pass = p /\ v \in todo /\ v = Oldest(todo)

NextVault(v) ==
    /\ todo' = todo \ {v}
    /\ pass' = "vault"
    /\ clean' = FALSE
    /\ UNCHANGED funded

\* An entry is not authority to skip: a vault that still holds collateral is
\* scanned whatever the cache says.
MaySuppress(v) == v \in finished /\ v \notin funded

SkipVault(v) ==
    /\ At(v, "vault")
    /\ MaySuppress(v)
    /\ NextVault(v)
    /\ UNCHANGED <<chainVars, cacheVars, restarts>>

OpenVault(v) ==
    /\ At(v, "vault")
    /\ ~MaySuppress(v)
    /\ pass' = "listings"
    /\ clean' = TRUE
    /\ UNCHANGED <<todo, funded, chainVars, cacheVars, restarts>>

\* Accounts that a pass over listings or orders returns.
Returned(p) == IF p = "listings" THEN {"listing"} ELSE {"ask", "bid"}

\* A scan that finds something is not an empty one, whatever comes of it.
Found(v, items) == clean' = (clean /\ owed[v] \cap items = {})

After(p) ==
    CASE p = "listings" -> "orders"
      [] p = "orders" -> "holders"
      [] p = "holders" -> "writers"

\* Batches land or fail one by one; an owner without a token account is passed
\* over.
ReturnPass(v, p) ==
    /\ At(v, p)
    /\ \E items \in SUBSET (owed[v] \cap Returned(p)) : Discharge(v, items)
    /\ Found(v, Returned(p))
    /\ pass' = After(p)
    /\ UNCHANGED <<stage, left, windowOver, cacheVars, todo, funded, restarts>>

\* Mutant: a pass that crashed counts as one that found nothing.
CrashLooksEmpty(v, p) ==
    /\ At(v, p)
    /\ pass' = After(p)
    /\ UNCHANGED <<chainVars, cacheVars, todo, funded, clean, restarts>>

\* A crash in these passes is logged, and the vault goes on.
ReturnCrash(v, p) ==
    /\ At(v, p)
    /\ pass' = After(p)
    /\ clean' = FALSE
    /\ UNCHANGED <<chainVars, cacheVars, todo, funded, restarts>>

\* The owner of a token account is taken for a wallet: deriving the account to
\* pay it on throws when it is not.
HolderThrows(v) == v \in OffCurve /\ "holder" \in owed[v]

PayHolders(v) ==
    /\ At(v, "holders")
    /\ ~HolderThrows(v)
    /\ IF "holder" \in owed[v] THEN Pay(v, "holder")
                               ELSE UNCHANGED <<owed, left>>
    /\ Found(v, {"holder"})
    /\ pass' = "writers"
    /\ UNCHANGED <<stage, windowOver, cacheVars, todo, funded, restarts>>

\* The holders are found, and no transaction lands.
HoldersFail(v) ==
    /\ At(v, "holders")
    /\ ~HolderThrows(v)
    /\ Found(v, {"holder"})
    /\ pass' = "writers"
    /\ UNCHANGED <<chainVars, cacheVars, todo, funded, restarts>>

\* The scan for the holders of a mint fails: the mint is passed over, and the
\* scan looks like one that found nobody.
HoldersUnseen(v) ==
    /\ At(v, "holders")
    /\ pass' = "writers"
    /\ UNCHANGED <<chainVars, cacheVars, todo, funded, clean, restarts>>

\* Mutant: a vault that cannot be paid out ends the sweep.
CrashEndsSweep(v, p) ==
    /\ At(v, p)
    /\ todo' = {}
    /\ pass' = "vault"
    /\ clean' = FALSE
    /\ UNCHANGED <<funded, chainVars, cacheVars, restarts>>

\* A crash in the holder or the writer pass is the end for this vault.
PayCrash(v, p) ==
    /\ At(v, p)
    /\ NextVault(v)
    /\ UNCHANGED <<chainVars, cacheVars, restarts>>

\* The pass looks for the positions of pool writers.  Those of writer asks it
\* does not see: their owners ask for their part themselves.
PayWriters(v) ==
    /\ At(v, "writers")
    /\ "writer" \in owed[v]
    /\ Pay(v, "writer")
    /\ NextVault(v)
    /\ UNCHANGED <<stage, windowOver, cacheVars, restarts>>

\* The holders' window is still open, or the transaction fails.
WritersFail(v) ==
    /\ At(v, "writers")
    /\ "writer" \in owed[v]
    /\ NextVault(v)
    /\ UNCHANGED <<chainVars, cacheVars, restarts>>

\* The file is written now and then, which may fail.
Flushes == file' \in {file, finished'}

MarkFinished(v) ==
    /\ At(v, "writers")
    /\ "writer" \notin owed[v]
    /\ finished' = IF clean THEN finished \cup {v} ELSE finished
    /\ Flushes
    /\ NextVault(v)
    /\ UNCHANGED <<chainVars, restarts>>

\* The sweep is over: entries too old are dropped, the rest is written.
EndSweep ==
    /\ pass = "vault" /\ todo = {}
    /\ finished' \in SUBSET finished
    /\ Flushes
    /\ pass' = "settle"
    /\ UNCHANGED <<todo, funded, clean, chainVars, restarts>>

\* The process starts again, at whatever point, from the file: as much of it
\* as is still there and trusted.
Restart ==
    /\ restarts < MaxRestarts
    /\ restarts' = restarts + 1
    /\ finished' \in {{}, file}
    /\ file' = finished'
    /\ todo' = {} /\ funded' = {}
    /\ pass' = "settle"
    /\ clean' = FALSE
    /\ UNCHANGED chainVars

SweepStep(v) ==
    \/ SkipVault(v) \/ OpenVault(v)
    \/ \E p \in {"listings", "orders"} : ReturnPass(v, p) \/ ReturnCrash(v, p)
    \/ PayHolders(v) \/ HoldersFail(v) \/ HoldersUnseen(v)
    \/ PayWriters(v) \/ WritersFail(v) \/ MarkFinished(v)
    \/ \E p \in {"holders", "writers"} : PayCrash(v, p)

CrankNext ==
    \/ StartSweep \/ EndSweep \/ Restart
    \/ \E v \in Vaults :
           \/ SomebodySettles(v) \/ SomebodyCloses(v) \/ WindowEnds(v)
           \/ RecordPrice(v) \/ Fanout(v) \/ SweepStep(v)

Goes == StartSweep \/ EndSweep \/ \E v \in Vaults : SweepStep(v)

Settles == \E v \in Vaults : RecordPrice(v) \/ Fanout(v)

PaysOut ==
    /\ \E v \in Vaults :
           \/ \E p \in {"listings", "orders"} : ReturnPass(v, p)
           \/ PayHolders(v) \/ PayWriters(v)
    /\ owed' # owed

\* The loop goes on, and calls that are repeated for ever succeed now and then.
\* There are finitely many to make, so each that is possible is made.  The
\* holder pass of a vault does not crash for ever on account of the network.
CrankFairness ==
    /\ WF_crankVars(Goes)
    /\ SF_crankVars(Settles) /\ SF_crankVars(PaysOut)
    /\ \A v \in Vaults : SF_crankVars(PayHolders(v))

CrankSpec == CrankInit /\ [][CrankNext]_crankVars /\ CrankFairness

-----------------------------------------------------------------------------
(* Properties. *)

\* Every variable has its type.
CrankTypeOK ==
    /\ stage \in [Vaults -> {"expired", "recorded", "settled"}]
    /\ owed \in [Vaults -> SUBSET Accounts]
    /\ left \in [Vaults -> SUBSET Owners]
    /\ windowOver \subseteq Vaults
    /\ finished \subseteq Vaults /\ file \subseteq Vaults
    /\ todo \subseteq Vaults /\ funded \subseteq Vaults
    /\ pass \in {"settle", "vault", "listings", "orders", "holders", "writers"}
    /\ clean \in BOOLEAN

\* A wrongly suppressed vault means somebody never gets paid (finalizeCache.ts).
\* What is remembered as finished has no order, listing or pool writer left; it
\* may have a backer, whom the passes never see, or a token holder whose scan
\* failed, but while there is money for them the sweep does not skip it.
FinishedOwesNothing ==
    /\ \A v \in finished \cup file :
           v \in Settled /\ owed[v] \subseteq {"holder", "backer"}
    /\ \A v \in todo : MaySuppress(v) => left[v] = {}

\* Whatever fails, crashes or restarts on the way, in a vault that can be
\* settled and paid: orders, listings and holders are paid unless their window
\* ends first, and after it nothing is left to claim but by backers, who claim
\* for themselves (bot.ts: tick); vaults that are stuck, or scanned for ever
\* for a backer's sake, do not hold up the others.
EverybodyPaid ==
    \A v \in Vaults \ (StuckVaults \cup OffCurve) :
        []<>IF v \in windowOver
            THEN owed[v] \subseteq {"holder", "backer"} /\ left[v] \subseteq {"backers"}
            ELSE owed[v] \subseteq {"writer", "backer"}
=============================================================================
