------------------------------ MODULE WindDown ------------------------------
(***************************************************************************)
(* A shared vault under the operator's crank (crank/bot.ts, every five     *)
(* minutes): it settles vaults whose price is known, pays their holders    *)
(* and writers out, and, in a pass the operator has switched on, voids     *)
(* vaults whose price never came and gives the writers' collateral back.   *)
(*                                                                         *)
(* The last pass is a process of its own (crank/reclaimUnsettled.ts): it   *)
(* takes up a vault that a listing shows as neither settled nor voided,    *)
(* voids it, lists the writers with shares, and reclaims for one after the *)
(* other.  The first transaction that fails ends it for this vault; and as *)
(* a voided vault is not taken up again, nothing comes back to the rest.   *)
(***************************************************************************)
EXTENDS SharedVault

VARIABLES
    pass,     \* where the reclaim pass is with this vault
    listed,   \* the writers it has still to reclaim for
    gave_up   \* history: a pass ended early, with the vault voided

passVars == <<pass, listed, gave_up>>
windVars == <<vars, passVars>>

WindInit ==
    /\ Init
    /\ pass = "idle"
    /\ listed = {}
    /\ gave_up = FALSE

\* A dead-feed candidate, as the listing shows it.
Candidate ==
    /\ vault.created
    /\ ~vault.is_settled /\ ~vault.voided
    /\ GraceEnd < now
    /\ settlement_record = NoPrice

TakeUp ==
    /\ pass = "idle"
    /\ Candidate
    /\ pass' = "voiding"
    /\ UNCHANGED <<vars, listed, gave_up>>

\* Somebody may have voided it since, which serves as well.
VoidCandidate ==
    /\ pass = "voiding"
    /\ IF vault.voided THEN UNCHANGED vars ELSE InitializeVoid
    /\ pass' = "listing"
    /\ UNCHANGED <<listed, gave_up>>

\* Or its price came after all: the void is refused.
DropCandidate ==
    /\ pass = "voiding"
    /\ ~vault.voided
    /\ vault.is_settled \/ settlement_record # NoPrice
    /\ pass' = "idle"
    /\ UNCHANGED <<vars, listed, gave_up>>

\* Mutant: writers whose contracts are out are passed over.
ListIdleWriters ==
    /\ pass = "listing"
    /\ listed' = {w \in Writers : position[w].shares > 0 /\ position[w].options_minted = 0}
    /\ pass' = "reclaiming"
    /\ UNCHANGED <<vars, gave_up>>

ListWriters ==
    /\ pass = "listing"
    /\ listed' = {w \in Writers : position[w].shares > 0}
    /\ pass' = "reclaiming"
    /\ UNCHANGED <<vars, gave_up>>

ReclaimListed(w) ==
    /\ pass = "reclaiming"
    /\ w \in listed
    /\ ReclaimUnsettled(w)
    /\ listed' = listed \ {w}
    /\ UNCHANGED <<pass, gave_up>>

\* Refused on chain: somebody reclaimed for the writer after the listing, or the
\* account is short of what the writer is owed.
Refused(w) ==
    position[w].shares > 0 => UnclaimedPremium(w) + ResidualClaim(w) > vault_usdc

\* A transaction fails, for whatever reason, or the process dies.
GiveUp ==
    /\ pass \in {"listing", "reclaiming"}
    /\ pass' = "idle"
    /\ listed' = {}
    /\ gave_up' = TRUE
    /\ UNCHANGED vars

ReclaimRefused ==
    /\ \E w \in listed : Refused(w)
    /\ GiveUp

EndPass ==
    /\ pass = "reclaiming"
    /\ listed = {}
    /\ pass' = "idle"
    /\ UNCHANGED <<vars, listed, gave_up>>

ReclaimPass ==
    \/ TakeUp \/ VoidCandidate \/ DropCandidate \/ ListWriters
    \/ \E w \in Writers : ReclaimListed(w)
    \/ ReclaimRefused
    \/ EndPass

WindNext ==
    \/ Next /\ UNCHANGED passVars
    \/ ReclaimPass
    \/ GiveUp

\* The crank comes round again and again, to settle, to take up, and to pay
\* holders and writers of settled vaults out; and time passes.  Nobody has to
\* act on his own, and no transaction of the reclaim pass has to succeed.
Fairness ==
    /\ WF_windVars(Tick /\ UNCHANGED passVars)
    /\ WF_windVars(SettleVault /\ UNCHANGED passVars)
    /\ WF_windVars(ReclaimPass)
    /\ \A w \in Writers : WF_windVars(AutoFinalizeWriters(w) /\ UNCHANGED passVars)
    /\ \A h \in Holders : WF_windVars(AutoFinalizeHolders(h) /\ UNCHANGED passVars)

FairSpec == WindInit /\ [][WindNext]_windVars /\ Fairness

-----------------------------------------------------------------------------
(* Properties. *)

\* With the cranks running, a created vault is settled or voided, even if the
\* price comes late, races the void, or never comes.
EventuallyResolved == vault.created ~> ~Unresolved

\* Once the pass has got as far as a voided vault, every writer gets out of it,
\* others reclaiming meanwhile, unless a transaction of the pass fails: then the
\* rest are left to themselves.
VoidedWritersGetOut ==
    pass = "listing" ~> gave_up \/ \A w \in Writers : position[w].shares = 0

\* With the cranks running, a settled vault that has writers is closed in the
\* end: neither truncation dust nor unexercised tokens keep USDC in it.
SettledVaultCloses ==
    (vault.is_settled /\ vault.total_shares > 0 /\ roundings = 0) ~> ~usdc_open
=============================================================================
